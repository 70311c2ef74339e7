-------------------------------- MODULE Files --------------------------------
(***************************************************************************)
(* The contents of files and directories: the block tables of              *)
(* src/os/fs/fs_inode.c, the open files of lib/file.c over them, and the   *)
(* growth of directories in fs_directory.c.                                *)
(*                                                                         *)
(* A block is a row of cells.  A cell holds a byte, an entry or a pointer, *)
(* and what it holds depends on who reads it.  Block FS_DATA_FAILURE is    *)
(* the block before the data area: adding UINT64_MAX to its start gives    *)
(* the one before, and it is read and written like any other.              *)
(***************************************************************************)
EXTENDS Integers, FiniteSets, FiniteSetsExt, SequencesExt

CONSTANTS
    CELLS,            \* bytes_per_block, and pointers in an indirect table
    POINTERS,         \* FS_INODE_TABLE_POINTER_COUNT
    BLOCKS,           \* data_blocks_block_count
    Numbers,          \* inode numbers
    Kind,             \* bound: what each inode is used for, a "file" or a "dir"
    Handles,          \* the file_t that can be open at once
    Seeks,            \* the places that are sought
    MaxSize,          \* bound: cells in a file
    MaxCount          \* bound: cells in one read or write

VARIABLES
    disk,             \* block number -> cells
    data_bitmap,      \* the data blocks whose bit is set
    inode,            \* inode number -> inode_t
    file,             \* handle -> file_t
    contents,         \* history: what a file should hold
    plain,            \* history: the files for which that is claimed
    answer            \* history: what the last read returned, and should have

vars == <<disk, data_bitmap, inode, file, contents, plain, answer>>

ASSUME FilesAssumption ==
    /\ CELLS \in Nat \ {0} /\ POINTERS \in Nat \ {0} /\ BLOCKS \in Nat \ {0, 1}
    /\ MaxCount \in Nat /\ MaxSize \in Nat
    /\ Numbers \subseteq Nat /\ Seeks \subseteq Nat
    /\ Kind \in [Numbers -> {"file", "dir"}]

(* A bound: files end within the first indirect table.                     *)
ASSUME SmallFiles == MaxSize <= (POINTERS + CELLS) * CELLS

FS_DATA_FAILURE == -1
DataBlocks == 0 .. BLOCKS - 1
Closed == [open |-> FALSE]

-----------------------------------------------------------------------------
(* The functions of fs_inode.c, on a record s of disk, bitmap and inodes.  *)
State == [disk |-> disk, used |-> data_bitmap, inode |-> inode]

Become(s) == disk' = s.disk /\ data_bitmap' = s.used /\ inode' = s.inode

(* The cutoff of the direct pointers is one too high: pointer number       *)
(* POINTERS is the field behind the array, first_indirect_table, which is  *)
(* never given a block of its own.                                         *)
FS_INODE_TABLE_CUTOFF == POINTERS + 1

get_block(s, i, index) ==
    IF index >= s.inode[i].block_count THEN FS_DATA_FAILURE
    ELSE IF index < FS_INODE_TABLE_CUTOFF THEN s.inode[i].blocks[index]
    ELSE s.disk[s.inode[i].blocks[POINTERS]][index - POINTERS]

set_block(s, i, index, block) ==
    IF block = FS_DATA_FAILURE THEN s       \* larger than any block number
    ELSE IF index < FS_INODE_TABLE_CUTOFF THEN [s EXCEPT !.inode[i].blocks[index] = block]
    ELSE [s EXCEPT !.disk[s.inode[i].blocks[POINTERS]][index - POINTERS] = block]

(* Mutant: the block is found and its bit is not set.                      *)
MutDataAlloc(s) == [s |-> s, block |-> Min(DataBlocks \ s.used)]

data_alloc_block(s) ==
    IF s.used = DataBlocks THEN [s |-> s, block |-> FS_DATA_FAILURE]
    ELSE [s     |-> [s EXCEPT !.used = @ \cup {Min(DataBlocks \ s.used)}],
          block |-> Min(DataBlocks \ s.used)]

(* What was allocated before a failure stays in the table, uncounted.      *)
alloc_blocks(s, i, count) ==
    LET taken[k \in 0 .. count] ==
            IF k = 0 THEN [s |-> s, ok |-> TRUE]
            ELSE IF ~ taken[k - 1].ok THEN taken[k - 1]
            ELSE LET a == data_alloc_block(taken[k - 1].s)
                 IN  IF a.block = FS_DATA_FAILURE
                     THEN [s |-> a.s, ok |-> FALSE]
                     ELSE [s  |-> set_block(a.s, i, s.inode[i].block_count + k - 1, a.block),
                           ok |-> TRUE]
    IN  IF taken[count].ok
        THEN [s  |-> [taken[count].s EXCEPT !.inode[i].block_count = @ + count], ok |-> TRUE]
        ELSE taken[count]

(* Freeing lowers the count before it looks the blocks up, so each look-up *)
(* fails, and no bit is cleared nor pointer changed.                       *)
free_blocks(s, i, count) ==
    LET lowered == [s EXCEPT !.inode[i].block_count = @ - count]
        freed == {get_block(lowered, i, lowered.inode[i].block_count + k) : k \in 0 .. count - 1}
    IN  [lowered EXCEPT !.used = @ \ freed]

InBlocks(size) == (size + CELLS - 1) \div CELLS

(* Directories only ever grow.                                             *)
set_size(s, i, size) ==
    LET a == alloc_blocks(s, i, InBlocks(size) - InBlocks(s.inode[i].size))
    IN  IF a.ok THEN [a.s EXCEPT !.inode[i].size = size] ELSE a.s

-----------------------------------------------------------------------------
(* The functions of file.c, on s and the file_t f of handle h.             *)

(* Mutant of load: the block that was written to is dropped.               *)
MutLoad(t) ==
    LET id == get_block(t.s, t.f.inode, t.f.block_index + 1)
    IN  [t EXCEPT !.f.block_index = @ + 1, !.f.block_id = id, !.f.block = t.s.disk[id]]

(* At the start of a block the buffer is written back, if it was ever      *)
(* written to, and the block after the last one loaded is loaded, wherever *)
(* the cursor is.                                                          *)
load(t) ==
    LET s == IF t.f.dirty THEN [t.s EXCEPT !.disk[t.f.block_id] = t.f.block] ELSE t.s
        id == get_block(s, t.f.inode, t.f.block_index + 1)
    IN  [t EXCEPT !.s = s, !.f.block_index = @ + 1, !.f.block_id = id, !.f.block = s.disk[id]]

(* Mutant of Ready: only the first block is loaded.                        *)
MutReady(t) == IF t.f.block_index = FS_DATA_FAILURE THEN load(t) ELSE t

Ready(t) == IF t.f.cursor % CELLS = 0 THEN load(t) ELSE t

(* Reads count cells; t.read is what is read.                              *)
read_cells(s, f, count) ==
    LET t[k \in 0 .. count] ==
            IF k = 0 THEN [s |-> s, f |-> f, read |-> <<>>]
            ELSE LET r == Ready(t[k - 1])
                 IN  [r EXCEPT !.read = Append(@, r.f.block[r.f.cursor % CELLS]),
                               !.f.cursor = @ + 1]
    IN  t[count]

write_cells(s, f, data) ==
    LET t[k \in 0 .. Len(data)] ==
            IF k = 0 THEN [s |-> s, f |-> f]
            ELSE LET r == Ready(t[k - 1])
                 IN  [r EXCEPT !.f.block[r.f.cursor % CELLS] = data[k],
                               !.f.dirty = TRUE, !.f.cursor = @ + 1]
    IN  t[Len(data)]

-----------------------------------------------------------------------------
Unused == [kind |-> "free", size |-> 0, block_count |-> 0,
           blocks |-> [k \in 0 .. POINTERS |-> FS_DATA_FAILURE]]
NoAnswer == [is |-> <<>>, due |-> <<>>]

Init ==
    /\ disk = [b \in DataBlocks \cup {FS_DATA_FAILURE} |-> [c \in 0 .. CELLS - 1 |-> 0]]
    /\ data_bitmap = {}
    /\ inode = [i \in Numbers |-> Unused]
    /\ file = [h \in Handles |-> Closed]
    /\ contents = [i \in Numbers |-> <<>>]
    /\ plain = Numbers
    /\ answer = NoAnswer

(* Files with more blocks than pointers keep the others in a block of      *)
(* their own data, so that what is written to them is taken for pointers,  *)
(* and as long as there is one, no file is safe.                           *)
Direct == \A i \in Numbers : inode[i].block_count <= FS_INODE_TABLE_CUTOFF

(* fs_inode_create.  While a file is too large nothing is claimed of new   *)
(* files either.                                                           *)
Create(i) ==
    /\ inode[i].kind = "free"
    /\ inode' = [inode EXCEPT ![i] = [Unused EXCEPT !.kind = Kind[i]]]
    /\ contents' = [contents EXCEPT ![i] = <<>>]
    /\ plain' = IF Direct THEN plain \cup {i} ELSE plain
    /\ answer' = NoAnswer
    /\ UNCHANGED <<disk, data_bitmap, file>>

Open(i) == {h \in Handles : file[h].open /\ file[h].inode = i}

(* fs_inode_destroy, of an inode no file_t is open for.                    *)
Destroy(i) ==
    /\ inode[i].kind # "free" /\ Open(i) = {}
    /\ LET s == free_blocks(State, i, inode[i].block_count)
       IN  Become([s EXCEPT !.inode[i] = Unused])
    /\ contents' = [contents EXCEPT ![i] = <<>>]
    /\ answer' = NoAnswer
    /\ UNCHANGED <<file, plain>>

(* fs_directory_entry_add where no entry is free.  Whether the directory   *)
(* grew is not looked at.  If it is open as a file, what the file_t has in *)
(* its buffer is no longer what is on the disk.                            *)
entry_add(i, entry) ==
    /\ inode[i].kind = "dir" /\ inode[i].size < MaxSize
    /\ LET s == set_size(State, i, inode[i].size + 1)
           b == get_block(s, i, inode[i].size \div CELLS)
       IN  /\ Become([s EXCEPT !.disk[b][inode[i].size % CELLS] = entry])
           /\ contents' = IF s.inode[i].size = inode[i].size THEN contents
                          ELSE [contents EXCEPT ![i] = Append(@, entry)]
           /\ plain' = IF s.inode[i].block_count > FS_INODE_TABLE_CUTOFF THEN {}
                       ELSE IF Open(i) = {} THEN plain ELSE plain \ {i}
    /\ answer' = NoAnswer
    /\ UNCHANGED file

(* file_open, and the seek to the start.  The buffer is not initialised;   *)
(* the first read or write at the start loads it.  What is claimed is      *)
(* claimed of files with one file_t at a time.  A directory is opened just *)
(* as well as a file: the type of its entry is not looked at.              *)
file_open(h, i, mode) ==
    /\ ~ file[h].open /\ inode[i].kind # "free"
    /\ file' = [file EXCEPT ![h] =
          [open |-> TRUE, inode |-> i, read |-> "r" \in mode, write |-> "w" \in mode,
           cursor |-> 0, block_index |-> FS_DATA_FAILURE, block_id |-> FS_DATA_FAILURE,
           block |-> disk[FS_DATA_FAILURE], dirty |-> FALSE]]
    /\ plain' = IF Open(i) = {} THEN plain ELSE plain \ {i}
    /\ answer' = NoAnswer
    /\ UNCHANGED <<disk, data_bitmap, inode, contents>>

file_close(h) ==
    /\ file[h].open
    /\ disk' = IF file[h].dirty THEN [disk EXCEPT ![file[h].block_id] = file[h].block] ELSE disk
    /\ file' = [file EXCEPT ![h] = Closed]
    /\ answer' = NoAnswer
    /\ UNCHANGED <<data_bitmap, inode, contents, plain>>

(* file_seek.  Only the cursor changes, not the block in the buffer: from  *)
(* here on nothing is claimed.  A seek before the first access would use   *)
(* the buffer before it is initialised, and is left out.                   *)
file_seek(h, cursor) ==
    /\ file[h].open /\ file[h].block_index # FS_DATA_FAILURE
    /\ file' = [file EXCEPT ![h].cursor = cursor]
    /\ plain' = plain \ {file[h].inode}
    /\ answer' = NoAnswer
    /\ UNCHANGED <<disk, data_bitmap, inode, contents>>

file_read(h, count) ==
    /\ file[h].open /\ file[h].read
    /\ file[h].cursor <= inode[file[h].inode].size
    /\ LET size == inode[file[h].inode].size
           clipped == Min({count, size - file[h].cursor})
           t == read_cells(State, file[h], clipped)
       IN  /\ Become(t.s)
           /\ file' = [file EXCEPT ![h] = t.f]
           /\ answer' = IF file[h].inode \in plain
                        THEN [is |-> t.read,
                              due |-> SubSeq(contents[file[h].inode], file[h].cursor + 1,
                                             Min({size, file[h].cursor + count}))]
                        ELSE NoAnswer
    /\ UNCHANGED <<contents, plain>>

(* Blocks are allocated for what is beyond the size, whatever is left in   *)
(* the last block, and whether they were is not looked at.  The size grows *)
(* by what is written, wherever the cursor is.  Bound: nobody writes to a  *)
(* directory this way (edit opens what it is given for writing, and does   *)
(* not write yet).                                                         *)
file_write(h, data) ==
    LET i == file[h].inode
        extra == Max({0, file[h].cursor + Len(data) - inode[i].size})
        a == alloc_blocks(State, i, InBlocks(extra))
        t == write_cells(a.s, file[h], data)
    IN  /\ file[h].open /\ file[h].write /\ inode[i].kind = "file"
        /\ inode[i].size + Len(data) <= MaxSize
        /\ inode[i].block_count + InBlocks(extra) <= POINTERS + CELLS
        /\ Become([t.s EXCEPT !.inode[i].size = @ + Len(data)])
        /\ file' = [file EXCEPT ![h] = t.f]
        /\ plain' = IF a.s.inode[i].block_count > FS_INODE_TABLE_CUTOFF THEN {}
                    ELSE IF a.ok /\ file[h].cursor = inode[i].size THEN plain
                    ELSE plain \ {i}
        /\ contents' = [contents EXCEPT ![i] = IF i \in plain' THEN @ \o data ELSE <<>>]
        /\ answer' = NoAnswer

(* What is written where: a cell tells its file and its place, as long as  *)
(* something is claimed of the file.  It is a number that could be a       *)
(* pointer.                                                                *)
Byte(i, place) == IF i \in plain THEN (place + 2 * i) % BLOCKS ELSE 0
Data(i, count) == [k \in 1 .. count |-> Byte(i, inode[i].size + k)]

Next ==
    \/ \E i \in Numbers : Create(i)
    \/ \E i \in Numbers : Destroy(i)
    \/ \E i \in Numbers : entry_add(i, Byte(i, inode[i].size + 1))
    \/ \E h \in Handles, i \in Numbers, mode \in {{"r"}, {"w"}, {"r", "w"}} : file_open(h, i, mode)
    \/ \E h \in Handles : file_close(h)
    \/ \E h \in Handles, cursor \in Seeks : file_seek(h, cursor)
    \/ \E h \in Handles, count \in 1 .. MaxCount : file_read(h, count)
    \/ \E h \in Handles, count \in 1 .. MaxCount :
          file[h].open /\ file_write(h, Data(file[h].inode, count))

Spec == Init /\ [][Next]_vars

-----------------------------------------------------------------------------
(* The data blocks inode i has, with their place in its table.             *)
Owned(i) == {[inode |-> i, index |-> k, block |-> get_block(State, i, k)] :
                k \in 0 .. inode[i].block_count - 1}

(* No data block belongs to two files, or twice to one, and each one that  *)
(* belongs to a file is marked: on a full disk too, and after deletions.   *)
OwnBlocks ==
    Direct => LET all == UNION {Owned(i) : i \in Numbers}
              IN  /\ \A o, p \in all : o.block = p.block => o = p
                  /\ \A o \in all : o.block \in data_bitmap

(* The cell of file i at this place: in the buffer of a file_t that holds  *)
(* its block and has written to it, or on the disk.                        *)
Cell(i, place) ==
    LET b == get_block(State, i, place \div CELLS)
        newer == {h \in Open(i) : file[h].dirty /\ file[h].block_id = b}
    IN  IF newer = {} THEN disk[b][place % CELLS]
        ELSE file[CHOOSE h \in newer : TRUE].block[place % CELLS]

(* A file that is written from its end on, by one file_t at a time, holds  *)
(* what was written; a directory holds its entries, and loses none of them *)
(* when the disk is full.  That is so whatever happens to other files,     *)
(* overwritten or confused by a seek, until one gets too large.            *)
FilesHoldTheirContents ==
    \A i \in plain :
        /\ inode[i].size = Len(contents[i])
        /\ \A k \in 1 .. Len(contents[i]) : Cell(i, k - 1) = contents[i][k]

(* A read returns the cells at the cursor, all that there are.             *)
ReadsWhatWasWritten == answer.is = answer.due

=============================================================================

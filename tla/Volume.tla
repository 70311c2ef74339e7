-------------------------------- MODULE Volume --------------------------------
(***************************************************************************)
(* The file system as a volume on the disk: its layout,                    *)
(* src/os/fs/fs_superblock.c, and how it is made and mounted at boot,      *)
(* fs_init of src/os/fs/fs.c with the writes of every part it calls, one   *)
(* step per write.  The machine may stop between any two of them.          *)
(*                                                                         *)
(* A sector is a tuple of what it holds.  Bitmaps are the sets of their    *)
(* bits that stand for something; BitmapDisk has them in detail.           *)
(***************************************************************************)
EXTENDS Integers, FiniteSets, Sequences

CONSTANTS
    Volumes,          \* the constants a kernel is built with: fs_system.h, sizes of structs
    Images,           \* sectors where the image of the kernel may end on the new disk
    MaxBoots          \* bound: how often the machine starts

VARIABLES
    v,                        \* the constants of this kernel
    disk,                     \* sector -> what it holds
    pc, i,                    \* fs_init: the write to come, and its number in a loop
    data_bits, inode_bits,    \* the bitmaps in memory
    root,                     \* the inode cache: root inode not written back yet
    boots,
    formatted                 \* history: some fs_init made the file system to the end

vars == <<v, disk, pc, i, data_bits, inode_bits, root, boots, formatted>>

FS_ROOT_DIRECTORY_INODE == 0

-----------------------------------------------------------------------------
(* fs_superblock_calculate.                                                *)
Up(n, unit) == (n + unit - 1) \div unit

MutSuperblock(p) ==         \* mutant: the areas follow each other with no gap
    LET bytes_per_block == p.sectors_per_block * p.sector_size
        block_count == p.sector_count \div p.sectors_per_block
        inodes_per_block == bytes_per_block \div p.inode_size
        table_count == Up(p.inode_count, inodes_per_block)
        inode_bitmap == p.start + Up(p.superblock_size, bytes_per_block)
        inode_table == inode_bitmap + Up(table_count, 8)
        remaining == block_count - (inode_table + table_count)
        data_bitmap == inode_table + table_count
    IN  [ block_count |-> block_count, inodes_per_block |-> inodes_per_block,
          inode_bitmap_start |-> inode_bitmap,
          inode_table_start |-> inode_table, inode_table_block_count |-> table_count,
          data_bitmap_start |-> data_bitmap,
          data_blocks_start |-> data_bitmap + remaining \div 9,
          data_blocks_block_count |-> 8 * (remaining \div 9) ]

(* start is a sector, and is used as the block number of the superblock    *)
(* too.  remaining counts one gap less than there are behind it.           *)
Superblock(p) ==
    LET bytes_per_block == p.sectors_per_block * p.sector_size
        block_count == p.sector_count \div p.sectors_per_block
        inodes_per_block == bytes_per_block \div p.inode_size
        table_count == Up(p.inode_count, inodes_per_block)
        inode_bitmap == p.start + Up(p.superblock_size, bytes_per_block) + 1
        inode_table == inode_bitmap + Up(table_count, 8) + 1
        remaining == block_count - (inode_table + table_count)
        data_bitmap == inode_table + table_count + 1
    IN  [ block_count |-> block_count, inodes_per_block |-> inodes_per_block,
          inode_bitmap_start |-> inode_bitmap,
          inode_table_start |-> inode_table, inode_table_block_count |-> table_count,
          data_bitmap_start |-> data_bitmap,
          data_blocks_start |-> data_bitmap + remaining \div 9 + 1,
          data_blocks_block_count |-> 8 * (remaining \div 9) ]

sb == Superblock(v)

block_to_sector(block) == v.start + block * v.sectors_per_block

(* Room for the disk image behind the last block.                          *)
Sectors == v.start .. v.start + (sb.block_count + 4) * v.sectors_per_block

ASSUME VolumesAssumption ==
    /\ MaxBoots \in Nat /\ Images \subseteq Nat
    /\ Volumes \subseteq
          [ start : Nat, sector_size : Nat \ {0}, superblock_size : Nat \ {0},
            inode_size : Nat \ {0}, sectors_per_block : Nat \ {0}, sector_count : Nat,
            inode_count : Nat \ {0} ]
    /\ \A p \in Volumes :
          /\ p.inode_count % 8 = 0
          /\ p.superblock_size <= p.sector_size
          /\ p.inode_size <= p.sectors_per_block * p.sector_size
          /\ Superblock(p).data_blocks_block_count \in Nat \ {0}

(* How many blocks bitmap.c makes of a bitmap.                             *)
BitmapBlocks(bits) == Up(bits \div 8, v.sectors_per_block * v.sector_size)

(* The sectors bitmap_disk_init writes: it goes on from sector to sector   *)
(* and writes a block at each, the last time a sector before the end.      *)
BitmapWrites(start, bits) ==
    LET count == BitmapBlocks(bits) * v.sectors_per_block
    IN  (UNION { start + k .. start + k + v.sectors_per_block - 1 : k \in 0 .. count - 2 })
        \cup (start + (BitmapBlocks(bits) - 1) * v.sectors_per_block ..
              start + BitmapBlocks(bits) * v.sectors_per_block - 1)

Blocks(first, count) == block_to_sector(first) .. block_to_sector(first + count) - 1

-----------------------------------------------------------------------------
Blank == <<"blank">>
Image == <<"image">>
Magic == <<"superblock">>
Bits(set) == <<"bits", set>>
Inodes(set) == <<"inodes", set>>
Entries(set) == <<"entries", set>>
Part == <<"part">>

(* What a kernel makes of a sector where it looks for bits, or inodes: in  *)
(* a blank one there are none, and whatever a piece of the kernel's image  *)
(* is read as, nothing is claimed of it.                                   *)
SetIn(sector, kind) == IF disk[sector][1] = kind THEN disk[sector][2] ELSE {}

(* A write of one block at a sector: what it holds, and the rest of it.    *)
Written(d, sector, what) ==
    [s \in Sectors |->
        IF s = sector THEN what
        ELSE IF s \in sector + 1 .. sector + v.sectors_per_block - 1 THEN Part
        ELSE d[s]]

WriteBlock(sector, what) == disk' = Written(disk, sector, what)

DataBitmap == block_to_sector(sb.data_bitmap_start)
InodeBitmap == block_to_sector(sb.inode_bitmap_start)
RootInode == block_to_sector(sb.inode_table_start + FS_ROOT_DIRECTORY_INODE \div sb.inodes_per_block)
DataBlock(b) == block_to_sector(sb.data_blocks_start + b)

(* A disk without a superblock yet.  The Makefile copies the kernel behind *)
(* the boot sectors, as far as it goes: to a sector in front of the volume,*)
(* or into any part of it.  What is loaded of it lies in front.            *)
Init ==
    /\ v \in Volumes
    /\ \E end \in Images : disk = [s \in Sectors |-> IF s < end THEN Image ELSE Blank]
    /\ pc = "load_superblock" /\ i = 0
    /\ data_bits = {} /\ inode_bits = {} /\ root = {}
    /\ boots = 1 /\ formatted = FALSE

memory == <<data_bits, inode_bits, root>>
others == <<v, boots>>

Then(from, to) == pc = from /\ pc' = to /\ i' = 0

-----------------------------------------------------------------------------
(* fs_superblock_load decides by the magic number alone.                   *)
LoadSuperblock ==
    /\ Then("load_superblock", IF disk[v.start] = Magic THEN "load_data" ELSE "superblock")
    /\ UNCHANGED <<disk, memory, others, formatted>>

InitSuperblock ==
    /\ Then("superblock", "init_data")
    /\ disk' = [disk EXCEPT ![v.start] = Magic]
    /\ UNCHANGED <<memory, others, formatted>>

(* bitmap_disk_init, write by write: zeros at each sector but the last,    *)
(* then the last block, whose padding is set.                              *)
InitBitmap(from, to, start, bits) ==
    LET count == BitmapBlocks(bits) * v.sectors_per_block
    IN  \/ /\ i < count - 1
           /\ pc = from /\ pc' = from /\ i' = i + 1
           /\ WriteBlock(start + i, Bits({}))
        \/ /\ i = count - 1
           /\ Then(from, to)
           /\ WriteBlock(start + (BitmapBlocks(bits) - 1) * v.sectors_per_block, Bits({}))

InitData ==
    /\ InitBitmap("init_data", "init_inodes", DataBitmap, sb.data_blocks_block_count)
    /\ data_bits' = {}
    /\ UNCHANGED <<inode_bits, root, others, formatted>>

InitInodes ==
    /\ InitBitmap("init_inodes", "mark_root", InodeBitmap, v.inode_count)
    /\ inode_bits' = {}
    /\ UNCHANGED <<data_bits, root, others, formatted>>

MarkRoot ==
    /\ Then("mark_root", "add_current")
    /\ inode_bits' = inode_bits \cup {FS_ROOT_DIRECTORY_INODE}
    /\ WriteBlock(InodeBitmap, Bits(inode_bits'))
    /\ UNCHANGED <<data_bits, root, others, formatted>>

(* fs_directory_create_root: the inode stays in the cache, the bit of its  *)
(* block in memory; the entries are written.                               *)
AddCurrent ==
    /\ Then("add_current", "add_parent")
    /\ root' = {FS_ROOT_DIRECTORY_INODE}
    /\ data_bits' = data_bits \cup {0}
    /\ WriteBlock(DataBlock(0), Entries({"."}))
    /\ UNCHANGED <<inode_bits, others, formatted>>

AddParent ==
    /\ Then("add_parent", "load_data")
    /\ WriteBlock(DataBlock(0), Entries({".", ".."}))
    /\ UNCHANGED <<memory, others, formatted>>

(* Mutant: the bitmap of data blocks is loaded and not flushed before.     *)
MutLoadData ==
    /\ Then("load_data", "load_inodes")
    /\ UNCHANGED <<disk, memory, others, formatted>>

(* fs_data_load flushes what is dirty, which is only what formatting left, *)
(* and loads the first block of the bitmap.                                *)
LoadData ==
    /\ Then("load_data", "load_inodes")
    /\ IF root # {} THEN WriteBlock(DataBitmap, Bits(data_bits)) /\ UNCHANGED data_bits
       ELSE UNCHANGED disk /\ data_bits' = SetIn(DataBitmap, "bits")
    /\ UNCHANGED <<inode_bits, root, others, formatted>>

(* fs_inode_cache_entry_flush: the block of the inode is read and written. *)
SetInode(n) ==
    LET sector == block_to_sector(sb.inode_table_start + n \div sb.inodes_per_block)
    IN  WriteBlock(sector, Inodes(SetIn(sector, "inodes") \cup {n}))

(* fs_inode_load writes back the inodes that are in the cache.             *)
LoadInodes ==
    /\ Then("load_inodes", "up")
    /\ inode_bits' = SetIn(InodeBitmap, "bits")
    /\ IF root # {} THEN SetInode(FS_ROOT_DIRECTORY_INODE) ELSE UNCHANGED disk
    /\ root' = {}
    /\ formatted' = (formatted \/ root # {})
    /\ UNCHANGED <<data_bits, others>>

-----------------------------------------------------------------------------
(* The file system at work: what it writes, wherever it may write.  The    *)
(* block of the root directory is in use.                                  *)
WriteData(b) ==
    /\ pc = "up"
    /\ WriteBlock(DataBlock(b), Entries({}))
    /\ UNCHANGED <<pc, i, memory, others, formatted>>

WriteInode(n) ==
    /\ pc = "up"
    /\ SetInode(n)
    /\ UNCHANGED <<pc, i, memory, others, formatted>>

(* A bitmap of more blocks than the one in memory is written when another  *)
(* is loaded, bitmap_disk_load_block; the only one of its bitmap never is. *)
SaveBitmap(start, bits, in_memory) ==
    /\ pc = "up"
    /\ BitmapBlocks(bits) > 1
    /\ WriteBlock(start, Bits(in_memory))
    /\ UNCHANGED <<pc, i, memory, others, formatted>>

(* The machine stops, anywhere, and starts again.                          *)
Reboot ==
    /\ boots < MaxBoots
    /\ boots' = boots + 1
    /\ pc' = "load_superblock" /\ i' = 0
    /\ data_bits' = {} /\ inode_bits' = {} /\ root' = {}
    /\ UNCHANGED <<v, disk, formatted>>

fs_init ==
    \/ LoadSuperblock \/ InitSuperblock \/ InitData \/ InitInodes \/ MarkRoot
    \/ AddCurrent \/ AddParent \/ LoadData \/ LoadInodes

Next ==
    \/ fs_init
    \/ \E b \in {1, sb.data_blocks_block_count - 1} : WriteData(b)
    \/ \E n \in {1, v.inode_count - 1} : WriteInode(n)
    \/ SaveBitmap(DataBitmap, sb.data_blocks_block_count, data_bits)
    \/ SaveBitmap(InodeBitmap, v.inode_count, inode_bits)
    \/ Reboot

Spec == Init /\ [][Next]_vars

-----------------------------------------------------------------------------
Areas ==
    { {v.start},
      BitmapWrites(InodeBitmap, v.inode_count),
      Blocks(sb.inode_table_start, sb.inode_table_block_count),
      BitmapWrites(DataBitmap, sb.data_blocks_block_count),
      Blocks(sb.data_blocks_start, sb.data_blocks_block_count) }

(* The areas a kernel writes never meet, what bitmap_disk_init writes too  *)
(* much included, and each is there: five of them.                         *)
AreasApart ==
    /\ Cardinality(Areas) = 5
    /\ \A a, b \in Areas : a # b => a \cap b = {}

(* Once the file system was made to the end, its root stays on the disk,   *)
(* with its inode, its bits and its entries, through any restarts and      *)
(* whatever is written to files.                                           *)
RootSurvives ==
    formatted =>
        /\ disk[v.start] = Magic
        /\ FS_ROOT_DIRECTORY_INODE \in SetIn(InodeBitmap, "bits")
        /\ FS_ROOT_DIRECTORY_INODE \in SetIn(RootInode, "inodes")
        /\ 0 \in SetIn(DataBitmap, "bits")
        /\ disk[DataBlock(0)] = Entries({".", ".."})

===============================================================================

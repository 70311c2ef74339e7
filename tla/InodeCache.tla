----------------------------- MODULE InodeCache -----------------------------
(***************************************************************************)
(* The inode cache of src/os/fs/fs_inode.c, under the calls that the       *)
(* commands of the shell make through fs_directory.c, dir.c and file.c.    *)
(*                                                                         *)
(* Inodes live in a table on disk and are used through a cache that a      *)
(* clock hand goes round.  What is kept of an inode is its size, counted   *)
(* in directory entries: its block table is used only below block_count,   *)
(* which follows the size, and nothing reads its type.                     *)
(***************************************************************************)
EXTENDS Integers, FiniteSets, FiniteSetsExt

CONSTANTS
    INODES,           \* inode_max_count
    CACHE,            \* FS_INODE_CACHE_SIZE
    MaxSize           \* bound: entries in a directory

VARIABLES
    inode_cache,      \* slot -> entry
    hand,             \* inode_cache_clock_hand
    table,            \* inode number -> size, as on the disk
    inode_bitmap,     \* the inodes whose bit is set
    phase,            \* how far fs_init is, or "rmdir": inside dir_remove
    kept,             \* the pointer dir_remove holds: inode and slot
    contents,         \* history: inode number -> the size it should have
    sound             \* history: see Sound

vars == <<inode_cache, hand, table, inode_bitmap, phase, kept, contents, sound>>

(* 64 and 128 in the source.                                               *)
ASSUME CacheAssumption == INODES \in Nat \ {0} /\ CACHE \in Nat /\ CACHE > INODES
ASSUME SizeAssumption == MaxSize \in Nat \ {0, 1}

Inodes == 0 .. INODES - 1
Slots == 0 .. CACHE - 1
Entries == [index : Inodes, size : 0 .. MaxSize,
            reference : BOOLEAN, dirty : BOOLEAN, valid : BOOLEAN]

FS_ROOT_DIRECTORY_INODE == 0
NoSlot == -1
NoPointer == [inode |-> FS_ROOT_DIRECTORY_INODE, slot |-> NoSlot]

-----------------------------------------------------------------------------
(* The functions of fs_inode.c take the cache, the hand, the disk and the  *)
(* bitmap as a record s and return what they become, with the slot they    *)
(* return as s.slot.  Slot CACHE is the memory behind the array: its valid *)
(* and dirty bytes are zero in the linked kernel (they fall on the high    *)
(* bytes of small counters) and stay so.                                   *)
State == [cache |-> inode_cache, hand |-> hand, table |-> table,
          used |-> inode_bitmap, slot |-> NoSlot, sound |-> sound]

Become(s) ==
    /\ inode_cache' = s.cache /\ hand' = s.hand
    /\ table' = s.table /\ inode_bitmap' = s.used /\ sound' = s.sound

(* Mutant: an entry leaves the cache without being written back.           *)
MutFlush(s, k) == IF k = CACHE THEN s ELSE [s EXCEPT !.cache[k].dirty = FALSE]

entry_flush(s, k) ==
    IF k = CACHE \/ ~ s.cache[k].dirty THEN s
    ELSE [s EXCEPT !.table[s.cache[k].index] = s.cache[k].size,
                   !.cache[k].dirty = FALSE]

drop(s, k) ==
    IF k = CACHE THEN s ELSE [entry_flush(s, k) EXCEPT !.cache[k].valid = FALSE]

(* Mutant of entry_evict: an entry goes although it was used.              *)
MutEvict(s) ==
    IF s.hand = CACHE \/ ~ s.cache[s.hand].valid THEN s
    ELSE [drop(s, s.hand) EXCEPT !.hand = s.hand + 1, !.slot = s.hand,
                                 !.sound = s.sound /\ s.hand + 1 < CACHE]

(* One look at the entry under the hand.  The hand wraps after a referenced*)
(* entry and not after an evicted one; s.sound is lost when it leaves.     *)
entry_evict(s) ==
    IF s.hand = CACHE \/ ~ s.cache[s.hand].valid THEN s
    ELSE IF s.cache[s.hand].reference
    THEN [s EXCEPT !.cache[s.hand].reference = FALSE, !.hand = (s.hand + 1) % CACHE]
    ELSE [drop(s, s.hand) EXCEPT !.hand = s.hand + 1, !.slot = s.hand,
                                 !.sound = s.sound /\ s.hand + 1 < CACHE]

(* Mutant of take: the hand is not brought back to the first slot.         *)
MutTake(s) == [drop(s, s.hand) EXCEPT !.hand = s.hand + 1, !.slot = s.hand]

(* The entry under the hand, used or not.  Behind the end it is slot CACHE *)
(* that is dropped and the last one that is returned.                      *)
take(s) ==
    IF s.hand + 1 >= CACHE
    THEN [drop(s, s.hand) EXCEPT !.hand = s.hand + 1 - CACHE, !.slot = CACHE - 1]
    ELSE [drop(s, s.hand) EXCEPT !.hand = s.hand + 1, !.slot = s.hand]

(* CACHE looks, and then whatever is under the hand: an invalid entry, at  *)
(* which the looks do not move the hand, or one they went all round to.    *)
evict(s) ==
    LET looks[i \in 0 .. CACHE] ==
            IF i = 0 THEN [s EXCEPT !.slot = NoSlot]
            ELSE LET t == looks[i - 1]
                 IN  IF t.slot # NoSlot THEN t ELSE entry_evict(t)
    IN  IF looks[CACHE].slot # NoSlot THEN looks[CACHE] ELSE take(looks[CACHE])

(* The cache is written back and emptied, and the hand set to its start.   *)
empty(s) ==
    LET flushed[k \in 0 .. CACHE] ==
            IF k = 0 THEN s
            ELSE LET t == flushed[k - 1]
                 IN  IF t.cache[k - 1].valid THEN drop(t, k - 1) ELSE t
    IN  [flushed[CACHE] EXCEPT !.hand = 0]

cache_add(s, size, index) ==
    LET t == evict(s)
    IN  [t EXCEPT !.cache[t.slot] = [index |-> index, size |-> size, reference |-> TRUE,
                                     dirty |-> FALSE, valid |-> TRUE]]

Cached(s, index) == {k \in Slots : s.cache[k].valid /\ s.cache[k].index = index}

(* The new inode has size 0.                                               *)
create_forced(s, index) ==
    [cache_add(s, 0, index) EXCEPT !.used = @ \cup {index}]

(* Mutant of get: the table is read although the inode is in the cache.    *)
MutGet(s, index) == cache_add(s, s.table[index], index)

get(s, index) ==
    LET t == [s EXCEPT !.sound = @ /\ index \in s.used]
    IN  IF Cached(s, index) # {}
        THEN [t EXCEPT !.slot = Min(Cached(s, index)),
                       !.cache[Min(Cached(s, index))].reference = TRUE]
        ELSE cache_add(t, t.table[index], index)

(* Mutant of destroy: the cleared inode is not written.                    *)
MutDestroy(s, k) ==
    [s EXCEPT !.used = @ \ {s.cache[k].index}, !.cache[k].valid = FALSE]

(* fs_inode_destroy through a pointer to slot k, whatever is in it by now. *)
destroy(s, k) ==
    LET cleared == [s EXCEPT !.used = @ \ {s.cache[k].index}, !.cache[k].size = 0,
                             !.cache[k].reference = FALSE, !.cache[k].dirty = TRUE]
    IN  [entry_flush(cleared, k) EXCEPT !.cache[k].valid = FALSE]

(* fs_inode_set_size to one entry more, through the pointer just returned. *)
grow(s) ==
    [s EXCEPT !.cache[s.slot].size = @ + 1,
              !.cache[s.slot].reference = TRUE, !.cache[s.slot].dirty = TRUE]

(* fs_directory_entry_add where no entry of the directory is free.         *)
append(s, d) == grow(get(s, d))

Bounded(s) == \A k \in Slots : s.cache[k].size <= MaxSize

-----------------------------------------------------------------------------
(* A disk full of zeros, after fs_inode_init.                              *)
Init ==
    /\ inode_cache = [k \in Slots |-> [index |-> 0, size |-> 0, reference |-> FALSE,
                                       dirty |-> FALSE, valid |-> FALSE]]
    /\ hand = 0
    /\ table = [i \in Inodes |-> 0]
    /\ inode_bitmap = {FS_ROOT_DIRECTORY_INODE}
    /\ phase = "directory"
    /\ kept = NoPointer
    /\ contents = [i \in Inodes |-> 0]
    /\ sound = TRUE

(* The root directory with its entries for itself and its parent.          *)
fs_directory_create_root ==
    /\ phase = "directory"
    /\ phase' = "load"
    /\ Become(append(append(create_forced(State, FS_ROOT_DIRECTORY_INODE),
                            FS_ROOT_DIRECTORY_INODE), FS_ROOT_DIRECTORY_INODE))
    /\ contents' = [contents EXCEPT ![FS_ROOT_DIRECTORY_INODE] = 2]
    /\ UNCHANGED kept

(* The end of fs_init.                                                     *)
fs_inode_load ==
    /\ phase = "load"
    /\ phase' = "run"
    /\ Become(empty(State))
    /\ UNCHANGED <<kept, contents>>

(* ls, cd, out, and each part of the path of any other command: also those *)
(* that dir_remove walks while it holds its pointer, and its own readings. *)
(* A stale directory entry can name an inode that is not in use.           *)
lookup(i) ==
    /\ phase \in {"run", "rmdir"}
    /\ Become(get(State, i))
    /\ UNCHANGED <<phase, kept, contents>>

(* Entries for a new inode go into a free entry of the parent d, if an     *)
(* earlier deletion left one, or make it grow (up to the bound).           *)
enter(s, d, result) ==
    \/ /\ contents[d] > 0
       /\ Bounded(get(s, d))
       /\ Become(get(s, d))
       /\ contents' = result
    \/ /\ contents[d] < MaxSize
       /\ Bounded(append(s, d))
       /\ Become(append(s, d))
       /\ contents' = [result EXCEPT ![d] = @ + 1]

Free == Inodes \ inode_bitmap

(* touch.  With no inode free the caller goes on with what it finds at     *)
(* address zero, which is not modelled, here and in mkdir.                 *)
file_create(d) ==
    /\ phase = "run" /\ Free # {}
    /\ enter(create_forced(get(State, d), Min(Free)), d,
             [contents EXCEPT ![Min(Free)] = 0])
    /\ UNCHANGED <<phase, kept>>

(* mkdir.                                                                  *)
fs_directory_create(d) ==
    /\ phase = "run" /\ Free # {}
    /\ LET i == Min(Free)
       IN  enter(append(append(create_forced(get(State, d), i), i), i), d,
                 [contents EXCEPT ![i] = 2])
    /\ UNCHANGED <<phase, kept>>

(* rm of i, of file or directory, whose entry is in d.                     *)
file_delete(i, d) ==
    /\ phase = "run"
    /\ LET s == get(get(State, d), i) IN Become(destroy(s, s.slot))
    /\ contents' = [contents EXCEPT ![i] = 0]
    /\ UNCHANGED <<phase, kept>>

(* rmdir of i takes its pointer first.  Then every directory on the path   *)
(* to the parent is looked up, and the directory itself for each entry that*)
(* is read: any number of steps lookup, at which the cache may evict.      *)
dir_remove_open(i) ==
    /\ phase = "run"
    /\ phase' = "rmdir"
    /\ LET s == get(State, i)
       IN  Become(s) /\ kept' = [inode |-> i, slot |-> s.slot]
    /\ UNCHANGED contents

(* The name is . or .., or an entry was read that is neither.              *)
dir_remove_refuse ==
    /\ phase = "rmdir"
    /\ phase' = "run"
    /\ kept' = NoPointer
    /\ UNCHANGED <<inode_cache, hand, table, inode_bitmap, contents, sound>>

(* Nothing but . and .. is left: the directory is destroyed through the    *)
(* pointer, and its entry deleted from its parent d.                       *)
dir_remove(d) ==
    /\ phase = "rmdir"
    /\ phase' = "run"
    /\ LET s == get(State, kept.inode)
       IN  /\ s.cache[s.slot].size <= 2
           /\ Become(get(destroy(s, kept.slot), d))
    /\ contents' = [contents EXCEPT ![kept.inode] = 0]
    /\ kept' = NoPointer

Next ==
    \/ fs_directory_create_root
    \/ fs_inode_load
    \/ \E i \in Inodes : lookup(i)
    \/ \E d \in Inodes : file_create(d)
    \/ \E d \in Inodes : fs_directory_create(d)
    \/ \E i, d \in Inodes : file_delete(i, d)
    \/ \E i \in Inodes : dir_remove_open(i)
    \/ dir_remove_refuse
    \/ \E d \in Inodes : dir_remove(d)

Spec == Init /\ [][Next]_vars

-----------------------------------------------------------------------------
(* The types of the eight variables.                                       *)
TypeOK ==
    /\ inode_cache \in [Slots -> Entries]
    /\ hand \in 0 .. CACHE
    /\ table \in [Inodes -> 0 .. MaxSize]
    /\ inode_bitmap \subseteq Inodes
    /\ phase \in {"directory", "load", "run", "rmdir"}
    /\ kept \in [inode : Inodes, slot : IF phase = "rmdir" THEN Slots ELSE {NoSlot}]
    /\ contents \in [Inodes -> 0 .. MaxSize]
    /\ sound \in BOOLEAN

(* What the callers see of inode i: its copy in the cache, or the table.   *)
Seen(i) ==
    IF Cached(State, i) = {} THEN table[i] ELSE inode_cache[Min(Cached(State, i))].size

(* No change of an inode is lost, through any sequence of commands and     *)
(* evictions, and each destruction hits the inode that was asked for and   *)
(* no other: until the hand has left the cache, or an inode was looked up  *)
(* that is not in use.                                                     *)
UpdatesSurvive == sound => \A i \in Inodes : Seen(i) = contents[i]

(* While dir_remove walks the path and reads the directory, its pointer    *)
(* stays one to the inode it was taken for, however often the cache evicts.*)
PointerStaysGood ==
    sound /\ phase = "rmdir" =>
        /\ inode_cache[kept.slot].valid
        /\ inode_cache[kept.slot].index = kept.inode

(* No inode is in the cache twice, although fs_inode_create adds one       *)
(* without a search.                                                       *)
OneCopy == sound => \A i \in Inodes : Cardinality(Cached(State, i)) <= 1

(* An entry that is not dirty can be dropped.  A new inode is not dirty    *)
(* and was never written: it relies on what the destruction of its         *)
(* predecessor left in the table.                                          *)
CleanMeansOnDisk ==
    sound => \A k \in Slots : inode_cache[k].valid /\ ~ inode_cache[k].dirty
                                 => inode_cache[k].size = table[inode_cache[k].index]

=============================================================================

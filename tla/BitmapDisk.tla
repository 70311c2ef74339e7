----------------------------- MODULE BitmapDisk -----------------------------
(***************************************************************************)
(* The allocation bitmaps of the file system: src/os/lib/bitmap.c as used  *)
(* by src/os/fs/fs_data.c (data blocks); fs_inode.c uses it the same way.  *)
(*                                                                         *)
(* A bitmap is a row of blocks on disk of which one is held in memory.  A  *)
(* block is the set of its bits that are set, as offsets.  The memory copy *)
(* is written back only when another block is loaded, and on the flush of  *)
(* fs_data_load, so a reboot loses what was set or cleared since.          *)
(***************************************************************************)
EXTENDS Integers, FiniteSets, FiniteSetsExt

CONSTANTS
    BITS_PER_BYTE,
    SIZE_T,           \* how many values a size_t has: 2^64
    Shapes,           \* the sizes a bitmap is made for: [block_size, total_bits]
    MaxReboots        \* bound: how often the machine restarts

VARIABLES
    shape,            \* block_size and total_bits of the bitmap_disk_t, which never change
    disk,             \* block number -> offsets set, as on the disk
    bitmap,           \* the bitmap_disk_t: block, block_index, dirty, used_bits
    formatting,       \* fs_init is still making the file system
    reboots,
    holders           \* history: bit -> how many owners it has

vars == <<shape, disk, bitmap, formatting, reboots, holders>>

ASSUME BitmapAssumption ==
    /\ BITS_PER_BYTE \in Nat \ {0}
    /\ Shapes \subseteq [block_size : Nat \ {0}, total_bits : Nat \ {0}]
    /\ \A s \in Shapes : s.total_bits % BITS_PER_BYTE = 0
    /\ \A s \in Shapes : 2 * s.block_size * BITS_PER_BYTE + 2 * s.total_bits < SIZE_T
    /\ SIZE_T \in Nat /\ MaxReboots \in Nat

BLOCK_BYTES == shape.block_size
TOTAL_BITS == shape.total_bits      \* what is managed
BlockBits == BLOCK_BYTES * BITS_PER_BYTE
BlockCount == (TOTAL_BITS \div BITS_PER_BYTE + BLOCK_BYTES - 1) \div BLOCK_BYTES
Bits == 0 .. TOTAL_BITS - 1

Offset(bit) == bit % BlockBits
bit_to_block(bit) == bit \div BlockBits

(* The offsets of the last block that stand for no bit.                    *)
Padding == (TOTAL_BITS - (BlockCount - 1) * BlockBits) .. BlockBits - 1

-----------------------------------------------------------------------------
(* The functions of bitmap.c.  Each takes the disk and the bitmap together *)
(* as one record s, and returns what they become.                          *)
State == [disk |-> disk, bm |-> bitmap]

Less(n) == (n + SIZE_T - 1) % SIZE_T

Become(s) == disk' = s.disk /\ bitmap' = s.bm

Written(s) == IF s.bm.dirty THEN [s.disk EXCEPT ![s.bm.block_index] = s.bm.block]
              ELSE s.disk

flush(s) == [s EXCEPT !.disk = Written(s), !.bm.dirty = FALSE]

(* Mutant of load_block: what was changed in the block is not written back.*)
MutLoadBlock(s, b) ==
    [s EXCEPT !.bm.block = s.disk[b], !.bm.block_index = b, !.bm.dirty = FALSE]

load_block(s, b) ==
    IF b >= BlockCount THEN s
    ELSE [flush(s) EXCEPT !.bm.block = Written(s)[b], !.bm.block_index = b]

checked_load_block(s, bit) ==
    IF bit_to_block(bit) = s.bm.block_index THEN s
    ELSE load_block(s, bit_to_block(bit))

(* Mutants of set and unset: the counter changes and the bit does not.     *)
MutSet(s, bit) ==
    LET t == checked_load_block(s, bit)
    IN  [t EXCEPT !.bm.used_bits = @ + 1, !.bm.dirty = TRUE]

MutUnset(s, bit) ==
    IF bit \notin Bits \/ Offset(bit) \notin s.bm.block THEN s
    ELSE [checked_load_block(s, bit) EXCEPT !.bm.used_bits = Less(@), !.bm.dirty = TRUE]

(* Both look at the bit before they load its block, that is, in whatever   *)
(* block happens to be in memory.                                          *)
set(s, bit) ==
    IF bit \notin Bits \/ Offset(bit) \in s.bm.block THEN s
    ELSE LET t == checked_load_block(s, bit)
         IN  [t EXCEPT !.bm.block = @ \cup {Offset(bit)},
                       !.bm.used_bits = @ + 1, !.bm.dirty = TRUE]

unset(s, bit) ==
    IF bit \notin Bits \/ Offset(bit) \notin s.bm.block THEN s
    ELSE LET t == checked_load_block(s, bit)
         IN  [t EXCEPT !.bm.block = @ \ {Offset(bit)},
                       !.bm.used_bits = Less(@), !.bm.dirty = TRUE]

ClearBits(s) == {bit \in Bits : /\ bit_to_block(bit) = s.bm.block_index
                                /\ Offset(bit) \notin s.bm.block}

(* Mutant of find_free_bit: only the block in memory is searched.          *)
MutFindFreeBit(s) ==
    [s |-> s, bit |-> {bit \in ClearBits(s) : \A c \in ClearBits(s) : bit <= c}]

(* The search after i loads.  The first load leaves nothing to write back, *)
(* so each of the others finds the disk as the first one left it.          *)
turn(s, i) ==
    IF i = 0 THEN s ELSE load_block(s, (s.bm.block_index + i) % BlockCount)

(* The lowest clear bit of the first block that has one, from the block in *)
(* memory on and round once; as a set, empty for BITMAP_DISK_FAILURE.      *)
find_free_bit(s) ==
    LET hit == {i \in 0 .. BlockCount - 1 : ClearBits(turn(s, i)) # {}}
    IN  IF s.bm.used_bits >= TOTAL_BITS THEN [s |-> s, bit |-> {}]
        ELSE IF hit = {} THEN [s |-> turn(s, BlockCount), bit |-> {}]
        ELSE [s |-> turn(s, Min(hit)), bit |-> {Min(ClearBits(turn(s, Min(hit))))}]

(* The bits that are set on the disk, each with its block, padding too.    *)
SetOnDisk(s) == UNION {{b} \X s.disk[b] : b \in 0 .. BlockCount - 1}

(* bitmap_disk_load of a bitmap whose file system was just made (the count *)
(* of used bits is kept) or found on the disk (it is computed, padding     *)
(* included, which leaves the last block in memory).                       *)
load(s, initialized) ==
    IF initialized
    THEN [s EXCEPT !.bm.block = s.disk[0], !.bm.block_index = 0, !.bm.dirty = FALSE]
    ELSE [s EXCEPT !.bm = [block       |-> s.disk[BlockCount - 1],
                           block_index |-> BlockCount - 1,
                           dirty       |-> FALSE,
                           used_bits   |-> Cardinality(SetOnDisk(s))]]

-----------------------------------------------------------------------------
(* fs_data_init on a disk without a file system: bitmap_disk_init clears   *)
(* every bit and sets the padding.                                         *)
Init ==
    /\ shape \in Shapes
    /\ disk = [b \in 0 .. BlockCount - 1 |-> IF b = BlockCount - 1 THEN Padding ELSE {}]
    /\ bitmap = [block |-> disk[0], block_index |-> 0, dirty |-> FALSE, used_bits |-> 0]
    /\ formatting = TRUE
    /\ reboots = 0
    /\ holders = [bit \in Bits |-> 0]

(* fs_data_alloc_block.  The search may load blocks even when it fails.    *)
fs_data_alloc_block ==
    LET found == find_free_bit(State)
    IN  /\ IF found.bit = {}
           THEN Become(found.s) /\ UNCHANGED holders
           ELSE \E bit \in found.bit :
                   /\ Become(set(found.s, bit))
                   /\ holders' = [holders EXCEPT ![bit] = @ + 1]
        /\ UNCHANGED <<shape, formatting, reboots>>

(* fs_data_free_block of a block its caller holds.  Making the file system *)
(* allocates and does not free.                                            *)
fs_data_free_block(bit) ==
    /\ ~ formatting
    /\ holders[bit] > 0
    /\ Become(unset(State, bit))
    /\ holders' = [holders EXCEPT ![bit] = @ - 1]
    /\ UNCHANGED <<shape, formatting, reboots>>

(* fs_data_load at the end of the fs_init that made the file system.  It   *)
(* is the last flush: nothing writes the loaded block after it but the     *)
(* loading of another.                                                     *)
fs_data_load ==
    /\ formatting
    /\ Become(load(flush(State), TRUE))
    /\ formatting' = FALSE
    /\ UNCHANGED <<shape, reboots, holders>>

(* The machine stops, at any moment, and boots: fs_init finds the file     *)
(* system and calls fs_data_load(false).  The inodes that reached the disk *)
(* still point at any part of the blocks that were held.                   *)
Reboot ==
    /\ reboots < MaxReboots
    /\ reboots' = reboots + 1
    /\ Become(load(State, FALSE))
    /\ formatting' = FALSE
    /\ UNCHANGED shape
    /\ \E kept \in SUBSET Bits :
          holders' = [bit \in Bits |-> IF bit \in kept THEN holders[bit] ELSE 0]

Next ==
    \/ fs_data_alloc_block
    \/ \E bit \in Bits : fs_data_free_block(bit)
    \/ fs_data_load
    \/ Reboot

Spec == Init /\ [][Next]_vars

-----------------------------------------------------------------------------
(* The bits that are set, wherever the newest copy of their block is.      *)
SetBits == {bit \in Bits : Offset(bit) \in Written(State)[bit_to_block(bit)]}
Held == {bit \in Bits : holders[bit] > 0}

(* Where the padding is no smaller than what is managed, as in the file    *)
(* system the kernel makes, a bitmap that was loaded from the disk is full.*)
FullAfterReboot == Cardinality(Padding) >= TOTAL_BITS

(* No block of data belongs to two files, whichever bitmap block was in    *)
(* memory when it was given out.  In a bitmap that is mostly padding not   *)
(* even after a crash that lost the bits: nothing is allocated then.       *)
SingleOwner ==
    reboots = 0 \/ FullAfterReboot => \A bit \in Bits : holders[bit] <= 1

(* A held block has its bit set, however the blocks of the bitmap were     *)
(* swapped in and out of memory, until a reboot loses the memory copy.     *)
HeldBitsAreSet == reboots = 0 => Held \subseteq SetBits

(* The counter that decides whether the disk is full follows the bits; the *)
(* padding is in it after a reboot and not before.  (A bit that a reboot   *)
(* lost can be counted twice when it is given back, if there are several   *)
(* blocks and another one is in memory.)                                   *)
CountFollowsBits ==
    reboots = 0 \/ BlockCount = 1 =>
    bitmap.used_bits =
        Cardinality(SetBits) + (IF reboots = 0 THEN 0 ELSE Cardinality(Padding))

(* Before the first reboot an allocation fails only when every bit is set, *)
(* whatever block is in memory and whichever one has the free bit.         *)
FailsOnlyWhenFull ==
    reboots = 0 /\ find_free_bit(State).bit = {} => SetBits = Bits

(* With a bitmap of one block nothing is lost: a block that was given back *)
(* can be given out again.  (With several, unset looks for the bit in the  *)
(* block in memory, and the bit may stay set for good.)                    *)
NothingLeaks == reboots = 0 /\ BlockCount = 1 => SetBits \subseteq Held

=============================================================================

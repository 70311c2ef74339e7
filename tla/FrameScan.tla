------------------------------ MODULE FrameScan ------------------------------
(***************************************************************************)
(* The fixed part of src/os/mm/pmm.c: which frames the BIOS memory map     *)
(* makes usable, what pmm_init leaves in the bitmap and the counter, and   *)
(* which frame the two scans pick.  The bitmap is the set of frames whose  *)
(* bit is set.                                                             *)
(***************************************************************************)
EXTENDS Integers, FiniteSets, FiniteSetsExt

CONSTANTS
    BLOCK_SIZE,       \* PMM_BLOCK_SIZE, bytes in a frame
    PMM_BLOCKS_PER_BYTE,    \* PMM_BLOCKS_PER_BYTE
    BITS_PER_WORD,    \* bits of an unsigned int of the bitmap
    LOW_WORDS,        \* PMM_LOW_BLOCK_COUNT, words scanned in init mode
    RESERVED,         \* frames marked used unconditionally (2560 in the code)
    ENTRIES,          \* the E820 map: a sequence of [base, length, usable]
    FRAMES            \* every frame an entry or the bitmap speaks of

-----------------------------------------------------------------------------
NULL == 0        \* the address 0, which is also that of frame 0

Usable == {i \in DOMAIN ENTRIES : ENTRIES[i].usable}      \* type 1
MemorySize == MapThenSumSet(LAMBDA i : ENTRIES[i].length, Usable)
MaxBlocks == MemorySize \div BLOCK_SIZE

(* The frames pmm_init_region clears for an entry: base and length are     *)
(* both rounded down, so a part frame at the end is dropped.               *)
Blocks(e) == e.length \div BLOCK_SIZE
Region(e) == (e.base \div BLOCK_SIZE) .. ((e.base \div BLOCK_SIZE) + Blocks(e) - 1)

Ram == UNION {Region(ENTRIES[i]) : i \in Usable}
Kernel == 0 .. (RESERVED - 1)

(* memset(pmm_memory_map, 0xF, ...) sets the low half of each byte only.   *)
Cleared == PMM_BLOCKS_PER_BYTE * (MaxBlocks \div PMM_BLOCKS_PER_BYTE)
MemsetBits == {f \in 0 .. (Cleared - 1) : 2 * (f % PMM_BLOCKS_PER_BYTE) < PMM_BLOCKS_PER_BYTE}

(* Bits past the memset keep what that memory held before the kernel ran.  *)
Uninitialised == {f \in FRAMES : f >= Cleared}

(* The frames each of the two scans looks at.                              *)
Scanned(low) ==
    0 .. ((IF low THEN LOW_WORDS ELSE MaxBlocks \div BITS_PER_WORD) * BITS_PER_WORD - 1)

ClearFrames(map, low) == {f \in Scanned(low) : f \notin map}

Lowest(frames) == {f \in frames : \A g \in frames : f <= g}

(* Mutant of FindFree: the scan stops one word short.                      *)
MutFindFreeShort(map, low) ==
    Lowest({f \in ClearFrames(map, low) : f < MaxBlocks - BITS_PER_WORD})

(* The lowest clear bit, as a set: empty where the code returns -1.        *)
FindFree(map, low) == Lowest(ClearFrames(map, low))

(* The frame pmm_alloc_block returns, as a set: empty where it returns     *)
(* NULL.  The counter test is an unsigned subtraction compared with <= 0,  *)
(* true only at equality.  (Frame 0 looks like NULL to the caller; it is   *)
(* reserved, and clear only if somebody gives NULL back.)                  *)
AllocFrame(map, used, low) ==
    {f \in FindFree(map, low) : MaxBlocks # used}

(* pmm_used_blocks after pmm_init: pmm_init_region subtracts every block   *)
(* of every usable entry, the last loop adds the reserved ones.            *)
UsedAfterInit ==
    MaxBlocks - MapThenSumSet(LAMBDA i : Blocks(ENTRIES[i]), Usable) + RESERVED

(* The memory map is one the kernel is built for: every frame a scan looks *)
(* at is RAM, or one of the reserved low frames.  The memset leaves half   *)
(* of the bits of a hole clear, so without this a hole would be handed out.*)
ASSUME HolesAssumption ==
    \A low \in BOOLEAN : Scanned(low) \subseteq (Ram \cup Kernel) \cap FRAMES

(* The address of a frame is computed as an int (pmm_alloc_block), and the *)
(* sizes of memory are unsigned ints: nothing is claimed of a machine with *)
(* 2 GiB or more.                                                          *)
ASSUME AddressAssumption == MemorySize <= 2147483647

ASSUME SizesAssumption ==
    /\ BLOCK_SIZE \in Nat \ {0}
    /\ PMM_BLOCKS_PER_BYTE \in Nat \ {0}
    /\ BITS_PER_WORD \in Nat \ {0}
    /\ LOW_WORDS \in Nat
    /\ RESERVED \in Nat \ {0}
    /\ FRAMES \subseteq Nat /\ IsFiniteSet(FRAMES)
    /\ Ram \cup Kernel \cup 0 .. (Cleared - 1) \subseteq FRAMES
    /\ UsedAfterInit \in Nat

=============================================================================

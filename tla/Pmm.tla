-------------------------------- MODULE Pmm --------------------------------
(***************************************************************************)
(* The physical memory manager, src/os/mm/pmm.c, as a state machine: the   *)
(* bitmap of frames, the counter of used frames, and the calls that change *)
(* them.  Two history variables tell callers apart: how many times each    *)
(* frame was handed out and not given back by who got it, and the frames   *)
(* that somebody gave back who did not have them.                          *)
(***************************************************************************)
EXTENDS FrameScan, Sequences

CONSTANT
    MAX_STRAYS        \* bound: calls that give back a frame the caller has not

VARIABLES
    memory_map,       \* frames whose bit is set
    used_blocks,      \* pmm_used_blocks
    init_mode,        \* pmm_init_mode
    outstanding,      \* history: frame -> times handed out and not given back
    stray             \* history: the frames given back by others, in turn

pmm_vars == <<memory_map, used_blocks, init_mode, outstanding, stray>>

(* The machine has the memory the kernel takes for granted: the frames it  *)
(* reserves and those of the scan in init mode (10 and 16 MiB).  Rounding  *)
(* the entries of the memory map down loses less than a frame each, and    *)
(* there are fewer of them than bits in a word of the bitmap.              *)
ASSUME CapacityAssumption ==
    /\ MaxBlocks \in Nat
    /\ RESERVED <= MaxBlocks /\ LOW_WORDS * BITS_PER_WORD <= MaxBlocks
    /\ UsedAfterInit - RESERVED < BITS_PER_WORD
    /\ MAX_STRAYS \in Nat

-----------------------------------------------------------------------------
(* Mutant: only frame 0 is set after the regions are cleared.              *)
MutInit ==
    /\ \E junk \in SUBSET Uninitialised :
          memory_map = ((MemsetBits \cup junk) \ Ram) \cup {NULL}
    /\ used_blocks = UsedAfterInit
    /\ init_mode = TRUE
    /\ outstanding = [f \in FRAMES |-> 0]
    /\ stray = <<>>

(* The state pmm_init leaves: memset, one clear per usable frame, then the *)
(* reserved frames set and counted whether or not they were clear.         *)
PmmInit ==
    /\ \E junk \in SUBSET Uninitialised :
          memory_map = ((MemsetBits \cup junk) \ Ram) \cup Kernel
    /\ used_blocks = UsedAfterInit
    /\ init_mode = TRUE
    /\ outstanding = [f \in FRAMES |-> 0]
    /\ stray = <<>>

(* Mutant: the bit of the frame handed out is not set.                     *)
MutAllocBlock ==
    \E f \in AllocFrame(memory_map, used_blocks, init_mode) :
        /\ used_blocks' = used_blocks + 1
        /\ outstanding' = [outstanding EXCEPT ![f] = @ + 1]
        /\ UNCHANGED <<memory_map, init_mode, stray>>

(* pmm_alloc_block; a failing call changes nothing.                        *)
AllocBlock ==
    \E f \in AllocFrame(memory_map, used_blocks, init_mode) :
        /\ memory_map' = memory_map \cup {f}
        /\ used_blocks' = used_blocks + 1
        /\ outstanding' = [outstanding EXCEPT ![f] = @ + 1]
        /\ UNCHANGED <<init_mode, stray>>

(* The two kinds of callers of pmm_free_block: one that gives back a frame *)
(* it was given, and one that gives back a frame it has not, or no longer, *)
(* whether or not somebody else was given it meanwhile.                    *)
GivesBackItsOwn(f) ==
    /\ outstanding[f] > 0
    /\ outstanding' = [outstanding EXCEPT ![f] = @ - 1]
    /\ UNCHANGED stray

GivesBackAnothers(f) ==
    /\ Len(stray) < MAX_STRAYS
    /\ stray' = Append(stray, f)
    /\ UNCHANGED outstanding

(* Mutant: the counter is not decremented.                                 *)
MutFreeBlock(f) ==
    /\ used_blocks > 0
    /\ memory_map' = memory_map \ {f}
    /\ GivesBackItsOwn(f) \/ GivesBackAnothers(f)
    /\ UNCHANGED <<init_mode, used_blocks>>

(* pmm_free_block, which takes any address and tests nothing: neither that *)
(* the frame is in use nor that it is one to hand out.  The bound on the   *)
(* counter keeps it from wrapping below zero.                              *)
FreeBlock(f) ==
    /\ used_blocks > 0
    /\ memory_map' = memory_map \ {f}
    /\ used_blocks' = used_blocks - 1
    /\ GivesBackItsOwn(f) \/ GivesBackAnothers(f)
    /\ UNCHANGED init_mode

(* vmm_init ends the phase in which only low frames are handed out.        *)
EndInitMode ==
    /\ init_mode
    /\ init_mode' = FALSE
    /\ UNCHANGED <<memory_map, used_blocks, outstanding, stray>>

PmmNext ==
    \/ AllocBlock
    \/ \E f \in FRAMES : FreeBlock(f)
    \/ EndInitMode

PmmSpec == PmmInit /\ [][PmmNext]_pmm_vars

-----------------------------------------------------------------------------
HeldFrames == {f \in FRAMES : outstanding[f] > 0}
Strayed == {stray[i] : i \in DOMAIN stray}

(* The types of the variables.                                             *)
PmmTypes ==
    /\ memory_map \subseteq FRAMES
    /\ used_blocks \in Nat
    /\ init_mode \in BOOLEAN
    /\ outstanding \in [FRAMES -> Nat]
    /\ stray \in Seq(FRAMES)

(* pmm_alloc_block never hands out a frame somebody still holds, whatever  *)
(* mix of allocations and frees came before.  The second free of a frame,  *)
(* which pmm_free_block lets through, endangers that frame and no other.   *)
SingleFrameOwner == \A f \in FRAMES \ Strayed : outstanding[f] <= 1

(* The frames that hold the kernel and its bitmap, and the holes of the    *)
(* memory map that the memset leaves half clear, are never handed out,     *)
(* unless somebody gives just that frame back.                             *)
RamOnly == HeldFrames \subseteq (Ram \ Kernel) \cup Strayed

(* The counter, the bitmap and the callers agree about what is allocated.  *)
(* pmm_init counts reserved frames twice over when they were not RAM; the  *)
(* difference must not grow as frames are allocated and freed.  A frame    *)
(* given back by who had it not puts its own bit wrong, and the counter.   *)
BookkeepingAgrees ==
    /\ (memory_map \cap (Ram \ Kernel)) \ Strayed = HeldFrames \ Strayed
    /\ stray = <<>> => used_blocks = UsedAfterInit + Cardinality(HeldFrames)

(* What pmm_alloc_block would return, as callers see it, is failure.       *)
AllocFails == AllocFrame(memory_map, used_blocks, init_mode) \subseteq {NULL}

(* pmm_alloc_block fails only when memory is really gone: fewer than one   *)
(* bitmap word of the frames it counts are free.  (The scan stops at the   *)
(* last whole word, so a part word at the end is never handed out.)  No    *)
(* mix of right and wrong frees makes it fail earlier, except that NULL    *)
(* given back is what the next call returns.                               *)
NoSpuriousFailure ==
    LET limit == IF init_mode THEN LOW_WORDS * BITS_PER_WORD ELSE MaxBlocks
    IN  AllocFails /\ NULL \notin Strayed =>
          Cardinality({f \in Ram : f < limit /\ f \notin memory_map}) < BITS_PER_WORD

=============================================================================

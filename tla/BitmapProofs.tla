---------------------------- MODULE BitmapProofs -----------------------------
(***************************************************************************)
(* Proofs about the two bitmaps that say what is in use: the frames of     *)
(* memory, for every memory map that satisfies the assumptions of Pmm, and *)
(* the bitmaps on the disk, of any size and number of blocks and for any   *)
(* number of reboots.                                                      *)
(***************************************************************************)
EXTENDS Pmm, BitmapDisk, FiniteSetTheorems, WellFoundedInduction, TLAPS

-----------------------------------------------------------------------------
(* Division with remainder, in the forms the provers can use.              *)
LEMMA Quotient ==
    ASSUME NEW n \in Nat, NEW d \in Nat \ {0}
    PROVE  n = d * (n \div d) + (n % d)
  OBVIOUS

LEMMA Remainder ==
    ASSUME NEW n \in Nat, NEW d \in Nat \ {0}
    PROVE  n % d \in 0 .. d - 1
  OBVIOUS

LEMMA QuotientNat ==
    ASSUME NEW n \in Nat, NEW d \in Nat \ {0}
    PROVE  n \div d \in Nat
<1> DEFINE q == n \div d
           r == n % d
<1>1. n = d * q + r
  BY Quotient
<1>2. r \in 0 .. d - 1
  BY Remainder
<1>3. q \in Int
  OBVIOUS
<1> HIDE DEF q, r
<1>4. q < 0 => d * q <= - d
  BY <1>3
<1>5. q \in Nat
  BY <1>1, <1>2, <1>3, <1>4
<1> QED BY <1>5 DEF q

(* A number below m times d has a quotient below m.                        *)
LEMMA QuotientBelow ==
    ASSUME NEW n \in Nat, NEW d \in Nat \ {0}, NEW m \in Nat, n < m * d
    PROVE  n \div d < m
<1> DEFINE q == n \div d
           r == n % d
<1>1. n = d * q + r
  BY Quotient
<1>2. r \in 0 .. d - 1
  BY Remainder
<1>3. q \in Nat
  BY QuotientNat
<1> HIDE DEF q, r
<1>4. CASE q >= m
  <2>1. PICK k \in Nat : q = m + k
    <3>1. q - m \in Nat /\ q = m + (q - m)
      BY <1>3, <1>4
    <3> QED BY <3>1
  <2>2. d * q = m * d + d * k /\ d * k \in Nat /\ m * d \in Nat /\ d * q \in Nat
    BY <2>1
  <2> QED BY <1>1, <1>2, <2>2
<1>5. CASE ~ (q >= m)
  BY <1>3, <1>5 DEF q
<1> QED BY <1>4, <1>5

(* A set of natural numbers has a least element: what replaces induction.  *)
LEMMA LeastElement ==
    ASSUME NEW T, T \subseteq Nat, T # {}
    PROVE  \E x \in T : \A y \in T : x <= y
<1> DEFINE R == OpToRel(<, Nat)
<1>1. IsWellFoundedOn(R, Nat)
  BY NatLessThanWellFounded
<1>2. \A x, y \in Nat : x < y => <<x, y>> \in R
  BY DEF OpToRel
<1> HIDE DEF R
<1>3. PICK x \in T : \A y \in T : ~ (<<y, x>> \in R)
  BY <1>1, WFMin
<1>4. ASSUME NEW y \in T PROVE x <= y
  <2>1. x \in Nat /\ y \in Nat
    OBVIOUS
  <2>2. ~ (y < x)
    BY <1>2, <1>3, <2>1
  <2> QED BY <2>1, <2>2
<1> QED BY <1>4

LEMMA MinIsIn ==
    ASSUME NEW T, T \subseteq Nat, T # {}
    PROVE  Min(T) \in T
<1>1. \E x \in T : \A y \in T : x <= y
  BY LeastElement
<1> QED BY <1>1 DEF Min

-----------------------------------------------------------------------------
(***************************************************************************)
(* The frames of memory.                                                   *)
(***************************************************************************)

(* The inductive invariant.  SingleFrameOwner alone is not inductive: a    *)
(* clear bit means a frame nobody holds is what BookkeepingAgrees says,    *)
(* and it in turn needs the reserved bits never to become clear, but for   *)
(* the frames that were given back by somebody who had not got them.       *)
KernelMarked == Kernel \ Strayed \subseteq memory_map

(* The bits that are set in the RAM and the reserved frames; no scan goes  *)
(* past the frames that are counted.                                       *)
Marked == memory_map \cap (Ram \cup Kernel)
MarkedBelowTop == Marked \subseteq 0 .. MaxBlocks - 1

(* The counter may fall behind the bits, by a frame that is given back     *)
(* twice, but never runs ahead of them.                                    *)
CounterIsNotAhead == used_blocks <= UsedAfterInit - RESERVED + Cardinality(Marked)

PmmIInv ==
    /\ PmmTypes
    /\ KernelMarked
    /\ SingleFrameOwner
    /\ RamOnly
    /\ MarkedBelowTop
    /\ CounterIsNotAhead
    /\ BookkeepingAgrees

(* Rounding down to a multiple.                                            *)
LEMMA RoundedDown ==
    ASSUME NEW n \in Nat, NEW d \in Nat \ {0}
    PROVE  /\ (n \div d) * d \in Nat
           /\ (n \div d) * d <= n
           /\ n < (n \div d) * d + d
<1> DEFINE q == n \div d
           r == n % d
<1>1. n = d * q + r
  BY Quotient
<1>2. r \in 0 .. d - 1
  BY Remainder
<1>3. q \in Int
  OBVIOUS
<1> HIDE DEF q, r
<1>4. q < 0 => d * q <= - d
  BY <1>3
<1>5. q \in Nat
  BY <1>1, <1>2, <1>3, <1>4
<1>6. q * d \in Nat /\ q * d = d * q
  BY <1>5
<1>7. q * d <= n /\ n < q * d + d
  BY <1>1, <1>2, <1>5, <1>6
<1> QED BY <1>6, <1>7 DEF q

(* What a scan looks at is below what is counted: words times their bits,  *)
(* rounded down by less than a word.                                       *)
LEMMA ScannedBelowTop ==
    LET words == MaxBlocks \div BITS_PER_WORD
    IN  /\ words * BITS_PER_WORD \in Nat
        /\ words * BITS_PER_WORD <= MaxBlocks
        /\ MaxBlocks < words * BITS_PER_WORD + BITS_PER_WORD
        /\ \A low \in BOOLEAN : Scanned(low) \subseteq 0 .. MaxBlocks - 1
<1> DEFINE last == (MaxBlocks \div BITS_PER_WORD) * BITS_PER_WORD
           lowlast == LOW_WORDS * BITS_PER_WORD
           top == MaxBlocks
<1>1. /\ BITS_PER_WORD \in Nat \ {0} /\ top \in Nat /\ LOW_WORDS \in Nat
      /\ lowlast <= top
  BY SizesAssumption, CapacityAssumption
<1>2. last \in Nat /\ last <= top /\ top < last + BITS_PER_WORD
  BY <1>1, RoundedDown
<1>3. lowlast \in Nat
  BY <1>1
<1>4. Scanned(TRUE) = 0 .. lowlast - 1 /\ Scanned(FALSE) = 0 .. last - 1
  BY DEF Scanned
<1> HIDE DEF last, lowlast, top
<1>5. 0 .. lowlast - 1 \subseteq 0 .. top - 1 /\ 0 .. last - 1 \subseteq 0 .. top - 1
  BY <1>1, <1>2, <1>3
<1> QED BY <1>2, <1>4, <1>5 DEF last, top

(* The frame pmm_alloc_block picks is a frame a scan looks at and its bit  *)
(* is clear; the scans look at RAM and at the reserved frames.             *)
LEMMA AllocFrameIsFree ==
    ASSUME NEW map, NEW used, NEW low \in BOOLEAN, NEW f \in AllocFrame(map, used, low)
    PROVE  f \in FRAMES /\ f \in Ram \cup Kernel /\ f \notin map /\ f \in 0 .. MaxBlocks - 1
<1>1. f \in Scanned(low) /\ f \notin map
  BY DEF AllocFrame, FindFree, Lowest, ClearFrames
<1>2. f \in 0 .. MaxBlocks - 1
  BY <1>1, ScannedBelowTop
<1> QED BY <1>1, <1>2, HolesAssumption

(* The reserved frames are as many as their number says.                   *)
LEMMA KernelSize == IsFiniteSet(Kernel) /\ Cardinality(Kernel) = RESERVED
<1>1. RESERVED \in Nat \ {0}
  BY SizesAssumption
<1>2. 0 \in Int /\ RESERVED - 1 \in Int
  BY <1>1
<1>3. /\ IsFiniteSet(0 .. RESERVED - 1)
      /\ Cardinality(0 .. RESERVED - 1) = IF 0 > RESERVED - 1 THEN 0 ELSE RESERVED - 1 - 0 + 1
  BY <1>2, FS_Interval
<1> QED BY <1>1, <1>3 DEF Kernel

(* There are finitely many frames, so finitely many are held or marked.    *)
LEMMA HeldFinite ==
    /\ IsFiniteSet(HeldFrames) /\ Cardinality(HeldFrames) \in Nat
    /\ PmmTypes => IsFiniteSet(Marked) /\ Cardinality(Marked) \in Nat
<1>1. IsFiniteSet(HeldFrames)
  BY SizesAssumption, FS_Subset DEF HeldFrames
<1>2. PmmTypes => IsFiniteSet(Marked)
  BY SizesAssumption, FS_Subset DEF Marked, PmmTypes
<1> QED BY <1>1, <1>2, FS_CardinalityType

(***************************************************************************)
(* The state pmm_init leaves satisfies the invariant: nothing is held, and *)
(* the RAM above the reserved frames is clear.                             *)
(***************************************************************************)
LEMMA PmmInitIInv == PmmInit => PmmIInv
<1> SUFFICES ASSUME PmmInit PROVE PmmIInv
  OBVIOUS
<1> USE DEF PmmInit
<1>1. PICK junk \in SUBSET Uninitialised :
         memory_map = ((MemsetBits \cup junk) \ Ram) \cup Kernel
  OBVIOUS
<1>2. HeldFrames = {}
  BY DEF HeldFrames
<1>3. PmmTypes
  <2>1. MemsetBits \subseteq FRAMES
    BY SizesAssumption DEF MemsetBits
  <2>2. memory_map \subseteq FRAMES
    BY <1>1, <2>1, SizesAssumption DEF Uninitialised
  <2> QED BY <2>2, SizesAssumption DEF PmmTypes
<1>4. KernelMarked
  BY <1>1 DEF KernelMarked
<1>5. SingleFrameOwner /\ RamOnly
  BY <1>2 DEF SingleFrameOwner, RamOnly
<1>6. BookkeepingAgrees
  BY <1>1, <1>2, FS_EmptySet, SizesAssumption DEF BookkeepingAgrees
<1>7. Marked = Kernel
  BY <1>1 DEF Marked
<1>8. MarkedBelowTop
  BY <1>7, SizesAssumption, CapacityAssumption DEF MarkedBelowTop, Kernel
<1>9. CounterIsNotAhead
  BY <1>7, KernelSize, SizesAssumption DEF CounterIsNotAhead
<1> QED BY <1>3, <1>4, <1>5, <1>6, <1>8, <1>9 DEF PmmIInv

(* pmm_alloc_block keeps the invariant: its frame was clear, so unheld.    *)
LEMMA AllocPreserves == PmmIInv /\ AllocBlock => PmmIInv'
<1> SUFFICES ASSUME PmmIInv, AllocBlock PROVE PmmIInv'
  OBVIOUS
<1> USE DEF PmmIInv
<1>1. PICK f \in AllocFrame(memory_map, used_blocks, init_mode) :
         /\ memory_map' = memory_map \cup {f}
         /\ used_blocks' = used_blocks + 1
         /\ outstanding' = [outstanding EXCEPT ![f] = @ + 1]
         /\ UNCHANGED <<init_mode, stray>>
  BY DEF AllocBlock
<1>2. f \in FRAMES /\ f \in Ram \cup Kernel /\ f \notin memory_map /\ f \in 0 .. MaxBlocks - 1
  BY AllocFrameIsFree DEF PmmTypes
<1>3. PmmTypes'
  BY <1>1, <1>2 DEF PmmTypes
<1>0. Strayed' = Strayed
  BY <1>1 DEF Strayed
<1>4. KernelMarked'
  BY <1>0, <1>1 DEF KernelMarked
<1>5. f \notin Strayed => f \in Ram \ Kernel /\ outstanding[f] = 0
  BY <1>2 DEF BookkeepingAgrees, HeldFrames, PmmTypes, KernelMarked
<1>6. SingleFrameOwner'
  BY <1>0, <1>1, <1>2, <1>5 DEF SingleFrameOwner, PmmTypes
<1>7. HeldFrames' = HeldFrames \cup {f}
  BY <1>1, <1>2 DEF HeldFrames, PmmTypes
<1>8. RamOnly'
  BY <1>0, <1>5, <1>7 DEF RamOnly
<1>9. Marked' = Marked \cup {f} /\ f \notin Marked
  BY <1>1, <1>2 DEF Marked
<1>10. MarkedBelowTop'
  BY <1>2, <1>9 DEF MarkedBelowTop
<1>11. CounterIsNotAhead'
  <2>1. Cardinality(Marked') = Cardinality(Marked) + 1 /\ Cardinality(Marked) \in Nat
    BY <1>9, HeldFinite, FS_AddElement
  <2> QED BY <1>1, <2>1, SizesAssumption DEF CounterIsNotAhead, PmmTypes
<1>12. BookkeepingAgrees'
  <2>1. ((memory_map \cap (Ram \ Kernel)) \ Strayed)' = HeldFrames' \ Strayed'
    BY <1>0, <1>1, <1>2, <1>5, <1>7 DEF BookkeepingAgrees
  <2>2. ASSUME stray' = <<>> PROVE used_blocks' = UsedAfterInit + Cardinality(HeldFrames')
    <3>1. stray = <<>> /\ Strayed = {}
      BY <1>1, <2>2 DEF Strayed
    <3>2. f \notin HeldFrames
      BY <1>5, <3>1 DEF HeldFrames
    <3>3. Cardinality(HeldFrames') = Cardinality(HeldFrames) + 1 /\ Cardinality(HeldFrames) \in Nat
      BY <1>7, <3>2, HeldFinite, FS_AddElement
    <3> QED BY <1>1, <3>1, <3>3, SizesAssumption DEF BookkeepingAgrees
  <2> QED BY <2>1, <2>2 DEF BookkeepingAgrees
<1> QED BY <1>3, <1>4, <1>6, <1>8, <1>10, <1>11, <1>12

(* pmm_free_block keeps the counter from running ahead: it takes away one  *)
(* mark at the most.                                                       *)
LEMMA FreeKeepsCounter ==
    ASSUME NEW f \in FRAMES, PmmTypes, MarkedBelowTop, CounterIsNotAhead,
           memory_map' = memory_map \ {f}, used_blocks' = used_blocks - 1
    PROVE  MarkedBelowTop' /\ CounterIsNotAhead'
<1>1. Marked' = Marked \ {f}
  BY DEF Marked
<1>2. MarkedBelowTop'
  BY <1>1 DEF MarkedBelowTop
<1>3. IsFiniteSet(Marked) /\ Cardinality(Marked) \in Nat
  BY HeldFinite
<1>4. Cardinality(Marked') >= Cardinality(Marked) - 1 /\ Cardinality(Marked') \in Nat
  <2>1. CASE f \in Marked
    <3>1. /\ IsFiniteSet(Marked \ {f})
          /\ Cardinality(Marked \ {f}) = Cardinality(Marked) - 1
      BY <1>3, <2>1, FS_RemoveElement
    <3>2. Cardinality(Marked \ {f}) \in Nat
      BY <3>1, FS_CardinalityType
    <3> QED BY <1>1, <1>3, <3>1, <3>2
  <2>2. CASE f \notin Marked
    <3>1. Marked' = Marked
      BY <1>1, <2>2
    <3>2. Cardinality(Marked') = Cardinality(Marked)
      BY <3>1
    <3> QED BY <1>3, <3>2
  <2> QED BY <2>1, <2>2
<1>5. CounterIsNotAhead'
  BY <1>3, <1>4, SizesAssumption DEF CounterIsNotAhead, PmmTypes
<1> QED BY <1>2, <1>5

(* pmm_free_block keeps the invariant.  From a caller that had the frame:  *)
(* it has one holder, and is above the reserved frames.  From another: it  *)
(* is one more frame of which nothing is claimed.                          *)
LEMMA FreePreserves ==
    ASSUME NEW f \in FRAMES, PmmIInv, FreeBlock(f)
    PROVE  PmmIInv'
<1> USE DEF PmmIInv
<1>1. /\ used_blocks > 0
      /\ memory_map' = memory_map \ {f}
      /\ used_blocks' = used_blocks - 1
      /\ init_mode' = init_mode
  BY DEF FreeBlock
<1>2. MarkedBelowTop' /\ CounterIsNotAhead'
  BY <1>1, FreeKeepsCounter
<1>3. CASE GivesBackItsOwn(f)
  <2>1. /\ outstanding[f] > 0
        /\ outstanding' = [outstanding EXCEPT ![f] = @ - 1]
        /\ stray' = stray /\ Strayed' = Strayed
    BY <1>3 DEF GivesBackItsOwn, Strayed
  <2>2. PmmTypes'
    BY <1>1, <2>1 DEF PmmTypes
  <2>3. f \notin Strayed => outstanding[f] = 1 /\ f \in HeldFrames /\ f \in Ram \ Kernel
    BY <2>1 DEF SingleFrameOwner, PmmTypes, HeldFrames, RamOnly
  <2>4. KernelMarked'
    BY <1>1, <2>1, <2>3 DEF KernelMarked
  <2>5. SingleFrameOwner'
    BY <2>1, <2>3 DEF SingleFrameOwner, PmmTypes
  <2>6. /\ HeldFrames' \subseteq HeldFrames
        /\ HeldFrames \ {f} \subseteq HeldFrames'
        /\ f \notin Strayed => HeldFrames' = HeldFrames \ {f}
    BY <2>1, <2>3 DEF HeldFrames, PmmTypes
  <2>7. RamOnly'
    BY <2>1, <2>6 DEF RamOnly
  <2>8. ((memory_map \cap (Ram \ Kernel)) \ Strayed)' = HeldFrames' \ Strayed'
    BY <1>1, <2>1, <2>6 DEF BookkeepingAgrees
  <2>9. ASSUME stray' = <<>> PROVE used_blocks' = UsedAfterInit + Cardinality(HeldFrames')
    <3>1. stray = <<>> /\ Strayed = {}
      BY <2>1, <2>9 DEF Strayed
    <3>2. /\ Cardinality(HeldFrames') = Cardinality(HeldFrames) - 1
          /\ Cardinality(HeldFrames) \in Nat
      BY <2>3, <2>6, <3>1, HeldFinite, FS_RemoveElement
    <3> QED BY <1>1, <3>1, <3>2, SizesAssumption DEF BookkeepingAgrees
  <2> QED BY <1>2, <2>2, <2>4, <2>5, <2>7, <2>8, <2>9 DEF BookkeepingAgrees
<1>4. CASE GivesBackAnothers(f)
  <2>1. stray' = Append(stray, f) /\ outstanding' = outstanding
    BY <1>4 DEF GivesBackAnothers
  <2>2. stray \in Seq(FRAMES)
    BY DEF PmmTypes
  <2>3. /\ stray' \in Seq(FRAMES) /\ stray' # <<>>
        /\ Strayed' = Strayed \cup {f}
    BY <2>1, <2>2 DEF Strayed
  <2>4. HeldFrames' = HeldFrames
    BY <2>1 DEF HeldFrames
  <2>5. PmmTypes'
    BY <1>1, <2>1, <2>3 DEF PmmTypes
  <2>6. KernelMarked' /\ SingleFrameOwner' /\ RamOnly'
    BY <1>1, <2>1, <2>3, <2>4 DEF KernelMarked, SingleFrameOwner, RamOnly
  <2>7. BookkeepingAgrees'
    BY <1>1, <2>3, <2>4 DEF BookkeepingAgrees
  <2> QED BY <1>2, <2>5, <2>6, <2>7
<1> QED BY <1>3, <1>4 DEF FreeBlock

(* No step of the memory manager breaks the invariant.                     *)
LEMMA PmmNextPreserves == PmmIInv /\ [PmmNext]_pmm_vars => PmmIInv'
<1> SUFFICES ASSUME PmmIInv, [PmmNext]_pmm_vars PROVE PmmIInv'
  OBVIOUS
<1>1. CASE AllocBlock
  BY <1>1, AllocPreserves
<1>2. CASE \E f \in FRAMES : FreeBlock(f)
  BY <1>2, FreePreserves
<1>3. CASE EndInitMode
  BY <1>3 DEF EndInitMode, PmmIInv, PmmTypes, KernelMarked, SingleFrameOwner, RamOnly,
              MarkedBelowTop, CounterIsNotAhead, Marked, BookkeepingAgrees, HeldFrames, Strayed
<1>4. CASE UNCHANGED pmm_vars
  BY <1>4 DEF pmm_vars, PmmIInv, PmmTypes, KernelMarked, SingleFrameOwner, RamOnly,
              MarkedBelowTop, CounterIsNotAhead, Marked, BookkeepingAgrees, HeldFrames, Strayed
<1> QED BY <1>1, <1>2, <1>3, <1>4 DEF PmmNext

(* The bitmap, the counter and the callers agree in every reachable state  *)
(* of the memory manager (pmm_init, pmm_alloc_block, pmm_free_block).      *)
THEOREM PmmInvariance == PmmSpec => []PmmIInv
  BY PmmInitIInv, PmmNextPreserves, PTL DEF PmmSpec

(* No frame is handed out while somebody holds it (pmm_alloc_block).       *)
THEOREM FramesHaveOneOwner == PmmSpec => []SingleFrameOwner
<1>1. PmmIInv => SingleFrameOwner
  BY DEF PmmIInv
<1> QED BY <1>1, PmmInvariance, PTL

(* Only RAM above the kernel and its bitmap is handed out.                 *)
THEOREM OnlyRamIsHandedOut == PmmSpec => []RamOnly
<1>1. PmmIInv => RamOnly
  BY DEF PmmIInv
<1> QED BY <1>1, PmmInvariance, PTL

(* pmm_used_blocks, the bitmap and the callers never drift apart.          *)
THEOREM CountersDoNotDrift == PmmSpec => []BookkeepingAgrees
<1>1. PmmIInv => BookkeepingAgrees
  BY DEF PmmIInv
<1> QED BY <1>1, PmmInvariance, PTL

(* A failing call means that fewer frames are free than a word of the      *)
(* bitmap has bits: either the counter has reached the top, and then, as   *)
(* it is never ahead of the bits, nearly every frame is marked; or the     *)
(* scan found no clear bit, and it misses less than one word.              *)
THEOREM MemoryIsGoneWhenItFails == PmmSpec => []NoSpuriousFailure
<1>1. PmmIInv => NoSpuriousFailure
  <2> DEFINE top == MaxBlocks
             last == (MaxBlocks \div BITS_PER_WORD) * BITS_PER_WORD
             lowlast == LOW_WORDS * BITS_PER_WORD
             limit == IF init_mode THEN lowlast ELSE top
             F == {f \in Ram : f < limit /\ f \notin memory_map}
  <2> SUFFICES ASSUME PmmIInv, AllocFails, NULL \notin Strayed
               PROVE  Cardinality(F) < BITS_PER_WORD
    BY DEF NoSpuriousFailure
  <2> USE DEF PmmIInv
  <2>1. /\ last \in Nat /\ last <= top /\ top < last + BITS_PER_WORD
        /\ \A low \in BOOLEAN : Scanned(low) \subseteq 0 .. top - 1
    BY ScannedBelowTop
  <2>2. /\ BITS_PER_WORD \in Nat \ {0} /\ RESERVED \in Nat \ {0} /\ UsedAfterInit \in Nat
        /\ top \in Nat /\ RESERVED <= top /\ lowlast <= top
        /\ UsedAfterInit - RESERVED < BITS_PER_WORD
        /\ Ram \subseteq Nat
    BY SizesAssumption, CapacityAssumption
  <2>3. /\ init_mode \in BOOLEAN
        /\ used_blocks \in Nat
        /\ used_blocks <= UsedAfterInit - RESERVED + Cardinality(Marked)
        /\ Marked \subseteq 0 .. top - 1
        /\ IsFiniteSet(Marked) /\ Cardinality(Marked) \in Nat
    BY HeldFinite DEF PmmTypes, MarkedBelowTop, CounterIsNotAhead
  <2>4. Scanned(TRUE) = 0 .. lowlast - 1 /\ Scanned(FALSE) = 0 .. last - 1
    BY DEF Scanned
  <2>5. lowlast \in Nat
    BY SizesAssumption
  <2>6. /\ AllocFrame(memory_map, used_blocks, init_mode)
             = {f \in FindFree(memory_map, init_mode) : top # used_blocks}
        /\ AllocFrame(memory_map, used_blocks, init_mode) = {}
    <3>1. NULL \in memory_map
      BY <2>2 DEF KernelMarked, Kernel, NULL
    <3>2. NULL \notin AllocFrame(memory_map, used_blocks, init_mode)
      BY <2>3, <3>1, AllocFrameIsFree
    <3> QED BY <3>2 DEF AllocFrame, AllocFails
  <2> HIDE DEF top, last, lowlast
  <2>7. F \cap Marked = {}
    BY DEF Marked
  <2>8. F \subseteq 0 .. top - 1
    <3>1. ASSUME NEW f \in F PROVE f \in 0 .. top - 1
      <4>1. f \in Nat /\ f < limit
        BY <2>2
      <4>2. limit <= top
        BY <2>2, <2>3
      <4>3. limit \in Nat
        BY <2>2, <2>5
      <4> HIDE DEF limit
      <4> QED BY <2>2, <4>1, <4>2, <4>3
    <3> QED BY <3>1
  <2>9. CASE top = used_blocks
    <3> HIDE DEF F
    <3>1. IsFiniteSet(0 .. top - 1) /\ Cardinality(0 .. top - 1) = top
      <4>1. 0 \in Int /\ top - 1 \in Int
        BY <2>2
      <4>2. /\ IsFiniteSet(0 .. top - 1)
            /\ Cardinality(0 .. top - 1) = IF 0 > top - 1 THEN 0 ELSE top - 1 - 0 + 1
        BY <4>1, FS_Interval
      <4> QED BY <2>2, <4>2
    <3>2. IsFiniteSet(F) /\ Cardinality(F) \in Nat
      BY <2>8, <3>1, FS_Subset, FS_CardinalityType
    <3>3. Cardinality(F \cup Marked)
            = Cardinality(F) + Cardinality(Marked) - Cardinality(F \cap Marked)
      BY <2>3, <3>2, FS_Union
    <3>4. Cardinality(F \cap Marked) = 0
      BY <2>7, FS_EmptySet, Zenon
    <3>5. Cardinality(F \cup Marked) <= top
      <4>1. F \cup Marked \subseteq 0 .. top - 1
        BY <2>3, <2>8
      <4> QED BY <3>1, <4>1, FS_Subset
    <3>6. Cardinality(F) + Cardinality(Marked) <= top
      BY <2>3, <3>2, <3>3, <3>4, <3>5
    <3> QED BY <2>2, <2>3, <2>9, <3>2, <3>6
  <2>10. CASE top # used_blocks
    <3> DEFINE clear == ClearFrames(memory_map, init_mode)
    <3>1. Lowest(clear) = {}
      BY <2>6, <2>10 DEF FindFree
    <3>2. clear \subseteq Nat
      BY <2>1, <2>2, <2>3 DEF ClearFrames
    <3>3. clear = {}
      BY <3>1, <3>2, LeastElement DEF Lowest
    <3>4. Scanned(init_mode) \subseteq memory_map
      BY <3>3 DEF ClearFrames
    <3>5. F \subseteq last .. top - 1
      <4>1. ASSUME NEW f \in F PROVE f >= last
        <5>1. f \in Nat /\ f \notin Scanned(init_mode)
          BY <2>2, <3>4
        <5>2. CASE init_mode = TRUE
          <6>1. f < lowlast /\ f \notin 0 .. lowlast - 1
            BY <2>4, <5>1, <5>2
          <6> QED BY <2>5, <5>1, <6>1
        <5>3. CASE init_mode = FALSE
          <6>1. f \notin 0 .. last - 1
            BY <2>4, <5>1, <5>3
          <6> QED BY <2>1, <5>1, <6>1
        <5> QED BY <2>3, <5>2, <5>3
      <4>2. ASSUME NEW f \in F PROVE f \in last .. top - 1
        BY <2>1, <2>2, <2>8, <4>1
      <4> QED BY <4>2
    <3> HIDE DEF F, clear
    <3>6. last \in Int /\ top - 1 \in Int
      BY <2>1, <2>2
    <3>7. /\ IsFiniteSet(last .. top - 1)
          /\ Cardinality(last .. top - 1) = IF last > top - 1 THEN 0 ELSE top - 1 - last + 1
      BY <3>6, FS_Interval
    <3>8. Cardinality(F) <= Cardinality(last .. top - 1) /\ IsFiniteSet(F)
      BY <3>5, <3>7, FS_Subset
    <3>9. Cardinality(F) \in Nat
      BY <3>8, FS_CardinalityType
    <3> QED BY <2>1, <2>2, <3>7, <3>8, <3>9
  <2> QED BY <2>9, <2>10
<1> QED BY <1>1, PmmInvariance, PTL

-----------------------------------------------------------------------------
(***************************************************************************)
(* The bitmaps on the disk.  The newest copy of every block, Written(s),   *)
(* is what the functions of bitmap.c are about: loading a block never      *)
(* changes it, set adds a bit to it, unset takes one away.  Everything else*)
(* follows from how the set of bits in it, the counter and the owners move *)
(* together.                                                               *)
(***************************************************************************)
Offsets == 0 .. BlockBits - 1
BlockNumbers == 0 .. BlockCount - 1

(* What the disk and the bitmap_disk_t may be.                             *)
Images ==
    [disk : [BlockNumbers -> SUBSET Offsets],
     bm   : [block : SUBSET Offsets, block_index : BlockNumbers,
             dirty : BOOLEAN, used_bits : Nat]]

(* A block in memory that is not dirty is the block on the disk.           *)
Clean(s) == s.bm.dirty = FALSE => s.bm.block = s.disk[s.bm.block_index]

(* The padding stays set, on the disk and in the newest copy.              *)
PaddingStays(s) ==
    /\ Padding \subseteq s.disk[BlockCount - 1]
    /\ Padding \subseteq Written(s)[BlockCount - 1]

Sane(s) == s \in Images /\ Clean(s) /\ PaddingStays(s)

On(s) == {bit \in Bits : Offset(bit) \in Written(s)[bit_to_block(bit)]}
Owned(h) == {bit \in Bits : h[bit] > 0}

(* The inductive invariant, of a bitmap s, owners h and r reboots.  No     *)
(* part of it is inductive alone: that a clear bit has no owner needs the  *)
(* held bits to be set, that a bitmap is full after a reboot needs the     *)
(* counter to follow the bits, and the counter needs the padding to stay.  *)
Good(s, h, r) ==
    /\ Sane(s)
    /\ h \in [Bits -> Nat] /\ r \in Nat
    /\ r = 0 \/ FullAfterReboot => \A bit \in Bits : h[bit] <= 1
    /\ r = 0 => Owned(h) \subseteq On(s)
    /\ r = 0 \/ BlockCount = 1 =>
          s.bm.used_bits = Cardinality(On(s)) + (IF r = 0 THEN 0 ELSE Cardinality(Padding))
    /\ r = 0 /\ BlockCount = 1 => On(s) \subseteq Owned(h)

BitmapIInv == shape \in Shapes /\ Good(State, holders, reboots)

-----------------------------------------------------------------------------
(* Enough blocks for the bits, and not one more (bitmap_disk_init).        *)
LEMMA EnoughBlocks ==
    ASSUME NEW total \in Nat \ {0}, NEW bytes \in Nat \ {0}, NEW bpb \in Nat \ {0},
           total % bpb = 0
    PROVE  LET bits == bytes * bpb
               count == (total \div bpb + bytes - 1) \div bytes
           IN  /\ bits \in Nat \ {0} /\ count \in Nat \ {0}
               /\ total <= count * bits /\ (count - 1) * bits < total
<1> DEFINE bits == bytes * bpb
           t == total \div bpb
           n == t + bytes - 1
           count == n \div bytes
           r == n % bytes
<1>1. bits \in Nat \ {0}
  OBVIOUS
<1>2. t \in Nat /\ total = bpb * t
  <2>1. t \in Nat
    BY QuotientNat
  <2>2. total = bpb * t + (total % bpb)
    BY Quotient
  <2> HIDE DEF t
  <2> QED BY <2>1, <2>2
<1> HIDE DEF t
<1>3. t # 0
  BY <1>2
<1>4. n \in Nat
  BY <1>2
<1>5. count \in Nat
  BY <1>4, QuotientNat
<1>6. n = bytes * count + r
  BY <1>4, Quotient
<1>7. r \in 0 .. bytes - 1
  BY <1>4, Remainder
<1> HIDE DEF count, r
<1>8. count # 0
  <2>1. count = 0 => n = r
    BY <1>6, <1>7
  <2> QED BY <1>2, <1>3, <1>7, <2>1
<1>9. t <= bytes * count
  BY <1>2, <1>5, <1>6, <1>7
<1>10. bytes * (count - 1) < t
  <2>1. bytes * (count - 1) = bytes * count - bytes
    BY <1>5
  <2> QED BY <1>2, <1>5, <1>6, <1>7, <2>1
<1>11. total <= count * bits
  <2>1. PICK k \in Nat : bytes * count = t + k
    <3>1. bytes * count - t \in Nat /\ bytes * count = t + (bytes * count - t)
      BY <1>2, <1>5, <1>9
    <3> QED BY <3>1
  <2>2. bpb * (bytes * count) = bpb * t + bpb * k /\ bpb * k \in Nat
    BY <1>2, <1>5, <2>1
  <2>3. bpb * (bytes * count) = count * bits
    BY <1>5
  <2> QED BY <1>2, <2>2, <2>3
<1>12. (count - 1) * bits < total
  <2> DEFINE c == count - 1
  <2>0. c \in Nat
    BY <1>5, <1>8
  <2>1. PICK k \in Nat : t = bytes * c + k /\ k # 0
    <3>1. bytes * c \in Nat
      BY <2>0
    <3>2. t - bytes * c \in Nat /\ t - bytes * c # 0 /\ t = bytes * c + (t - bytes * c)
      BY <1>2, <1>10, <3>1
    <3> QED BY <3>2
  <2> HIDE DEF c
  <2>2. bpb * t = bpb * (bytes * c) + bpb * k /\ bpb * k \in Nat /\ bpb * k # 0
    BY <1>2, <2>0, <2>1
  <2>3. bpb * (bytes * c) = c * bits /\ c * bits \in Nat
    BY <2>0
  <2> QED BY <1>2, <2>2, <2>3 DEF c
<1> QED BY <1>1, <1>5, <1>8, <1>11, <1>12 DEF count, t

(* The sizes of every bitmap.                                              *)
LEMMA Geometry ==
    ASSUME shape \in Shapes
    PROVE  /\ BlockBits \in Nat \ {0} /\ TOTAL_BITS \in Nat \ {0} /\ BlockCount \in Nat \ {0}
           /\ TOTAL_BITS <= BlockCount * BlockBits
           /\ (BlockCount - 1) * BlockBits < TOTAL_BITS
           /\ SIZE_T \in Nat /\ BlockBits + TOTAL_BITS < SIZE_T
<1>1. /\ TOTAL_BITS \in Nat \ {0} /\ BLOCK_BYTES \in Nat \ {0} /\ BITS_PER_BYTE \in Nat \ {0}
      /\ TOTAL_BITS % BITS_PER_BYTE = 0 /\ SIZE_T \in Nat
      /\ 2 * BLOCK_BYTES * BITS_PER_BYTE + 2 * TOTAL_BITS < SIZE_T
  BY BitmapAssumption DEF TOTAL_BITS, BLOCK_BYTES
<1> HIDE DEF TOTAL_BITS, BLOCK_BYTES
<1>2. /\ BlockBits \in Nat \ {0} /\ BlockCount \in Nat \ {0}
      /\ TOTAL_BITS <= BlockCount * BlockBits /\ (BlockCount - 1) * BlockBits < TOTAL_BITS
  BY <1>1, EnoughBlocks DEF BlockBits, BlockCount
<1>3. BlockBits + TOTAL_BITS < SIZE_T
  <2>1. 2 * BLOCK_BYTES * BITS_PER_BYTE = 2 * BlockBits
    BY <1>1 DEF BlockBits
  <2> HIDE DEF BlockBits
  <2> QED BY <1>1, <1>2, <2>1
<1> QED BY <1>1, <1>2, <1>3

(* Every bit has a block and an offset of its own.                         *)
LEMMA Place ==
    ASSUME shape \in Shapes, NEW bit \in Bits
    PROVE  /\ bit_to_block(bit) \in BlockNumbers /\ Offset(bit) \in Offsets
           /\ bit = BlockBits * bit_to_block(bit) + Offset(bit)
<1>1. /\ BlockBits \in Nat \ {0} /\ TOTAL_BITS \in Nat /\ BlockCount \in Nat \ {0}
      /\ TOTAL_BITS <= BlockCount * BlockBits
  BY Geometry
<1>2. bit \in Nat /\ bit < TOTAL_BITS
  BY <1>1 DEF Bits
<1> HIDE DEF BlockBits, BlockCount, TOTAL_BITS
<1>3. BlockCount * BlockBits \in Nat
  BY <1>1
<1>4. bit < BlockCount * BlockBits
  BY <1>1, <1>2, <1>3
<1>5. bit_to_block(bit) \in Nat /\ bit_to_block(bit) < BlockCount
  BY <1>1, <1>2, <1>4, QuotientNat, QuotientBelow DEF bit_to_block
<1>6. Offset(bit) \in Offsets
  BY <1>1, <1>2, Remainder DEF Offset, Offsets
<1>7. bit = BlockBits * bit_to_block(bit) + Offset(bit)
  BY <1>1, <1>2, Quotient DEF Offset, bit_to_block
<1> QED BY <1>1, <1>5, <1>6, <1>7 DEF BlockNumbers

(* No two bits share their place.                                          *)
LEMMA PlaceIsOwn ==
    ASSUME shape \in Shapes, NEW b \in Bits, NEW c \in Bits,
           bit_to_block(b) = bit_to_block(c), Offset(b) = Offset(c)
    PROVE  b = c
  BY Place

(* The place of a bit is not padding.                                      *)
LEMMA NotPadding ==
    ASSUME shape \in Shapes, NEW bit \in Bits, bit_to_block(bit) = BlockCount - 1
    PROVE  Offset(bit) \notin Padding
<1>1. /\ BlockBits \in Nat \ {0} /\ TOTAL_BITS \in Nat /\ BlockCount \in Nat \ {0}
  BY Geometry
<1>2. bit \in Nat /\ bit < TOTAL_BITS
  BY <1>1 DEF Bits
<1>3. bit = BlockBits * (BlockCount - 1) + Offset(bit) /\ Offset(bit) \in Offsets
  BY Place
<1> HIDE DEF BlockBits, BlockCount, TOTAL_BITS, Offset
<1> DEFINE first == (BlockCount - 1) * BlockBits
<1>4. first \in Nat /\ BlockBits * (BlockCount - 1) = first /\ Offset(bit) \in Nat
  BY <1>1, <1>3 DEF Offsets
<1> HIDE DEF first
<1>5. Offset(bit) < TOTAL_BITS - first
  BY <1>1, <1>2, <1>3, <1>4
<1> QED BY <1>1, <1>4, <1>5 DEF Padding, first

-----------------------------------------------------------------------------
(* The newest copy of each block; that of the loaded one is in memory.     *)
LEMMA WrittenType ==
    ASSUME shape \in Shapes, NEW s, s \in Images, Clean(s)
    PROVE  /\ Written(s) \in [BlockNumbers -> SUBSET Offsets]
           /\ Written(s)[s.bm.block_index] = s.bm.block
           /\ \A b \in BlockNumbers : b # s.bm.block_index => Written(s)[b] = s.disk[b]
<1>1. CASE s.bm.dirty = TRUE
  BY <1>1 DEF Written, Images
<1>2. CASE s.bm.dirty = FALSE
  BY <1>2 DEF Written, Images, Clean
<1> QED BY <1>1, <1>2 DEF Images

(* What load_block makes of the disk and the bitmap.                       *)
LEMMA LoadBlock ==
    ASSUME shape \in Shapes, NEW s, Sane(s), NEW b \in BlockNumbers
    PROVE  /\ Sane(load_block(s, b))
           /\ load_block(s, b).bm.block_index = b
           /\ load_block(s, b).bm.block = Written(s)[b]
           /\ load_block(s, b).bm.used_bits = s.bm.used_bits
           /\ Written(load_block(s, b)) = Written(s)
<1> DEFINE t == load_block(s, b)
<1>1. s \in Images /\ Clean(s) /\ PaddingStays(s)
  BY DEF Sane
<1>2. Written(s) \in [BlockNumbers -> SUBSET Offsets]
  BY <1>1, WrittenType
<1>3. ~ (b >= BlockCount)
  BY Geometry DEF BlockNumbers
<1> DEFINE W == Written(s)
           f == flush(s)
<1>4. t = [f EXCEPT !.bm.block = W[b], !.bm.block_index = b]
  BY <1>3 DEF load_block
<1>5. f = [s EXCEPT !.disk = W, !.bm.dirty = FALSE]
  BY DEF flush
<1> DEFINE u == [disk |-> W,
                 bm |-> [block |-> W[b], block_index |-> b,
                         dirty |-> FALSE, used_bits |-> s.bm.used_bits]]
<1> HIDE DEF W, f, t
<1>6. t = u
  <2>1. /\ f \in Images /\ f.disk = W
        /\ f.bm.dirty = FALSE /\ f.bm.used_bits = s.bm.used_bits
    BY <1>1, <1>2, <1>5 DEF Images, W
  <2>2. t = [disk |-> f.disk,
             bm |-> [block |-> W[b], block_index |-> b,
                     dirty |-> f.bm.dirty, used_bits |-> f.bm.used_bits]]
    BY <1>4, <2>1 DEF Images
  <2> QED BY <2>1, <2>2
<1> USE DEF W
<1>7. u \in Images
  BY <1>1, <1>2 DEF Images
<1>8. u.disk = Written(s) /\ Written(u) = Written(s)
  BY DEF Written
<1>9. Clean(u) /\ PaddingStays(u)
  BY <1>1, <1>8 DEF Clean, PaddingStays
<1> HIDE DEF u
<1>10. Sane(t) /\ Written(t) = Written(s)
  BY <1>6, <1>7, <1>8, <1>9 DEF Sane
<1>11. t.bm.block_index = b /\ t.bm.block = Written(s)[b] /\ t.bm.used_bits = s.bm.used_bits
  BY <1>6 DEF u
<1> QED BY <1>10, <1>11 DEF t

LEMMA CheckedLoadBlock ==
    ASSUME shape \in Shapes, NEW s, Sane(s), NEW bit \in Bits
    PROVE  /\ Sane(checked_load_block(s, bit))
           /\ checked_load_block(s, bit).bm.block_index = bit_to_block(bit)
           /\ checked_load_block(s, bit).bm.used_bits = s.bm.used_bits
           /\ Written(checked_load_block(s, bit)) = Written(s)
<1>1. CASE bit_to_block(bit) = s.bm.block_index
  BY <1>1 DEF checked_load_block
<1>2. CASE bit_to_block(bit) # s.bm.block_index
  <2>1. bit_to_block(bit) \in BlockNumbers
    BY Place
  <2>2. checked_load_block(s, bit) = load_block(s, bit_to_block(bit))
    BY <1>2 DEF checked_load_block
  <2> QED BY <2>1, <2>2, LoadBlock
<1> QED BY <1>1, <1>2

(* Changing the block in memory, with the flag that it is dirty, changes   *)
(* the newest copy of that block and nothing else.                         *)
Changed(t, B, n) == [t EXCEPT !.bm.block = B, !.bm.used_bits = n, !.bm.dirty = TRUE]

LEMMA ChangeBlock ==
    ASSUME shape \in Shapes, NEW t, Sane(t), NEW B \in SUBSET Offsets, NEW n \in Nat,
           t.bm.block_index = BlockCount - 1 => Padding \subseteq B
    PROVE  /\ Sane(Changed(t, B, n))
           /\ Changed(t, B, n).bm.used_bits = n
           /\ Written(Changed(t, B, n)) = [Written(t) EXCEPT ![t.bm.block_index] = B]
<1>1. t \in Images /\ Clean(t) /\ PaddingStays(t)
  BY DEF Sane
<1> DEFINE v == [disk |-> t.disk,
                 bm |-> [block |-> B, block_index |-> t.bm.block_index,
                         dirty |-> TRUE, used_bits |-> n]]
<1> DEFINE u == Changed(t, B, n)
<1>1a. u = [t EXCEPT !.bm.block = B, !.bm.used_bits = n, !.bm.dirty = TRUE]
  BY DEF Changed
<1> HIDE DEF u
<1>2. u = v
  BY <1>1, <1>1a DEF Images
<1>3. v \in Images
  BY <1>1 DEF Images
<1>4. Written(v) = [t.disk EXCEPT ![t.bm.block_index] = B]
  BY DEF Written
<1>5. Written(v) = [Written(t) EXCEPT ![t.bm.block_index] = B]
  BY <1>1, <1>4 DEF Written, Images
<1>6. Clean(v)
  BY DEF Clean
<1>7. PaddingStays(v)
  <2>1. BlockCount - 1 \in BlockNumbers
    BY Geometry DEF BlockNumbers
  <2>2. Padding \subseteq t.disk[BlockCount - 1]
    BY <1>1 DEF PaddingStays
  <2>3. t.disk \in [BlockNumbers -> SUBSET Offsets] /\ v.disk = t.disk
    BY <1>1 DEF Images
  <2>4. Padding \subseteq Written(v)[BlockCount - 1]
    BY <1>4, <2>1, <2>2, <2>3
  <2> QED BY <2>2, <2>3, <2>4 DEF PaddingStays
<1>8. v.bm.used_bits = n
  OBVIOUS
<1> HIDE DEF v
<1> QED BY <1>2, <1>3, <1>5, <1>6, <1>7, <1>8 DEF Sane, u

-----------------------------------------------------------------------------
(* bitmap_disk_set, called as fs_data_alloc_block does: the block of the   *)
(* bit is the one in memory, and the bit is clear.                         *)
LEMMA SetBit ==
    ASSUME shape \in Shapes, NEW s, Sane(s), NEW bit \in Bits,
           s.bm.block_index = bit_to_block(bit), Offset(bit) \notin s.bm.block
    PROVE  /\ Sane(set(s, bit))
           /\ set(s, bit).bm.used_bits = s.bm.used_bits + 1
           /\ On(set(s, bit)) = On(s) \cup {bit} /\ bit \notin On(s)
<1> DEFINE blk == s.bm.block_index
           B == s.bm.block \cup {Offset(bit)}
           n == s.bm.used_bits + 1
           u == Changed(s, B, n)
<1>1. s \in Images /\ Clean(s) /\ PaddingStays(s)
  BY DEF Sane
<1>2. set(s, bit) = u
  BY DEF set, checked_load_block, Changed
<1>3. B \in SUBSET Offsets /\ n \in Nat
  BY <1>1, Place DEF Images
<1>4. /\ Written(s) \in [BlockNumbers -> SUBSET Offsets] /\ Written(s)[blk] = s.bm.block
      /\ blk \in BlockNumbers
  BY <1>1, WrittenType DEF Images
<1>5. blk = BlockCount - 1 => Padding \subseteq B
  BY <1>1, <1>4 DEF PaddingStays
<1> HIDE DEF B, n, u
<1>6. /\ Sane(u) /\ u.bm.used_bits = n
      /\ Written(u) = [Written(s) EXCEPT ![blk] = B]
  BY <1>3, <1>5, ChangeBlock DEF u
<1>7. bit \notin On(s)
  BY <1>4 DEF On
<1>8. ASSUME NEW b \in Bits PROVE b \in On(u) <=> b \in On(s) \/ b = bit
  <2>1. bit_to_block(b) \in BlockNumbers
    BY Place
  <2>2. CASE bit_to_block(b) = blk
    <3>1. b \in On(u) <=> Offset(b) \in B
      BY <1>4, <1>6, <2>2 DEF On
    <3>2. b \in On(s) <=> Offset(b) \in s.bm.block
      BY <1>4, <2>2 DEF On
    <3>3. Offset(b) = Offset(bit) => b = bit
      BY <2>2, PlaceIsOwn
    <3> QED BY <3>1, <3>2, <3>3 DEF B
  <2>3. CASE bit_to_block(b) # blk
    BY <1>4, <1>6, <2>1, <2>3 DEF On
  <2> QED BY <2>2, <2>3
<1>9. On(u) = On(s) \cup {bit}
  BY <1>8 DEF On
<1> QED BY <1>2, <1>6, <1>7, <1>9 DEF n

(* Counting down wraps only at zero.                                       *)
LEMMA CountDown ==
    ASSUME SIZE_T \in Nat \ {0}, NEW n \in Nat
    PROVE  Less(n) \in Nat /\ (n # 0 /\ n < SIZE_T => Less(n) = n - 1)
<1> DEFINE m == n + SIZE_T - 1
           q == m \div SIZE_T
           r == m % SIZE_T
<1>1. m \in Nat /\ SIZE_T \in Nat \ {0}
  OBVIOUS
<1>2. m = SIZE_T * q + r
  BY <1>1, Quotient
<1>3. r \in 0 .. SIZE_T - 1
  BY <1>1, Remainder
<1>4. q \in Nat
  BY <1>1, QuotientNat
<1>5. Less(n) = r
  BY DEF Less
<1> HIDE DEF q, r
<1>6. ASSUME n # 0, n < SIZE_T PROVE r = n - 1
  <2>1. q < 2
    <3>1. q >= 2 => SIZE_T * q >= SIZE_T * 2
      BY <1>1, <1>4
    <3> QED BY <1>1, <1>2, <1>3, <1>4, <1>6, <3>1
  <2>2. q # 0
    BY <1>1, <1>2, <1>3, <1>6
  <2>3. q = 1
    BY <1>4, <2>1, <2>2
  <2> QED BY <1>1, <1>2, <1>3, <2>3
<1> QED BY <1>3, <1>5, <1>6

(* bitmap_disk_unset either finds the bit clear in whatever block is in    *)
(* memory, and does nothing, or clears it.                                 *)
LEMMA UnsetBit ==
    ASSUME shape \in Shapes, NEW s, Sane(s), NEW bit \in Bits, Less(s.bm.used_bits) \in Nat
    PROVE  \/ unset(s, bit) = s /\ Offset(bit) \notin s.bm.block
           \/ /\ Sane(unset(s, bit)) /\ Offset(bit) \in s.bm.block
              /\ unset(s, bit).bm.used_bits = Less(s.bm.used_bits)
              /\ On(unset(s, bit)) = On(s) \ {bit}
<1> DEFINE t == checked_load_block(s, bit)
           blk == bit_to_block(bit)
           B == t.bm.block \ {Offset(bit)}
           n == Less(s.bm.used_bits)
           u == Changed(t, B, n)
<1>1. CASE Offset(bit) \notin s.bm.block
  BY <1>1 DEF unset
<1>2. CASE Offset(bit) \in s.bm.block
  <2>1. /\ Sane(t) /\ t.bm.block_index = blk /\ t.bm.used_bits = s.bm.used_bits
        /\ Written(t) = Written(s)
    BY CheckedLoadBlock
  <2>2. unset(s, bit) = u
    BY <1>2, <2>1 DEF unset, Changed
  <2> HIDE DEF t
  <2>3. t \in Images /\ Clean(t) /\ PaddingStays(t)
    BY <2>1 DEF Sane
  <2>4. B \in SUBSET Offsets /\ n \in Nat
    BY <2>3 DEF Images
  <2>5. Written(s) \in [BlockNumbers -> SUBSET Offsets] /\ Written(s)[blk] = t.bm.block
    BY <2>1, <2>3, WrittenType
  <2>6. blk \in BlockNumbers
    BY Place
  <2>7. blk = BlockCount - 1 => Padding \subseteq B
    <3>1. blk = BlockCount - 1 => Padding \subseteq t.bm.block
      BY <2>1, <2>3, <2>5 DEF PaddingStays
    <3> QED BY <3>1, NotPadding
  <2>7a. t.bm.block_index = BlockCount - 1 => Padding \subseteq B
    BY <2>1, <2>7
  <2> HIDE DEF B, u, n, blk
  <2>8. /\ Sane(u) /\ u.bm.used_bits = n
        /\ Written(u) = [Written(t) EXCEPT ![t.bm.block_index] = B]
    BY <2>1, <2>4, <2>7a, ChangeBlock DEF u
  <2>9. ASSUME NEW b \in Bits PROVE b \in On(u) <=> b \in On(s) /\ b # bit
    <3>1. bit_to_block(b) \in BlockNumbers
      BY Place
    <3>2. CASE bit_to_block(b) = blk
      <4>1. b \in On(u) <=> Offset(b) \in B
        BY <2>1, <2>5, <2>6, <2>8, <3>2 DEF On
      <4>2. b \in On(s) <=> Offset(b) \in t.bm.block
        BY <2>5, <3>2 DEF On
      <4>3. Offset(b) = Offset(bit) => b = bit
        BY <3>2, PlaceIsOwn DEF blk
      <4> QED BY <4>1, <4>2, <4>3 DEF B
    <3>3. CASE bit_to_block(b) # blk
      <4>1. b # bit
        BY <3>3 DEF blk
      <4> QED BY <2>1, <2>5, <2>6, <2>8, <3>1, <3>3, <4>1 DEF On
    <3> QED BY <3>2, <3>3
  <2>10. On(u) = On(s) \ {bit}
    BY <2>9 DEF On
  <2> QED BY <1>2, <2>2, <2>8, <2>10 DEF n
<1> QED BY <1>1, <1>2

-----------------------------------------------------------------------------
(* Turning from block to block looks the same blocks up.                   *)
LEMMA TurnKeeps ==
    ASSUME shape \in Shapes, NEW s, Sane(s), NEW i \in 0 .. BlockCount
    PROVE  /\ Sane(turn(s, i))
           /\ turn(s, i).bm.used_bits = s.bm.used_bits
           /\ Written(turn(s, i)) = Written(s)
<1>1. CASE i = 0
  BY <1>1 DEF turn
<1>2. CASE i # 0
  <2> DEFINE b == (s.bm.block_index + i) % BlockCount
  <2>1. s.bm.block_index + i \in Nat /\ BlockCount \in Nat \ {0}
    BY Geometry DEF Sane, Images, BlockNumbers
  <2>2. b \in BlockNumbers
    BY <2>1, Remainder DEF BlockNumbers
  <2>3. turn(s, i) = load_block(s, b)
    BY <1>2 DEF turn
  <2> HIDE DEF b
  <2> QED BY <2>2, <2>3, LoadBlock
<1> QED BY <1>1, <1>2

(* In one round of turns every block is looked at.                         *)
LEMMA TurnReaches ==
    ASSUME shape \in Shapes, NEW s, Sane(s), NEW b \in BlockNumbers
    PROVE  \E i \in 0 .. BlockCount - 1 : turn(s, i).bm.block_index = b
<1> DEFINE idx == s.bm.block_index
           n == BlockCount
<1>1. n \in Nat \ {0} /\ idx \in 0 .. n - 1 /\ b \in 0 .. n - 1
  BY Geometry DEF Sane, Images, BlockNumbers
<1>2. CASE b = idx
  <2>1. 0 \in 0 .. BlockCount - 1 /\ turn(s, 0) = s
    BY <1>1 DEF turn
  <2> QED BY <1>2, <2>1
<1>3. CASE b # idx
  <2> HIDE DEF n, idx
  <2>1. PICK i \in 1 .. n - 1 : idx + i = b \/ idx + i = b + n
    <3>1. CASE b > idx
      <4>1. b - idx \in 1 .. n - 1 /\ idx + (b - idx) = b
        BY <1>1, <3>1
      <4> QED BY <4>1
    <3>2. CASE b < idx
      <4>1. b - idx + n \in 1 .. n - 1 /\ idx + (b - idx + n) = b + n
        BY <1>1, <3>2
      <4> QED BY <4>1
    <3> QED BY <1>1, <1>3, <3>1, <3>2
  <2>2. (idx + i) % n = b
    <3> DEFINE m == idx + i
               q == m \div n
               r == m % n
    <3>1. m \in Nat
      BY <1>1
    <3>2. m = n * q + r /\ r \in 0 .. n - 1 /\ q \in Nat
      BY <1>1, <3>1, Quotient, Remainder, QuotientNat
    <3>3. m < 2 * n /\ (m = b \/ m = b + n)
      BY <1>1, <2>1
    <3> HIDE DEF m, q, r
    <3>4. q < 2
      <4>1. q >= 2 => n * q >= n * 2
        BY <1>1, <3>2
      <4> QED BY <1>1, <3>1, <3>2, <3>3, <4>1
    <3>5. q = 0 \/ q = 1
      BY <3>2, <3>4
    <3>6. r = b
      <4>1. q = 0 => r = b
        <5>1. q = 0 => n * q = 0
          BY <1>1
        <5> QED BY <1>1, <3>1, <3>2, <3>3, <5>1
      <4>2. q = 1 => r = b
        <5>1. q = 1 => n * q = n
          BY <1>1
        <5> QED BY <1>1, <3>1, <3>2, <3>3, <5>1
      <4> QED BY <3>5, <4>1, <4>2
    <3> QED BY <3>6 DEF r, m
  <2>3. i \in 0 .. BlockCount - 1 /\ i # 0
    BY <1>1, <2>1 DEF n
  <2>4. turn(s, i) = load_block(s, b)
    BY <2>2, <2>3 DEF turn, n, idx
  <2>5. turn(s, i).bm.block_index = b
    BY <2>4, LoadBlock
  <2> QED BY <2>3, <2>5
<1> QED BY <1>2, <1>3

(* The bits that are clear in the block in memory are clear bits.          *)
LEMMA ClearBitsAreClear ==
    ASSUME shape \in Shapes, NEW s, Sane(s)
    PROVE  ClearBits(s) = {bit \in Bits \ On(s) : bit_to_block(bit) = s.bm.block_index}
<1>1. Written(s)[s.bm.block_index] = s.bm.block
  BY WrittenType DEF Sane
<1> QED BY <1>1 DEF ClearBits, On

(* What the search returns: either nothing, and then the counter says that *)
(* the bitmap is full or every bit is set; or a clear bit of the block     *)
(* that it leaves in memory.                                               *)
LEMMA Search ==
    ASSUME shape \in Shapes, NEW s, Sane(s), NEW found, found = find_free_bit(s)
    PROVE  /\ Sane(found.s) /\ On(found.s) = On(s)
           /\ found.s.bm.used_bits = s.bm.used_bits
           /\ found.bit = {} => s.bm.used_bits >= TOTAL_BITS \/ On(s) = Bits
           /\ \A bit \in found.bit : /\ bit \in ClearBits(found.s)
                                     /\ ~ (s.bm.used_bits >= TOTAL_BITS)
<1> DEFINE hit == {i \in 0 .. BlockCount - 1 : ClearBits(turn(s, i)) # {}}
<1>1. BlockCount \in Nat \ {0} /\ TOTAL_BITS \in Nat \ {0}
  BY Geometry
<1>2. hit \subseteq Nat /\ hit \subseteq 0 .. BlockCount /\ BlockCount \in 0 .. BlockCount
  BY <1>1
<1>3. \A i \in 0 .. BlockCount : On(turn(s, i)) = On(s)
  BY TurnKeeps DEF On
<1>4. CASE s.bm.used_bits >= TOTAL_BITS
  <2>1. found = [s |-> s, bit |-> {}]
    BY <1>4 DEF find_free_bit
  <2> QED BY <1>4, <2>1
<1>5. CASE ~ (s.bm.used_bits >= TOTAL_BITS) /\ hit = {}
  <2>1. found = [s |-> turn(s, BlockCount), bit |-> {}]
    BY <1>5 DEF find_free_bit
  <2>2. Bits \subseteq On(s)
    <3> SUFFICES ASSUME NEW bit \in Bits, bit \notin On(s) PROVE FALSE
      OBVIOUS
    <3>1. PICK i \in 0 .. BlockCount - 1 : turn(s, i).bm.block_index = bit_to_block(bit)
      BY Place, TurnReaches
    <3>2. i \in 0 .. BlockCount
      BY <1>1
    <3>3. Sane(turn(s, i)) /\ bit \notin On(turn(s, i))
      BY <1>3, <3>2, TurnKeeps
    <3>4. bit \in ClearBits(turn(s, i))
      BY <3>1, <3>3, ClearBitsAreClear
    <3> QED BY <1>5, <3>1, <3>4
  <2>3. On(s) = Bits
    BY <2>2 DEF On
  <2>4. found.s = turn(s, BlockCount) /\ found.bit = {}
    BY <2>1
  <2> QED BY <1>2, <1>3, <2>3, <2>4, TurnKeeps
<1>6. CASE ~ (s.bm.used_bits >= TOTAL_BITS) /\ hit # {}
  <2> DEFINE i == Min(hit)
             bit == Min(ClearBits(turn(s, i)))
  <2>1. found = [s |-> turn(s, i), bit |-> {bit}]
    BY <1>6 DEF find_free_bit
  <2>2. i \in hit
    BY <1>2, <1>6, MinIsIn
  <2>3. i \in 0 .. BlockCount /\ ClearBits(turn(s, i)) # {}
    BY <1>2, <2>2
  <2>4. ClearBits(turn(s, i)) \subseteq Nat
    BY <1>1 DEF ClearBits, Bits
  <2>5. bit \in ClearBits(turn(s, i))
    BY <2>3, <2>4, MinIsIn
  <2>6. found.s = turn(s, i) /\ found.bit = {bit}
    BY <2>1
  <2> HIDE DEF i, bit
  <2> QED BY <1>3, <1>6, <2>3, <2>5, <2>6, TurnKeeps
<1> HIDE DEF hit
<1> QED BY <1>4, <1>5, <1>6

-----------------------------------------------------------------------------
(* How many bits there are, and how much padding.                          *)
LEMMA BitsCount ==
    ASSUME shape \in Shapes
    PROVE  IsFiniteSet(Bits) /\ Cardinality(Bits) = TOTAL_BITS
<1>1. TOTAL_BITS \in Nat \ {0}
  BY Geometry
<1>2. 0 \in Int /\ TOTAL_BITS - 1 \in Int
  BY <1>1
<1>3. /\ IsFiniteSet(0 .. TOTAL_BITS - 1)
      /\ Cardinality(0 .. TOTAL_BITS - 1)
           = IF 0 > TOTAL_BITS - 1 THEN 0 ELSE TOTAL_BITS - 1 - 0 + 1
  BY <1>2, FS_Interval
<1> QED BY <1>1, <1>3 DEF Bits

LEMMA PaddingCount ==
    ASSUME shape \in Shapes
    PROVE  /\ IsFiniteSet(Padding) /\ Cardinality(Padding) \in Nat
           /\ Cardinality(Padding) < BlockBits
           /\ FullAfterReboot => BlockCount = 1
<1> DEFINE c == BlockCount - 1
           before == c * BlockBits
           lo == TOTAL_BITS - before
<1>1. /\ BlockBits \in Nat \ {0} /\ TOTAL_BITS \in Nat \ {0} /\ BlockCount \in Nat \ {0}
      /\ TOTAL_BITS <= BlockCount * BlockBits /\ before < TOTAL_BITS
  BY Geometry
<1>2. Padding = lo .. BlockBits - 1
  BY DEF Padding
<1>3. FullAfterReboot <=> Cardinality(Padding) >= TOTAL_BITS
  BY DEF FullAfterReboot
<1> HIDE DEF BlockBits, BlockCount, TOTAL_BITS, Padding, FullAfterReboot
<1>4. c \in Nat /\ BlockCount * BlockBits = before + BlockBits /\ before \in Nat
  BY <1>1
<1> HIDE DEF before
<1>5. lo \in Nat /\ lo >= 1 /\ lo <= BlockBits /\ TOTAL_BITS = before + lo
  BY <1>1, <1>4
<1> HIDE DEF lo
<1>6. lo \in Int /\ BlockBits - 1 \in Int
  BY <1>1, <1>5
<1>7. /\ IsFiniteSet(lo .. BlockBits - 1)
      /\ Cardinality(lo .. BlockBits - 1)
           = IF lo > BlockBits - 1 THEN 0 ELSE BlockBits - 1 - lo + 1
  BY <1>6, FS_Interval
<1>8. IsFiniteSet(Padding) /\ Cardinality(Padding) = BlockBits - lo
  BY <1>1, <1>2, <1>5, <1>7
<1>9. FullAfterReboot => BlockCount = 1
  <2> SUFFICES ASSUME FullAfterReboot, BlockCount # 1 PROVE FALSE
    OBVIOUS
  <2>1. c >= 1
    BY <1>1
  <2>2. before >= BlockBits
    <3> HIDE DEF c
    <3>1. c * BlockBits >= BlockBits
      BY <1>1, <1>4, <2>1
    <3> QED BY <3>1 DEF before
  <2> QED BY <1>1, <1>3, <1>4, <1>5, <1>8, <2>2
<1> QED BY <1>1, <1>5, <1>8, <1>9

LEMMA OnCount ==
    ASSUME shape \in Shapes, NEW S \in SUBSET Bits
    PROVE  /\ IsFiniteSet(S) /\ Cardinality(S) \in Nat /\ Cardinality(S) <= TOTAL_BITS
           /\ Cardinality(S) >= TOTAL_BITS => S = Bits
<1>1. TOTAL_BITS \in Nat /\ IsFiniteSet(Bits) /\ Cardinality(Bits) = TOTAL_BITS
  BY Geometry, BitsCount
<1>2. IsFiniteSet(S) /\ Cardinality(S) <= TOTAL_BITS /\ (Cardinality(S) = TOTAL_BITS => S = Bits)
  BY <1>1, FS_Subset
<1>3. Cardinality(S) \in Nat
  BY <1>2, FS_CardinalityType
<1> HIDE DEF TOTAL_BITS
<1> QED BY <1>1, <1>2, <1>3

(* A bitmap of one block is all in memory.                                 *)
LEMMA OneBlockInMemory ==
    ASSUME shape \in Shapes, NEW s, Sane(s), BlockCount = 1, NEW bit \in Bits
    PROVE  Offset(bit) \in s.bm.block <=> bit \in On(s)
<1>1. bit_to_block(bit) = 0 /\ s.bm.block_index = 0
  BY Place DEF BlockNumbers, Sane, Images
<1>2. Written(s)[0] = s.bm.block
  BY <1>1, WrittenType DEF Sane
<1> QED BY <1>1, <1>2 DEF On

-----------------------------------------------------------------------------
(* fs_data_alloc_block keeps the invariant, when it finds a bit ...        *)
LEMMA AllocKeepsGood ==
    ASSUME shape \in Shapes, NEW s, NEW h, NEW r, Good(s, h, r),
           NEW found, found = find_free_bit(s), NEW bit \in found.bit
    PROVE  bit \in Bits /\ Good(set(found.s, bit), [h EXCEPT ![bit] = @ + 1], r)
<1> DEFINE t == found.s
           u == set(t, bit)
           h2 == [h EXCEPT ![bit] = @ + 1]
<1>1. /\ Sane(s) /\ h \in [Bits -> Nat] /\ r \in Nat
      /\ r = 0 \/ FullAfterReboot => \A b \in Bits : h[b] <= 1
      /\ r = 0 => Owned(h) \subseteq On(s)
      /\ r = 0 \/ BlockCount = 1 =>
            s.bm.used_bits = Cardinality(On(s)) + (IF r = 0 THEN 0 ELSE Cardinality(Padding))
      /\ r = 0 /\ BlockCount = 1 => On(s) \subseteq Owned(h)
  BY DEF Good
<1>2. /\ Sane(t) /\ On(t) = On(s) /\ t.bm.used_bits = s.bm.used_bits
      /\ bit \in ClearBits(t) /\ ~ (s.bm.used_bits >= TOTAL_BITS)
  BY <1>1, Search
<1>3. bit \in Bits /\ bit_to_block(bit) = t.bm.block_index /\ Offset(bit) \notin t.bm.block
  BY <1>2 DEF ClearBits
<1> HIDE DEF t, u
<1>4. /\ Sane(u) /\ u.bm.used_bits = s.bm.used_bits + 1
      /\ On(u) = On(s) \cup {bit} /\ bit \notin On(s)
  BY <1>2, <1>3, SetBit DEF u
<1>5. On(s) \in SUBSET Bits
  BY DEF On
<1>6. /\ IsFiniteSet(On(s)) /\ Cardinality(On(s)) \in Nat
      /\ Cardinality(On(s)) <= TOTAL_BITS
  BY <1>5, OnCount
<1>7. Cardinality(On(u)) = Cardinality(On(s)) + 1
  BY <1>4, <1>6, FS_AddElement
<1>8. Cardinality(Padding) \in Nat /\ (FullAfterReboot => BlockCount = 1)
  BY PaddingCount
<1>9. TOTAL_BITS \in Nat /\ s.bm.used_bits \in Nat
  BY <1>1, Geometry DEF Sane, Images
<1>10. h2 \in [Bits -> Nat]
  BY <1>1, <1>3
<1>11. Owned(h2) = Owned(h) \cup {bit}
  BY <1>1, <1>3 DEF Owned
<1>12. r = 0 => h[bit] = 0
  BY <1>1, <1>3, <1>4 DEF Owned
<1>13. ~ (r # 0 /\ FullAfterReboot)
  <2> SUFFICES ASSUME r # 0, FullAfterReboot PROVE FALSE
    OBVIOUS
  <2>1. s.bm.used_bits = Cardinality(On(s)) + Cardinality(Padding)
    BY <1>1, <1>8
  <2>2. Cardinality(Padding) >= TOTAL_BITS
    BY DEF FullAfterReboot
  <2> HIDE DEF TOTAL_BITS, Padding
  <2> QED BY <1>2, <1>6, <1>8, <1>9, <2>1, <2>2
<1>14. r = 0 \/ FullAfterReboot => \A b \in Bits : h2[b] <= 1
  <2> SUFFICES ASSUME r = 0, NEW b \in Bits PROVE h2[b] <= 1
    BY <1>13
  <2> QED BY <1>1, <1>3, <1>12
<1> HIDE DEF h2
<1>15. r = 0 => Owned(h2) \subseteq On(u)
  BY <1>1, <1>4, <1>11
<1>16. r = 0 \/ BlockCount = 1 =>
         u.bm.used_bits = Cardinality(On(u)) + (IF r = 0 THEN 0 ELSE Cardinality(Padding))
  <2>1. CASE r = 0
    BY <1>1, <1>4, <1>6, <1>7, <2>1
  <2>2. CASE r # 0 /\ BlockCount = 1
    <3>1. s.bm.used_bits = Cardinality(On(s)) + Cardinality(Padding)
      BY <1>1, <2>2
    <3>2. u.bm.used_bits = Cardinality(On(u)) + Cardinality(Padding)
      BY <1>4, <1>6, <1>7, <1>8, <3>1
    <3> QED BY <2>2, <3>2
  <2> QED BY <2>1, <2>2
<1>17. r = 0 /\ BlockCount = 1 => On(u) \subseteq Owned(h2)
  BY <1>1, <1>4, <1>11
<1>18. Good(u, h2, r)
  BY <1>1, <1>4, <1>10, <1>14, <1>15, <1>16, <1>17 DEF Good
<1> QED BY <1>3, <1>18 DEF t, u, h2

(* ... and when it finds none.                                             *)
LEMMA FailureKeepsGood ==
    ASSUME shape \in Shapes, NEW s, NEW h, NEW r, Good(s, h, r),
           NEW t, Sane(t), On(t) = On(s), t.bm.used_bits = s.bm.used_bits
    PROVE  Good(t, h, r)
  BY DEF Good

(* fs_data_free_block keeps the invariant, whether or not the block in     *)
(* memory hides the bit.                                                   *)
LEMMA FreeKeepsGood ==
    ASSUME shape \in Shapes, NEW s, NEW h, NEW r, Good(s, h, r),
           NEW bit \in Bits, h[bit] > 0
    PROVE  Good(unset(s, bit), [h EXCEPT ![bit] = @ - 1], r)
<1> DEFINE u == unset(s, bit)
           h2 == [h EXCEPT ![bit] = @ - 1]
<1>1. /\ Sane(s) /\ h \in [Bits -> Nat] /\ r \in Nat
      /\ r = 0 \/ FullAfterReboot => \A b \in Bits : h[b] <= 1
      /\ r = 0 => Owned(h) \subseteq On(s)
      /\ r = 0 \/ BlockCount = 1 =>
            s.bm.used_bits = Cardinality(On(s)) + (IF r = 0 THEN 0 ELSE Cardinality(Padding))
      /\ r = 0 /\ BlockCount = 1 => On(s) \subseteq Owned(h)
  BY DEF Good
<1>2. /\ SIZE_T \in Nat \ {0} /\ TOTAL_BITS \in Nat /\ BlockBits \in Nat
      /\ BlockBits + TOTAL_BITS < SIZE_T
  BY Geometry
<1>3. s.bm.used_bits \in Nat
  BY <1>1 DEF Sane, Images
<1>4. Less(s.bm.used_bits) \in Nat
  BY <1>2, <1>3, CountDown
<1>5. bit \in Owned(h)
  BY DEF Owned
<1>6. h2 \in [Bits -> Nat] /\ \A b \in Bits : h2[b] <= h[b]
  BY <1>1
<1>7. r = 0 \/ FullAfterReboot => \A b \in Bits : h2[b] <= 1
  <2> SUFFICES ASSUME r = 0 \/ FullAfterReboot, NEW b \in Bits PROVE h2[b] <= 1
    OBVIOUS
  <2> HIDE DEF h2
  <2>1. h[b] <= 1 /\ h2[b] <= h[b] /\ h[b] \in Nat /\ h2[b] \in Nat
    BY <1>1, <1>6
  <2> QED BY <2>1
<1>8. Owned(h2) \subseteq Owned(h) /\ Owned(h) \ {bit} \subseteq Owned(h2)
  BY <1>1, <1>6 DEF Owned
<1>9. r = 0 => bit \notin Owned(h2)
  BY <1>1 DEF Owned
<1> HIDE DEF u, h2
<1>10. CASE u = s /\ Offset(bit) \notin s.bm.block
  <2>1. ~ (r = 0 /\ BlockCount = 1)
    BY <1>1, <1>5, <1>10, OneBlockInMemory
  <2>2. Good(s, h2, r)
    BY <1>1, <1>6, <1>7, <1>8, <2>1 DEF Good
  <2> QED BY <1>10, <2>2 DEF u, h2
<1>11. CASE /\ Sane(u) /\ Offset(bit) \in s.bm.block
            /\ u.bm.used_bits = Less(s.bm.used_bits)
            /\ On(u) = On(s) \ {bit}
  <2>1. On(s) \in SUBSET Bits
    BY DEF On
  <2>2. /\ IsFiniteSet(On(s)) /\ Cardinality(On(s)) \in Nat
        /\ Cardinality(On(s)) <= TOTAL_BITS
    BY <2>1, OnCount
  <2>3. r = 0 => Owned(h2) \subseteq On(u)
    BY <1>1, <1>8, <1>9, <1>11
  <2>4. r = 0 \/ BlockCount = 1 => bit \in On(s)
    BY <1>1, <1>5, <1>11, OneBlockInMemory
  <2>5. bit \in On(s) => Cardinality(On(u)) = Cardinality(On(s)) - 1 /\ Cardinality(On(s)) # 0
    <3>1. bit \in On(s) => Cardinality(On(s)) # 0
      BY <2>2, FS_EmptySet
    <3> QED BY <1>11, <2>2, <3>1, FS_RemoveElement
  <2>6. Cardinality(Padding) \in Nat /\ Cardinality(Padding) < BlockBits
    BY PaddingCount
  <2>7. r = 0 \/ BlockCount = 1 =>
          u.bm.used_bits = Cardinality(On(u)) + (IF r = 0 THEN 0 ELSE Cardinality(Padding))
    <3> DEFINE pad == IF r = 0 THEN 0 ELSE Cardinality(Padding)
               n == s.bm.used_bits
    <3> SUFFICES ASSUME r = 0 \/ BlockCount = 1
                 PROVE  u.bm.used_bits = Cardinality(On(u)) + pad
      OBVIOUS
    <3>1. pad \in Nat /\ pad <= BlockBits
      BY <1>2, <2>6
    <3>2. n = Cardinality(On(s)) + pad
      BY <1>1
    <3>3. Cardinality(On(u)) = Cardinality(On(s)) - 1 /\ Cardinality(On(s)) # 0
      BY <2>4, <2>5
    <3> HIDE DEF pad, n, TOTAL_BITS, BlockBits
    <3>4. n \in Nat /\ n # 0 /\ n < SIZE_T
      BY <1>2, <2>2, <3>1, <3>2, <3>3
    <3>5. Less(n) = n - 1
      BY <1>2, <3>4, CountDown
    <3>6. u.bm.used_bits = Less(n)
      BY <1>11 DEF n
    <3> QED BY <2>2, <3>1, <3>2, <3>3, <3>5, <3>6
  <2>8. r = 0 /\ BlockCount = 1 => On(u) \subseteq Owned(h2)
    BY <1>1, <1>8, <1>11
  <2>9. Good(u, h2, r)
    BY <1>1, <1>6, <1>7, <1>11, <2>3, <2>7, <2>8 DEF Good
  <2> QED BY <2>9 DEF u, h2
<1> QED BY <1>1, <1>4, <1>10, <1>11, UnsetBit DEF u

(* The flush and the load with which fs_data_load ends the formatting are  *)
(* a load of block 0, and change no bit.                                   *)
LEMMA LoadKeepsGood ==
    ASSUME shape \in Shapes, NEW s, NEW h, NEW r, Good(s, h, r)
    PROVE  Good(load(flush(s), TRUE), h, r)
<1> DEFINE W == Written(s)
           f == flush(s)
           t == load(f, TRUE)
           u == [disk |-> W,
                 bm |-> [block |-> W[0], block_index |-> 0,
                         dirty |-> FALSE, used_bits |-> s.bm.used_bits]]
<1>1. s \in Images /\ Clean(s) /\ PaddingStays(s)
  BY DEF Good, Sane
<1>2. W \in [BlockNumbers -> SUBSET Offsets]
  BY <1>1, WrittenType
<1>3. 0 \in BlockNumbers
  BY Geometry DEF BlockNumbers
<1>4. f = [s EXCEPT !.disk = W, !.bm.dirty = FALSE]
  BY DEF flush
<1>5. t = [f EXCEPT !.bm.block = f.disk[0], !.bm.block_index = 0, !.bm.dirty = FALSE]
  BY DEF load
<1> HIDE DEF W, f, t
<1>6. f \in Images /\ f.disk = W /\ f.bm.used_bits = s.bm.used_bits
  BY <1>1, <1>2, <1>4 DEF Images
<1>7. t = [disk |-> f.disk,
           bm |-> [block |-> f.disk[0], block_index |-> 0,
                   dirty |-> FALSE, used_bits |-> f.bm.used_bits]]
  BY <1>5, <1>6 DEF Images
<1>8. t = u
  BY <1>6, <1>7
<1>9. u \in Images
  BY <1>1, <1>2, <1>3 DEF Images
<1>10. Written(u) = W /\ u.disk = W
  BY DEF Written
<1>11. Clean(u) /\ PaddingStays(u)
  BY <1>1, <1>10 DEF Clean, PaddingStays, W
<1>12. u.bm.used_bits = s.bm.used_bits
  OBVIOUS
<1> HIDE DEF u
<1>13. Sane(t) /\ On(t) = On(s) /\ t.bm.used_bits = s.bm.used_bits
  BY <1>8, <1>9, <1>10, <1>11, <1>12 DEF Sane, On, W
<1> QED BY <1>13, FailureKeepsGood DEF t, f

(* What fs_data_load counts on a disk of one block.                        *)
LEMMA SetOnDiskCount ==
    ASSUME shape \in Shapes, NEW s, Sane(s)
    PROVE  /\ Cardinality(SetOnDisk(s)) \in Nat
           /\ BlockCount = 1 => Cardinality(SetOnDisk(s)) = Cardinality(s.disk[0])
<1>1. s.disk \in [BlockNumbers -> SUBSET Offsets]
  BY DEF Sane, Images
<1>2. /\ BlockBits \in Nat \ {0} /\ BlockCount \in Nat \ {0}
  BY Geometry
<1>3. IsFiniteSet(Offsets) /\ IsFiniteSet(BlockNumbers)
  <2>1. 0 \in Int /\ BlockBits - 1 \in Int /\ BlockCount - 1 \in Int
    BY <1>2
  <2> QED BY <2>1, FS_Interval DEF Offsets, BlockNumbers
<1>4. IsFiniteSet(BlockNumbers \X Offsets)
  BY <1>3, FS_Product
<1>5. SetOnDisk(s) \subseteq BlockNumbers \X Offsets
  <2> SUFFICES ASSUME NEW p \in SetOnDisk(s) PROVE p \in BlockNumbers \X Offsets
    OBVIOUS
  <2>1. PICK b \in BlockNumbers : p \in {b} \X s.disk[b]
    BY DEF SetOnDisk, BlockNumbers
  <2>2. s.disk[b] \subseteq Offsets
    BY <1>1
  <2> QED BY <2>1, <2>2
<1>6. Cardinality(SetOnDisk(s)) \in Nat
  BY <1>4, <1>5, FS_Subset, FS_CardinalityType
<1>7. ASSUME BlockCount = 1 PROVE Cardinality(SetOnDisk(s)) = Cardinality(s.disk[0])
  <2>1. 0 .. BlockCount - 1 = {0}
    BY <1>7
  <2>2. SetOnDisk(s) = {0} \X s.disk[0]
    BY <2>1 DEF SetOnDisk
  <2>3. 0 \in BlockNumbers
    BY <2>1 DEF BlockNumbers
  <2>4. IsFiniteSet(s.disk[0]) /\ Cardinality(s.disk[0]) \in Nat
    BY <1>1, <1>3, <2>3, FS_Subset, FS_CardinalityType
  <2>5. IsFiniteSet({0}) /\ Cardinality({0}) = 1
    BY FS_Singleton
  <2>6. Cardinality({0} \X s.disk[0]) = Cardinality({0}) * Cardinality(s.disk[0])
    BY <2>4, <2>5, FS_Product
  <2> QED BY <2>2, <2>4, <2>5, <2>6
<1> QED BY <1>6, <1>7

(* Every bit and the padding of a bitmap of one block.                     *)
LEMMA OneBlockOnDisk ==
    ASSUME shape \in Shapes, BlockCount = 1, NEW D \in SUBSET Offsets, Padding \subseteq D,
           NEW S, S = {bit \in Bits : Offset(bit) \in D}
    PROVE  Cardinality(D) = Cardinality(S) + Cardinality(Padding)
<1>1. /\ BlockBits \in Nat \ {0} /\ TOTAL_BITS \in Nat \ {0}
      /\ TOTAL_BITS <= BlockCount * BlockBits
  BY Geometry
<1>2. Padding = TOTAL_BITS .. BlockBits - 1
  BY <1>1 DEF Padding
<1>3. ASSUME NEW bit \in Bits PROVE Offset(bit) = bit /\ bit \in Offsets
  <2>1. /\ bit_to_block(bit) = 0 /\ Offset(bit) \in Offsets
        /\ bit = BlockBits * bit_to_block(bit) + Offset(bit)
    BY Place DEF BlockNumbers
  <2>2. BlockBits * 0 = 0 /\ Offset(bit) \in Nat
    BY <1>1, <2>1 DEF Offsets
  <2>3. Offset(bit) = bit
    BY <2>1, <2>2
  <2> QED BY <2>1, <2>3
<1>4. S = {bit \in Bits : bit \in D}
  BY <1>3
<1>5. D = S \cup Padding /\ S \cap Padding = {}
  <2>1. Bits = 0 .. TOTAL_BITS - 1 /\ D \subseteq 0 .. BlockBits - 1
    BY DEF Bits, Offsets
  <2> HIDE DEF TOTAL_BITS, BlockBits, Bits, Padding
  <2>2. S \cap Padding = {}
    BY <1>1, <1>2, <1>4, <2>1
  <2>3. S \subseteq D
    BY <1>4
  <2>4. D \subseteq S \cup Padding
    <3> SUFFICES ASSUME NEW x \in D PROVE x \in S \/ x \in Padding
      OBVIOUS
    <3>1. x \in 0 .. BlockBits - 1
      BY <2>1
    <3> QED BY <1>1, <1>2, <1>4, <2>1, <3>1
  <2> QED BY <2>2, <2>3, <2>4
<1>6. S \in SUBSET Bits
  BY <1>4
<1>7. /\ IsFiniteSet(S) /\ Cardinality(S) \in Nat
      /\ IsFiniteSet(Padding) /\ Cardinality(Padding) \in Nat
  BY <1>6, OnCount, PaddingCount
<1> HIDE DEF Padding
<1>8. Cardinality(S \cup Padding)
        = Cardinality(S) + Cardinality(Padding) - Cardinality(S \cap Padding)
  BY <1>7, FS_Union
<1>9. Cardinality(S \cap Padding) = 0
  <2>1. S \cap Padding = {} /\ Cardinality({}) = 0
    BY <1>5, FS_EmptySet
  <2> QED BY <2>1, Zenon
<1>10. Cardinality(D) = Cardinality(S \cup Padding)
  BY <1>5, Zenon
<1> QED BY <1>7, <1>8, <1>9, <1>10

(* A reboot keeps the invariant: what was in memory is lost, the counter   *)
(* is made from the disk, padding included, and no block gets an owner.    *)
LEMMA RebootKeepsGood ==
    ASSUME shape \in Shapes, NEW s, NEW h, NEW r, Good(s, h, r),
           NEW h2 \in [Bits -> Nat], \A bit \in Bits : h2[bit] <= h[bit]
    PROVE  Good(load(s, FALSE), h2, r + 1)
<1> DEFINE n == Cardinality(SetOnDisk(s))
           last == BlockCount - 1
           t == load(s, FALSE)
           u == [disk |-> s.disk,
                 bm |-> [block |-> s.disk[last], block_index |-> last,
                         dirty |-> FALSE, used_bits |-> n]]
<1>1. /\ s \in Images /\ PaddingStays(s) /\ h \in [Bits -> Nat] /\ r \in Nat
      /\ r = 0 \/ FullAfterReboot => \A b \in Bits : h[b] <= 1
      /\ Sane(s)
  BY DEF Good, Sane
<1>2. last \in BlockNumbers
  BY Geometry DEF BlockNumbers
<1>3. s.disk \in [BlockNumbers -> SUBSET Offsets]
  BY <1>1 DEF Images
<1>4. n \in Nat
  BY <1>1, SetOnDiskCount
<1>5. t = [s EXCEPT !.bm = u.bm]
  BY DEF load
<1> HIDE DEF n, last, t
<1>6. t = u
  BY <1>1, <1>5 DEF Images
<1>7. u \in Images
  BY <1>2, <1>3, <1>4 DEF Images
<1>8. Written(u) = s.disk /\ u.disk = s.disk /\ u.bm.used_bits = n
  BY DEF Written
<1>9. Clean(u)
  BY DEF Clean
<1> HIDE DEF u
<1>10. PaddingStays(u)
  BY <1>1, <1>8 DEF PaddingStays
<1>11. Sane(u)
  BY <1>7, <1>9, <1>10 DEF Sane
<1>12. r + 1 \in Nat /\ r + 1 # 0
  BY <1>1
<1>13. FullAfterReboot => \A b \in Bits : h2[b] <= 1
  <2> SUFFICES ASSUME FullAfterReboot, NEW b \in Bits PROVE h2[b] <= 1
    OBVIOUS
  <2>1. h[b] \in Nat /\ h2[b] \in Nat /\ h[b] <= 1 /\ h2[b] <= h[b]
    BY <1>1
  <2> QED BY <2>1
<1>14. BlockCount = 1 => u.bm.used_bits = Cardinality(On(u)) + Cardinality(Padding)
  <2> SUFFICES ASSUME BlockCount = 1
               PROVE  u.bm.used_bits = Cardinality(On(u)) + Cardinality(Padding)
    OBVIOUS
  <2>1. n = Cardinality(s.disk[0])
    BY <1>1, SetOnDiskCount DEF n
  <2>2. 0 \in BlockNumbers /\ \A bit \in Bits : bit_to_block(bit) = 0
    BY Place DEF BlockNumbers
  <2>3. s.disk[0] \in SUBSET Offsets /\ Padding \subseteq s.disk[0]
    BY <1>1, <1>3, <2>2 DEF PaddingStays
  <2>4. On(u) = {bit \in Bits : Offset(bit) \in s.disk[0]}
    BY <1>8, <2>2 DEF On
  <2>5. Cardinality(s.disk[0]) = Cardinality(On(u)) + Cardinality(Padding)
    BY <2>3, <2>4, OneBlockOnDisk
  <2> QED BY <1>8, <2>1, <2>5
<1>15. Good(u, h2, r + 1)
  BY <1>11, <1>12, <1>13, <1>14 DEF Good
<1> QED BY <1>6, <1>15 DEF t

-----------------------------------------------------------------------------
(* A bitmap that was just made (bitmap_disk_init): only the padding is set.*)
LEMMA BitmapInitIInv == Init => BitmapIInv
<1> SUFFICES ASSUME Init PROVE BitmapIInv
  OBVIOUS
<1> DEFINE last == BlockCount - 1
           s == State
<1>1. /\ shape \in Shapes
      /\ disk = [b \in BlockNumbers |-> IF b = last THEN Padding ELSE {}]
      /\ bitmap = [block |-> disk[0], block_index |-> 0, dirty |-> FALSE, used_bits |-> 0]
      /\ reboots = 0
      /\ holders = [bit \in Bits |-> 0]
  BY DEF Init, BlockNumbers
<1>2. last \in BlockNumbers /\ 0 \in BlockNumbers
  BY <1>1, Geometry DEF BlockNumbers
<1>3. Padding \subseteq Offsets
  <2>1. /\ BlockBits \in Nat \ {0} /\ TOTAL_BITS \in Nat \ {0} /\ BlockCount \in Nat \ {0}
        /\ (BlockCount - 1) * BlockBits < TOTAL_BITS
    BY <1>1, Geometry
  <2> DEFINE before == (BlockCount - 1) * BlockBits
  <2>2. Padding = TOTAL_BITS - before .. BlockBits - 1
    BY DEF Padding
  <2>3. Offsets = 0 .. BlockBits - 1
    BY DEF Offsets
  <2> HIDE DEF TOTAL_BITS, BlockBits, BlockCount
  <2>4. before \in Nat
    BY <2>1
  <2> HIDE DEF before
  <2>5. TOTAL_BITS - before \in Nat
    BY <2>1, <2>4 DEF before
  <2> QED BY <2>1, <2>2, <2>3, <2>5
<1> HIDE DEF last
<1>4. disk \in [BlockNumbers -> SUBSET Offsets]
  BY <1>1, <1>3
<1>5. s.disk = disk /\ s.bm = bitmap /\ Written(s) = disk
  BY <1>1 DEF State, Written
<1>6. s \in Images
  BY <1>1, <1>2, <1>4 DEF State, Images
<1>7. Clean(s)
  BY <1>1, <1>5 DEF Clean
<1>8. disk[last] = Padding
  BY <1>1, <1>2
<1> HIDE DEF s
<1>9. Sane(s)
  BY <1>5, <1>6, <1>7, <1>8 DEF Sane, PaddingStays, last
<1>10. On(s) = {}
  <2> SUFFICES ASSUME NEW bit \in Bits, Offset(bit) \in disk[bit_to_block(bit)] PROVE FALSE
    BY <1>5 DEF On
  <2>1. bit_to_block(bit) \in BlockNumbers
    BY <1>1, Place
  <2>2. bit_to_block(bit) = last /\ Offset(bit) \in Padding
    BY <1>1, <2>1
  <2> QED BY <1>1, <2>2, NotPadding DEF last
<1>11. s.bm.used_bits = Cardinality(On(s))
  <2>1. Cardinality({}) = 0 /\ s.bm.used_bits = 0
    BY <1>1, <1>5, FS_EmptySet
  <2> QED BY <1>10, <2>1, Zenon
<1>12. Owned(holders) = {}
  BY <1>1 DEF Owned
<1>13. holders \in [Bits -> Nat] /\ \A bit \in Bits : holders[bit] <= 1
  BY <1>1
<1>14. /\ 0 = 0 => Owned(holders) \subseteq On(s)
       /\ s.bm.used_bits = Cardinality(On(s)) + (IF 0 = 0 THEN 0 ELSE Cardinality(Padding))
       /\ On(s) \subseteq Owned(holders)
  <2>1. Cardinality({}) = 0
    BY FS_EmptySet
  <2>2. Cardinality(On(s)) = 0
    BY <1>10, <2>1, Zenon
  <2> QED BY <1>10, <1>11, <1>12, <2>2
<1>15. Good(s, holders, 0)
  BY <1>9, <1>13, <1>14 DEF Good
<1> QED BY <1>1, <1>15 DEF BitmapIInv, s

(* No step changes the sizes of the bitmap, so what holds of the new state *)
(* by the old sizes holds by the new ones.                                 *)
LEMMA ShapeStays ==
    ASSUME shape \in Shapes, shape' = shape, Good(State', holders', reboots')
    PROVE  BitmapIInv'
  BY DEF BitmapIInv, Good, Sane, Images, Clean, PaddingStays, On, Owned, Written, BlockNumbers, Offsets,
         BlockCount, BlockBits, BLOCK_BYTES, TOTAL_BITS, Bits, Offset, bit_to_block, Padding,
         FullAfterReboot, State

(* No operation breaks the invariant.                                      *)
LEMMA BitmapNextPreserves == BitmapIInv /\ [Next]_vars => BitmapIInv'
<1> SUFFICES ASSUME BitmapIInv, [Next]_vars PROVE BitmapIInv'
  OBVIOUS
<1>0. shape \in Shapes /\ Good(State, holders, reboots)
  BY DEF BitmapIInv
<1>1. ASSUME NEW s, Become(s), Good(s, holders', reboots'), shape' = shape,
             s = [disk |-> s.disk, bm |-> s.bm]
      PROVE  BitmapIInv'
  <2>1. State' = s
    BY <1>1 DEF State, Become
  <2> QED BY <1>0, <1>1, <2>1, ShapeStays
<1>2. ASSUME NEW s, NEW h, NEW r, Good(s, h, r)
      PROVE  s = [disk |-> s.disk, bm |-> s.bm]
  BY <1>2 DEF Good, Sane, Images
<1>3. CASE fs_data_alloc_block
  <2> DEFINE found == find_free_bit(State)
  <2>1. /\ IF found.bit = {} THEN Become(found.s) /\ holders' = holders
           ELSE \E bit \in found.bit :
                   /\ Become(set(found.s, bit))
                   /\ holders' = [holders EXCEPT ![bit] = @ + 1]
        /\ shape' = shape /\ reboots' = reboots
    BY <1>3 DEF fs_data_alloc_block
  <2> HIDE DEF found
  <2>2. CASE found.bit = {}
    <3>1. Become(found.s) /\ holders' = holders
      BY <2>1, <2>2
    <3>2. Sane(State)
      BY <1>0 DEF Good
    <3>3. Good(found.s, holders, reboots)
      BY <1>0, <3>2, Search, FailureKeepsGood DEF found
    <3> QED BY <1>1, <1>2, <2>1, <3>1, <3>3
  <2>3. CASE found.bit # {}
    <3>1. PICK bit \in found.bit : /\ Become(set(found.s, bit))
                                   /\ holders' = [holders EXCEPT ![bit] = @ + 1]
      BY <2>1, <2>3
    <3>2. Good(set(found.s, bit), [holders EXCEPT ![bit] = @ + 1], reboots)
      BY <1>0, AllocKeepsGood DEF found
    <3> QED BY <1>1, <1>2, <2>1, <3>1, <3>2
  <2> QED BY <2>2, <2>3
<1>4. ASSUME NEW bit \in Bits, fs_data_free_block(bit) PROVE BitmapIInv'
  <2>1. /\ holders[bit] > 0 /\ Become(unset(State, bit))
        /\ holders' = [holders EXCEPT ![bit] = @ - 1]
        /\ shape' = shape /\ reboots' = reboots
    BY <1>4 DEF fs_data_free_block
  <2>2. Good(unset(State, bit), [holders EXCEPT ![bit] = @ - 1], reboots)
    BY <1>0, <2>1, FreeKeepsGood
  <2> QED BY <1>1, <1>2, <2>1, <2>2
<1>5. CASE fs_data_load
  <2>1. Become(load(flush(State), TRUE)) /\ UNCHANGED <<shape, reboots, holders>>
    BY <1>5 DEF fs_data_load
  <2>2. Good(load(flush(State), TRUE), holders, reboots)
    BY <1>0, LoadKeepsGood
  <2> QED BY <1>1, <1>2, <2>1, <2>2
<1>6. CASE Reboot
  <2>1. PICK kept \in SUBSET Bits :
           holders' = [bit \in Bits |-> IF bit \in kept THEN holders[bit] ELSE 0]
    BY <1>6 DEF Reboot
  <2>2. Become(load(State, FALSE)) /\ shape' = shape /\ reboots' = reboots + 1
    BY <1>6 DEF Reboot
  <2>3. holders \in [Bits -> Nat]
    BY <1>0 DEF Good
  <2>4. holders' \in [Bits -> Nat] /\ \A bit \in Bits : holders'[bit] <= holders[bit]
    BY <2>1, <2>3
  <2>5. Good(load(State, FALSE), holders', reboots + 1)
    BY <1>0, <2>4, RebootKeepsGood
  <2> QED BY <1>1, <1>2, <2>2, <2>5
<1>7. CASE UNCHANGED vars
  <2>1. State' = State /\ shape' = shape /\ holders' = holders /\ reboots' = reboots
    BY <1>7 DEF vars, State
  <2> QED BY <1>0, <2>1, ShapeStays
<1> QED BY <1>3, <1>4, <1>5, <1>6, <1>7 DEF Next

(* The disk, the bitmap and the owners fit together in every reachable     *)
(* state of bitmap.c and fs_data.c.                                        *)
THEOREM BitmapInvariance == Spec => []BitmapIInv
  BY BitmapInitIInv, BitmapNextPreserves, PTL DEF Spec

(* fs_data_alloc_block never gives a block to a second owner; if the       *)
(* padding outnumbers the bits, not even after a crash (bitmap_disk_load   *)
(* counts the padding as used, and nothing is allocated any more).         *)
THEOREM BlocksHaveOneOwner == Spec => []SingleOwner
<1>1. BitmapIInv => SingleOwner
  BY DEF BitmapIInv, Good, SingleOwner
<1> QED BY <1>1, BitmapInvariance, PTL

(* The bit of a held block is set in the newest copy of its bitmap block,  *)
(* however the blocks are swapped (bitmap_disk_load_block).                *)
THEOREM HeldStaysSet == Spec => []HeldBitsAreSet
<1>1. BitmapIInv => HeldBitsAreSet
  BY DEF BitmapIInv, Good, HeldBitsAreSet, Held, SetBits, Owned, On
<1> QED BY <1>1, BitmapInvariance, PTL

(* used_bits, changed by set and unset and made anew by a load, never      *)
(* drifts from the bits.                                                   *)
THEOREM CountStaysRight == Spec => []CountFollowsBits
<1>1. BitmapIInv => CountFollowsBits
  BY DEF BitmapIInv, Good, CountFollowsBits, SetBits, On, State
<1> QED BY <1>1, BitmapInvariance, PTL

(* bitmap_disk_find_free_bit, which starts at the block in memory and goes *)
(* round once, fails only when every bit is set.                           *)
THEOREM SearchFindsWhatIsFree == Spec => []FailsOnlyWhenFull
<1>1. BitmapIInv => FailsOnlyWhenFull
  <2> SUFFICES ASSUME BitmapIInv, reboots = 0, find_free_bit(State).bit = {} PROVE SetBits = Bits
    BY DEF FailsOnlyWhenFull
  <2>1. shape \in Shapes /\ Good(State, holders, reboots) /\ Sane(State)
    BY DEF BitmapIInv, Good
  <2>2. State.bm.used_bits >= TOTAL_BITS \/ On(State) = Bits
    BY <2>1, Search
  <2>3. State.bm.used_bits = Cardinality(On(State)) /\ On(State) \in SUBSET Bits
    <3>1. State.bm.used_bits = Cardinality(On(State)) + 0
      BY <2>1 DEF Good
    <3>2. On(State) \in SUBSET Bits
      BY DEF On
    <3> QED BY <2>1, <3>1, <3>2, OnCount
  <2>4. On(State) = Bits
    BY <2>1, <2>2, <2>3, OnCount
  <2> QED BY <2>4 DEF SetBits, On
<1> QED BY <1>1, BitmapInvariance, PTL

(* In a bitmap of one block a set bit always has its owner: what is given  *)
(* back can be given out again (bitmap_disk_unset).                        *)
THEOREM OneBlockLeaksNothing == Spec => []NothingLeaks
<1>1. BitmapIInv => NothingLeaks
  BY DEF BitmapIInv, Good, NothingLeaks, Held, SetBits, Owned, On
<1> QED BY <1>1, BitmapInvariance, PTL

==============================================================================

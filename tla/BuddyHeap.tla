----------------------------- MODULE BuddyHeap -----------------------------
(***************************************************************************)
(* What the kernel heap promises, without its lists: the heap is always    *)
(* cut into blocks, each free or live; heap_alloc cuts a free block of the *)
(* smallest order that is big enough into one block of the order asked for *)
(* and one buddy of each order in between, and heap_free makes a live      *)
(* block free.  Module Heap models src/os/mm/heap.c in detail and          *)
(* implements this one.                                                    *)
(*                                                                         *)
(* A block is a pair <<start, order>>; addresses are bytes.                *)
(***************************************************************************)
EXTENDS Integers

CONSTANTS
    MaxOrder,         \* HEAP_MAX_ORDER
    HeapStart,        \* HEAP_START
    Size              \* order -> bytes of a block: heap_order_to_size

VARIABLES free, live
hvars == <<free, live>>

Orders == 0 .. MaxOrder

ASSUME BuddyAssumption ==
    /\ MaxOrder \in Nat
    /\ HeapStart \in Nat
    /\ Size \in [Orders -> Nat \ {0}]
    /\ \A o \in Orders : o < MaxOrder => Size[o + 1] = 2 * Size[o]
    /\ \A o, p \in Orders : o < p => 2 * Size[o] <= Size[p]

(* Every offset past the smallest block lies in the upper half of some     *)
(* block that starts at zero.                                              *)
ASSUME HalvesAssumption ==
    \A d \in Size[0] .. (Size[MaxOrder] - 1) :
        \E o \in Orders : o < MaxOrder /\ Size[o] <= d /\ d < Size[o + 1]

HeapSize == Size[MaxOrder]
HeapRange == HeapStart .. (HeapStart + HeapSize - 1)
Bytes(b) == b[1] .. (b[1] + Size[b[2]] - 1)

(* Mutant of Pieces: the buddies lie one order too far away.               *)
MutPieces(b, order) ==
    {<<b[1], order>>} \cup {<<b[1] + Size[o + 1], o>> : o \in order .. (b[2] - 1)}

(* Mutant of Pieces: the buddies all lie one smallest piece away.          *)
MutPiecesFlat(b, order) ==
    {<<b[1], order>>} \cup {<<b[1] + Size[order], o>> : o \in order .. (b[2] - 1)}

(* A block cut down to an order: one block of that order at its start and  *)
(* the upper buddy of every order below its own.                           *)
Pieces(b, order) ==
    {<<b[1], order>>} \cup {<<b[1] + Size[o], o>> : o \in order .. (b[2] - 1)}

-----------------------------------------------------------------------------
(* heap_init: HEAP_SIZE is the size of one block of the top order.         *)
Init ==
    /\ free = {<<HeapStart, MaxOrder>>}
    /\ live = {}

(* heap_alloc with a size of this order.                                   *)
Alloc(order) ==
    \E b \in free :
        /\ b[2] >= order
        /\ \A c \in free : c[2] >= order => b[2] <= c[2]
        /\ \E new \in Pieces(b, order) :
              /\ new[2] = order
              /\ free' = (free \ {b}) \cup (Pieces(b, order) \ {new})
              /\ live' = live \cup {new}

(* heap_free.  Buddies are never joined again.                             *)
FreeBlock(b) ==
    /\ free' = free \cup {b}
    /\ live' = live \ {b}

Next ==
    \/ \E order \in Orders : Alloc(order)
    \/ \E b \in live : FreeBlock(b)

Spec == Init /\ [][Next]_hvars

-----------------------------------------------------------------------------
Blocks == free \cup live

TypeOK == Blocks \subseteq HeapRange \X Orders

(* No byte belongs to two blocks: a pointer heap_alloc returned is never   *)
(* inside another caller's block or inside a block still on a free list.   *)
Disjoint ==
    /\ free \cap live = {}
    /\ \A b, c \in Blocks : b # c => Bytes(b) \cap Bytes(c) = {}

(* No byte of the heap is ever lost: split and free keep every address in  *)
(* some block, and no block reaches outside HEAP_START .. HEAP_END.        *)
Covered == UNION {Bytes(b) : b \in Blocks} = HeapRange

=============================================================================

-------------------------- MODULE BuddyHeapProofs --------------------------
(***************************************************************************)
(* The blocks of the heap tile it, for every number of orders.             *)
(***************************************************************************)
EXTENDS BuddyHeap, TLAPS

(* Larger orders have larger blocks.                                       *)
LEMMA SizeMonotone ==
    ASSUME NEW o \in Orders, NEW p \in Orders, o <= p
    PROVE  /\ Size[o] \in Nat /\ Size[o] > 0 /\ Size[o] <= Size[p]
           /\ o < p => 2 * Size[o] <= Size[p]
<1>1. Size[o] \in Nat /\ Size[o] > 0 /\ Size[p] \in Nat
  BY BuddyAssumption
<1>2. CASE o = p
  BY <1>1, <1>2, BuddyAssumption DEF Orders
<1>3. CASE o < p
  BY <1>1, <1>3, BuddyAssumption
<1> QED BY <1>2, <1>3, BuddyAssumption DEF Orders

(* A piece is either the low block left at the start or an upper buddy.    *)
LEMMA PieceCases ==
    ASSUME NEW s \in Nat, NEW m \in Orders, NEW order \in Orders, order <= m,
           NEW x \in Pieces(<<s, m>>, order)
    PROVE  \/ x = <<s, order>>
           \/ \E o \in Orders : order <= o /\ o < m /\ x = <<s + Size[o], o>>
  BY BuddyAssumption DEF Pieces, Orders

(* Cutting a block gives pairs of an address and an order.                 *)
LEMMA PiecesTyped ==
    ASSUME NEW s \in Nat, NEW m \in Orders, NEW order \in Orders, order <= m
    PROVE  Pieces(<<s, m>>, order) \subseteq Nat \X Orders
<1> SUFFICES ASSUME NEW x \in Pieces(<<s, m>>, order) PROVE x \in Nat \X Orders
  OBVIOUS
<1>1. CASE x = <<s, order>>
  BY <1>1
<1>2. ASSUME NEW o \in Orders, x = <<s + Size[o], o>> PROVE x \in Nat \X Orders
  BY <1>2, SizeMonotone DEF Orders
<1> QED BY <1>1, <1>2, PieceCases

(* Two pieces of one block share no byte.                                  *)
LEMMA PiecesDisjoint ==
    ASSUME NEW s \in Nat, NEW m \in Orders, NEW order \in Orders, order <= m,
           NEW x \in Pieces(<<s, m>>, order), NEW y \in Pieces(<<s, m>>, order),
           x # y
    PROVE  Bytes(x) \cap Bytes(y) = {}
<1>1. ASSUME NEW o \in Orders, order <= o
      PROVE  Bytes(<<s, order>>) \cap Bytes(<<s + Size[o], o>>) = {}
  <2>1. Size[order] \in Nat /\ Size[o] \in Nat /\ Size[order] <= Size[o]
    BY <1>1, SizeMonotone DEF Orders
  <2> QED BY <2>1 DEF Bytes
<1>2. ASSUME NEW o \in Orders, NEW p \in Orders, o < p
      PROVE  Bytes(<<s + Size[o], o>>) \cap Bytes(<<s + Size[p], p>>) = {}
  <2>1. Size[p] \in Nat /\ Size[o] \in Nat /\ 2 * Size[o] <= Size[p]
    BY <1>2, BuddyAssumption
  <2> QED BY <2>1 DEF Bytes
<1>3. CASE x = <<s, order>>
  BY <1>1, <1>3, PieceCases
<1>4. CASE y = <<s, order>>
  BY <1>1, <1>4, PieceCases
<1>5. ASSUME NEW o \in Orders, x = <<s + Size[o], o>>,
             NEW p \in Orders, y = <<s + Size[p], p>>
      PROVE  Bytes(x) \cap Bytes(y) = {}
  <2>1. o < p \/ p < o
    BY <1>5, BuddyAssumption DEF Orders
  <2> QED BY <1>2, <1>5, <2>1
<1> QED BY <1>3, <1>4, <1>5, PieceCases

(* The pieces of a block hold the bytes of the block and no other.         *)
LEMMA PiecesCover ==
    ASSUME NEW s \in Nat, NEW m \in Orders, NEW order \in Orders, order <= m
    PROVE  UNION {Bytes(x) : x \in Pieces(<<s, m>>, order)} = Bytes(<<s, m>>)
<1> DEFINE ps == Pieces(<<s, m>>, order)
<1>0. Size[m] \in Nat /\ Size[order] \in Nat /\ Size[order] <= Size[m]
  BY SizeMonotone, BuddyAssumption
<1>1. ASSUME NEW x \in ps PROVE Bytes(x) \subseteq Bytes(<<s, m>>)
  <2>1. CASE x = <<s, order>>
    BY <1>0, <2>1 DEF Bytes
  <2>2. ASSUME NEW o \in Orders, o < m, x = <<s + Size[o], o>>
        PROVE  Bytes(x) \subseteq Bytes(<<s, m>>)
    <3>1. Size[o] \in Nat /\ 2 * Size[o] <= Size[m]
      BY <2>2, BuddyAssumption
    <3> QED BY <1>0, <2>2, <3>1 DEF Bytes
  <2> QED BY <2>1, <2>2, PieceCases
<1>2. ASSUME NEW a \in Bytes(<<s, m>>) PROVE \E x \in ps : a \in Bytes(x)
  <2> DEFINE d == a - s
  <2>1. a \in Nat /\ d \in Nat /\ d < Size[m] /\ a = s + d
    BY <1>0 DEF Bytes
  <2>2. CASE d < Size[order]
    <3>1. a \in Bytes(<<s, order>>)
      BY <1>0, <2>1, <2>2 DEF Bytes
    <3>2. <<s, order>> \in ps
      BY DEF Pieces
    <3> QED BY <3>1, <3>2
  <2>3. CASE Size[order] <= d
    <3>1. 0 \in Orders /\ MaxOrder \in Orders
      BY BuddyAssumption DEF Orders
    <3>2. Size[0] <= Size[order] /\ Size[m] <= Size[MaxOrder]
          /\ Size[0] \in Nat /\ Size[MaxOrder] \in Nat
      BY <3>1, SizeMonotone, BuddyAssumption DEF Orders
    <3>3. d \in Size[0] .. (Size[MaxOrder] - 1)
      BY <1>0, <2>1, <2>3, <3>2
    <3>4. PICK o \in Orders : o < MaxOrder /\ Size[o] <= d /\ d < Size[o + 1]
      BY <3>3, HalvesAssumption
    <3>5. o + 1 \in Orders /\ Size[o + 1] = 2 * Size[o] /\ Size[o] \in Nat
      BY <3>4, BuddyAssumption DEF Orders
    <3>6. order <= o
      <4>1. SUFFICES ASSUME o < order PROVE FALSE
        BY BuddyAssumption DEF Orders
      <4>2. 2 * Size[o] <= Size[order]
        BY <4>1, BuddyAssumption
      <4> QED BY <1>0, <2>1, <2>3, <3>4, <3>5, <4>2
    <3>7. o < m
      <4>1. SUFFICES ASSUME m <= o PROVE FALSE
        BY BuddyAssumption DEF Orders
      <4>2. Size[m] <= Size[o]
        BY <4>1, SizeMonotone
      <4> QED BY <1>0, <2>1, <3>4, <3>5, <4>2
    <3>8. <<s + Size[o], o>> \in ps
      <4>1. o \in order .. (m - 1)
        BY <3>6, <3>7, BuddyAssumption DEF Orders
      <4> QED BY <4>1 DEF Pieces
    <3>9. a \in Bytes(<<s + Size[o], o>>)
      BY <2>1, <3>4, <3>5 DEF Bytes
    <3> QED BY <3>8, <3>9
  <2> QED BY <1>0, <2>1, <2>2, <2>3
<1> QED BY <1>1, <1>2

(* A block holds at least one byte, so blocks that share none differ.      *)
LEMMA BytesNonEmpty ==
    ASSUME NEW x \in Nat \X Orders
    PROVE  x[1] \in Bytes(x)
<1>1. x[1] \in Nat /\ x[2] \in Orders
  OBVIOUS
<1>2. Size[x[2]] \in Nat /\ Size[x[2]] > 0
  BY <1>1, BuddyAssumption
<1> QED BY <1>1, <1>2 DEF Bytes

(***************************************************************************)
(* The inductive invariant: TypeOK and the tiling.  Covered alone is not   *)
(* inductive: that a cut block's bytes lie in no other block is Disjoint.  *)
(***************************************************************************)
IInv == TypeOK /\ Disjoint /\ Covered

(* heap_init leaves one block that is the whole heap.                      *)
LEMMA InitIInv == Init => IInv
<1> SUFFICES ASSUME Init PROVE IInv
  OBVIOUS
<1>1. Blocks = {<<HeapStart, MaxOrder>>}
  BY DEF Init, Blocks
<1>2. MaxOrder \in Orders /\ HeapStart \in HeapRange
  BY BuddyAssumption DEF Orders, HeapRange, HeapSize
<1>3. TypeOK
  BY <1>1, <1>2 DEF TypeOK
<1>4. Disjoint
  BY <1>1 DEF Disjoint, Init
<1>5. Covered
  <2>1. {Bytes(b) : b \in Blocks} = {Bytes(<<HeapStart, MaxOrder>>)}
    BY <1>1
  <2>2. Bytes(<<HeapStart, MaxOrder>>) = HeapRange
    BY DEF Bytes, HeapRange, HeapSize
  <2> QED BY <2>1, <2>2 DEF Covered
<1> QED BY <1>3, <1>4, <1>5 DEF IInv

(* Cutting a block in place keeps the blocks disjoint and covering.        *)
LEMMA CutKeepsTiling ==
    ASSUME NEW old, NEW b \in old, NEW order \in Orders, order <= b[2],
           old \subseteq Nat \X Orders,
           \A x, y \in old : x # y => Bytes(x) \cap Bytes(y) = {}
    PROVE  LET new == (old \ {b}) \cup Pieces(b, order)
           IN  /\ new \subseteq Nat \X Orders
               /\ \A x, y \in new : x # y => Bytes(x) \cap Bytes(y) = {}
               /\ UNION {Bytes(x) : x \in new} = UNION {Bytes(x) : x \in old}
<1> DEFINE ps == Pieces(b, order)
           new == (old \ {b}) \cup ps
<1>1. PICK s \in Nat, m \in Orders : b = <<s, m>> /\ order <= m
  OBVIOUS
<1>2. ps \subseteq Nat \X Orders
  BY <1>1, PiecesTyped
<1>3. UNION {Bytes(x) : x \in ps} = Bytes(b)
  BY <1>1, PiecesCover
<1>4. \A x, y \in ps : x # y => Bytes(x) \cap Bytes(y) = {}
  BY <1>1, PiecesDisjoint
<1>5. ASSUME NEW x \in old \ {b}, NEW y \in ps PROVE Bytes(x) \cap Bytes(y) = {}
  <2>1. Bytes(x) \cap Bytes(b) = {}
    OBVIOUS
  <2>2. Bytes(y) \subseteq Bytes(b)
    BY <1>3
  <2> QED BY <2>1, <2>2
<1>6. \A x, y \in new : x # y => Bytes(x) \cap Bytes(y) = {}
  BY <1>4, <1>5
<1>7. UNION {Bytes(x) : x \in new} = UNION {Bytes(x) : x \in old}
  BY <1>3
<1> QED BY <1>2, <1>6, <1>7

(* heap_alloc keeps the tiling: it cuts one free block in place.           *)
LEMMA AllocPreserves ==
    ASSUME NEW order \in Orders, IInv, Alloc(order)
    PROVE  IInv'
<1>1. PICK b \in free : /\ b[2] >= order
                        /\ \E new \in Pieces(b, order) :
                             /\ new[2] = order
                             /\ free' = (free \ {b}) \cup (Pieces(b, order) \ {new})
                             /\ live' = live \cup {new}
  BY DEF Alloc
<1>2. PICK new \in Pieces(b, order) :
         /\ free' = (free \ {b}) \cup (Pieces(b, order) \ {new})
         /\ live' = live \cup {new}
  BY <1>1
<1>3. Blocks' = (Blocks \ {b}) \cup Pieces(b, order)
  BY <1>1, <1>2 DEF IInv, Disjoint, Blocks
<1>4. b \in Blocks /\ b[2] \in Orders /\ order <= b[2] /\ Blocks \subseteq Nat \X Orders
  BY <1>1, BuddyAssumption DEF Blocks, IInv, TypeOK, HeapRange, HeapSize, Orders
<1>5. /\ Blocks' \subseteq Nat \X Orders
      /\ \A x, y \in Blocks' : x # y => Bytes(x) \cap Bytes(y) = {}
      /\ UNION {Bytes(x) : x \in Blocks'} = UNION {Bytes(x) : x \in Blocks}
  BY <1>3, <1>4, CutKeepsTiling DEF IInv, Disjoint
<1>6. Covered'
  BY <1>5 DEF IInv, Covered, Bytes, HeapRange, HeapSize
<1>7. TypeOK'
  <2>1. ASSUME NEW x \in Blocks' PROVE x[1] \in HeapRange
    <3>1. x[1] \in Bytes(x)
      BY <1>5, BytesNonEmpty
    <3> QED BY <1>5, <3>1 DEF IInv, Covered
  <2> QED BY <1>5, <2>1 DEF TypeOK, HeapRange, HeapSize
<1>8. free' \cap live' = {}
  <2>1. ASSUME NEW x \in Pieces(b, order), x \in Blocks PROVE x = b
    <3>1. x \in Blocks' /\ x[1] \in Bytes(x)
      BY <1>3, <1>5, <2>1, BytesNonEmpty
    <3>2. Bytes(x) \subseteq Bytes(b)
      BY <1>4, PiecesCover, <2>1 DEF IInv, TypeOK
    <3> QED BY <1>4, <2>1, <3>1, <3>2 DEF IInv, Disjoint
  <2> QED BY <1>1, <1>2, <2>1 DEF IInv, Disjoint, Blocks
<1> QED BY <1>5, <1>6, <1>7, <1>8 DEF IInv, Disjoint

(* heap_free keeps the tiling: the same blocks, one of them now free.      *)
LEMMA FreePreserves ==
    ASSUME NEW b \in live, IInv, FreeBlock(b)
    PROVE  IInv'
<1>1. Blocks' = Blocks
  BY DEF FreeBlock, Blocks
<1>2. free' \cap live' = {}
  BY DEF FreeBlock, IInv, Disjoint
<1> QED BY <1>1, <1>2
        DEF IInv, TypeOK, Disjoint, Covered, Bytes, HeapRange, HeapSize

(* No heap operation breaks the tiling.                                    *)
LEMMA NextPreserves == IInv /\ [Next]_hvars => IInv'
<1> SUFFICES ASSUME IInv, [Next]_hvars PROVE IInv'
  OBVIOUS
<1>1. CASE \E order \in Orders : Alloc(order)
  BY <1>1, AllocPreserves
<1>2. CASE \E b \in live : FreeBlock(b)
  BY <1>2, FreePreserves
<1>3. CASE UNCHANGED hvars
  <2>1. Blocks' = Blocks /\ free' = free /\ live' = live
    BY <1>3 DEF hvars, Blocks
  <2> QED BY <2>1
          DEF IInv, TypeOK, Disjoint, Covered, Bytes, HeapRange, HeapSize
<1> QED BY <1>1, <1>2, <1>3 DEF Next

(* In every reachable state the blocks, free and live together, tile the   *)
(* heap (heap_init, heap_alloc, heap_free).                                *)
THEOREM Invariance == Spec => []IInv
  BY InitIInv, NextPreserves, PTL DEF Spec

(* Two blocks, live or free, never overlap (heap_split_block, heap_free).  *)
THEOREM BlocksNeverOverlap == Spec => []Disjoint
<1>1. IInv => Disjoint
  BY DEF IInv
<1> QED BY <1>1, Invariance, PTL

(* No byte of the heap is lost or gained by splitting and freeing.         *)
THEOREM HeapStaysCovered == Spec => []Covered
<1>1. IInv => Covered
  BY DEF IInv
<1> QED BY <1>1, Invariance, PTL

=============================================================================

----------------------------- MODULE HeapProofs -----------------------------
(***************************************************************************)
(* Proofs about the kernel heap as it is written: links, order bytes and   *)
(* all, for any number of orders, any size of page and any requests.       *)
(*                                                                         *)
(* As long as the frames of the untouched heap have not been given to      *)
(* somebody, the memory of the heap holds lists (Memory below), and on     *)
(* lists the functions of heap.c are the steps of BuddyHeap: adding puts a *)
(* block in front, unlinking takes one of the first two away, a split is   *)
(* Pieces, and the loop of heap_free, which is given a pointer past the    *)
(* header, never finds a buddy, since no block lies there.  After that,    *)
(* lists and headers can be anything, and what is left is what does not    *)
(* depend on them: the frames of live pages, and the sizes of blocks.      *)
(***************************************************************************)
EXTENDS Heap, FiniteSetTheorems, FunctionTheorems, SequenceTheorems, WellFoundedInduction, TLAPS

-----------------------------------------------------------------------------
(* A set of natural numbers has a least element: what replaces induction.  *)
LEMMA LeastElement ==
    ASSUME NEW T, T \subseteq Nat, T # {}
    PROVE  \E x \in T : \A y \in T : x <= y
<1> DEFINE R == OpToRel(<, Nat)
<1>1. IsWellFoundedOn(R, Nat)
  BY NatLessThanWellFounded
<1>2. \A x, y \in Nat : x < y => <<x, y>> \in R
  BY DEF OpToRel
<1> HIDE DEF R
<1>3. PICK x \in T : \A y \in T : ~ (<<y, x>> \in R)
  BY <1>1, WFMin
<1>4. ASSUME NEW y \in T PROVE x <= y
  <2>1. x \in Nat /\ y \in Nat
    OBVIOUS
  <2>2. ~ (y < x)
    BY <1>2, <1>3, <2>1
  <2> QED BY <2>1, <2>2
<1> QED BY <1>4

(* g starts at a and takes the steps F.                                    *)
Follows(g, a, F) == g[0] = a /\ \A n \in Nat : g[n + 1] = F[n][g[n]]

(* Recursion.  The steps are a function, so that there is one for every    *)
(* definition by recursion below: the initial parts of the function that   *)
(* is looked for agree with each other, and every one can be continued.    *)
LEMMA Recursion ==
    ASSUME NEW S, NEW a \in S, NEW F \in [Nat -> [S -> S]]
    PROVE  \E g \in [Nat -> S] : Follows(g, a, F)
<1> DEFINE Part(n) == {h \in [0 .. n -> S] :
                          h[0] = a /\ \A k \in 0 .. n - 1 : h[k + 1] = F[k][h[k]]}
<1>1. \A n \in Nat : \A h \in [0 .. n -> S] :
         h \in Part(n) <=> h[0] = a /\ \A k \in 0 .. n - 1 : h[k + 1] = F[k][h[k]]
  OBVIOUS
<1>2. \A n \in Nat : Part(n) \subseteq [0 .. n -> S]
  OBVIOUS
<1> HIDE DEF Part
<1>3. \A n \in Nat : Part(n) # {}
  <2> DEFINE T == {n \in Nat : Part(n) = {}}
  <2>1. SUFFICES ASSUME T # {} PROVE FALSE
    OBVIOUS
  <2>2. PICK n \in T : \A m \in T : n <= m
    BY <2>1, LeastElement
  <2>3. CASE n = 0
    <3> DEFINE h == [k \in 0 .. 0 |-> a]
    <3>1. h \in [0 .. 0 -> S] /\ h[0] = a /\ 0 .. 0 - 1 = {}
      OBVIOUS
    <3> HIDE DEF h
    <3>2. h \in Part(0)
      BY <1>1, <3>1
    <3> QED BY <2>3, <3>2
  <2>4. CASE n # 0
    <3>1. n - 1 \in Nat /\ n - 1 \notin T
      BY <2>2, <2>4
    <3>2. PICK h : h \in Part(n - 1)
      BY <3>1
    <3>3. /\ h \in [0 .. n - 1 -> S] /\ h[0] = a
          /\ \A k \in 0 .. n - 2 : h[k + 1] = F[k][h[k]]
      BY <1>1, <1>2, <3>1, <3>2
    <3> DEFINE c == [k \in 0 .. n |-> IF k = n THEN F[n - 1][h[n - 1]] ELSE h[k]]
    <3>4. c \in [0 .. n -> S]
      <4>1. n - 1 \in 0 .. n - 1
        BY <3>1
      <4>2. F[n - 1][h[n - 1]] \in S
        BY <3>1, <3>3, <4>1
      <4>3. \A k \in 0 .. n : k # n => h[k] \in S
        BY <3>3
      <4> QED BY <4>2, <4>3
    <3>5. c[0] = a
      BY <2>4, <3>3
    <3>6. \A k \in 0 .. n - 1 : c[k + 1] = F[k][c[k]]
      <4>1. SUFFICES ASSUME NEW k \in 0 .. n - 1 PROVE c[k + 1] = F[k][c[k]]
        OBVIOUS
      <4>2. c[k] = h[k]
        OBVIOUS
      <4>3. CASE k = n - 1
        BY <4>2, <4>3
      <4>4. CASE k # n - 1
        <5>1. k \in 0 .. n - 2 /\ k + 1 # n /\ k + 1 \in 0 .. n
          BY <4>4
        <5> QED BY <3>3, <4>2, <5>1
      <4> QED BY <4>3, <4>4
    <3> HIDE DEF c
    <3>7. c \in Part(n)
      BY <1>1, <3>4, <3>5, <3>6
    <3> QED BY <2>2, <3>7
  <2> QED BY <2>3, <2>4
<1>4. \A n \in Nat : \A m \in n .. n + 1 : \A h \in Part(n), c \in Part(m) : c[n] = h[n]
  <2>1. SUFFICES ASSUME NEW n \in Nat, NEW m \in n .. n + 1, NEW h \in Part(n), NEW c \in Part(m)
                 PROVE  c[n] = h[n]
    OBVIOUS
  <2>2. /\ m \in Nat /\ h[0] = a /\ c[0] = a
        /\ \A k \in 0 .. n - 1 : h[k + 1] = F[k][h[k]]
        /\ \A k \in 0 .. m - 1 : c[k + 1] = F[k][c[k]]
    BY <1>1, <1>2
  <2> DEFINE T == {k \in 0 .. n : c[k] # h[k]}
  <2>3. SUFFICES ASSUME T # {} PROVE FALSE
    OBVIOUS
  <2>4. PICK k \in T : \A j \in T : k <= j
    <3>1. T \subseteq Nat
      OBVIOUS
    <3> HIDE DEF T
    <3> QED BY <2>3, <3>1, LeastElement
  <2>5. k # 0
    BY <2>2, <2>4
  <2>6. k - 1 \in 0 .. n - 1 /\ k - 1 \in 0 .. m - 1 /\ k - 1 \notin T /\ (k - 1) + 1 = k
    BY <2>4, <2>5
  <2>7. c[k - 1] = h[k - 1]
    BY <2>6
  <2> QED BY <2>2, <2>4, <2>6, <2>7
<1> DEFINE part == [n \in Nat |-> CHOOSE h : h \in Part(n)]
           g == [n \in Nat |-> part[n][n]]
<1>5. \A n \in Nat : part[n] \in Part(n)
  BY <1>3
<1> HIDE DEF part
<1>6. g \in [Nat -> S]
  BY <1>2, <1>5
<1>7. g[0] = a
  <2>1. part[0] \in Part(0) /\ part[0] \in [0 .. 0 -> S]
    BY <1>2, <1>5
  <2>2. part[0][0] = a
    BY <1>1, <2>1
  <2> QED BY <2>2
<1>8. ASSUME NEW n \in Nat PROVE g[n + 1] = F[n][g[n]]
  <2>1. part[n + 1] \in Part(n + 1) /\ n + 1 \in Nat /\ n + 1 \in n .. n + 1 /\ n \in 0 .. n
    BY <1>5
  <2>2. part[n + 1][n] = part[n][n]
    BY <1>4, <1>5, <2>1
  <2>3. part[n + 1][n + 1] = F[n][part[n + 1][n]]
    <3>1. n \in 0 .. (n + 1) - 1 /\ part[n + 1] \in [0 .. n + 1 -> S]
      BY <1>2, <2>1
    <3> QED BY <1>1, <2>1, <3>1
  <2> QED BY <2>1, <2>2, <2>3
<1> HIDE DEF g
<1> QED BY <1>6, <1>7, <1>8 DEF Follows

-----------------------------------------------------------------------------
(* The sizes of blocks: each order doubles the one below.                  *)
LEMMA ShiftDoubles ==
    /\ shifted \in [Nat -> Nat \ {0}] /\ shifted[0] = 1
    /\ \A n \in Nat : shifted[n + 1] = 2 * shifted[n]
<1> DEFINE Good(g) == g = [order \in Nat |-> IF order = 0 THEN 1 ELSE 2 * g[order - 1]]
           P == Nat \ {0}
           F == [n \in Nat |-> [x \in P |-> 2 * x]]
<1>1. \E g : Good(g)
  <2>1. F \in [Nat -> [P -> P]]
    OBVIOUS
  <2>2. PICK g \in [Nat -> P] : Follows(g, 1, F)
    <3>1. 1 \in P
      OBVIOUS
    <3> HIDE DEF F, P
    <3> QED BY <2>1, <3>1, Recursion
  <2>3. g[0] = 1 /\ \A n \in Nat : g[n + 1] = 2 * g[n]
    BY <2>2 DEF Follows
  <2>4. ASSUME NEW order \in Nat PROVE g[order] = IF order = 0 THEN 1 ELSE 2 * g[order - 1]
    <3>1. CASE order # 0
      <4>1. order - 1 \in Nat /\ (order - 1) + 1 = order
        BY <3>1
      <4> QED BY <2>3, <3>1, <4>1
    <3> QED BY <2>3, <3>1
  <2>5. g = [order \in Nat |-> g[order]]
    BY <2>2
  <2> QED BY <2>4, <2>5
<1>2. Good(shifted)
  BY <1>1 DEF shifted
<1>3. shifted[0] = 1 /\ DOMAIN shifted = Nat
  BY <1>2
<1>4. ASSUME NEW n \in Nat PROVE shifted[n + 1] = 2 * shifted[n]
  BY <1>2
<1>5. \A n \in Nat : shifted[n] \in Nat \ {0}
  <2> DEFINE T == {n \in Nat : shifted[n] \notin Nat \ {0}}
  <2>1. SUFFICES ASSUME T # {} PROVE FALSE
    OBVIOUS
  <2>2. PICK n \in T : \A m \in T : n <= m
    BY <2>1, LeastElement
  <2>3. n # 0
    BY <1>3, <2>2
  <2>4. n - 1 \in Nat /\ n - 1 \notin T /\ (n - 1) + 1 = n
    BY <2>2, <2>3
  <2>5. shifted[n - 1] \in Nat \ {0}
    BY <2>4
  <2>6. shifted[n] = 2 * shifted[n - 1]
    BY <1>4, <2>4
  <2> QED BY <2>2, <2>5, <2>6
<1>6. shifted = [n \in Nat |-> shifted[n]]
  BY <1>2
<1> HIDE DEF Good
<1> QED BY <1>3, <1>4, <1>5, <1>6

LEMMA Doubling ==
    /\ heap_order_to_size(0) = BLOCK_SIZE /\ BLOCK_SIZE \in Nat \ {0}
    /\ \A n \in Nat : /\ heap_order_to_size(n) \in Nat \ {0}
                      /\ heap_order_to_size(n + 1) = 2 * heap_order_to_size(n)
<1>1. BLOCK_SIZE \in Nat \ {0}
  BY SizesAssumption
<1>2. heap_order_to_size(0) = BLOCK_SIZE
  BY <1>1, ShiftDoubles DEF heap_order_to_size
<1>3. ASSUME NEW n \in Nat
      PROVE  /\ heap_order_to_size(n) \in Nat \ {0}
             /\ heap_order_to_size(n + 1) = 2 * heap_order_to_size(n)
  <2> DEFINE s == shifted[n]
             t == shifted[n + 1]
  <2>1. s \in Nat \ {0} /\ t = 2 * s
    BY ShiftDoubles
  <2>2. heap_order_to_size(n) = s * BLOCK_SIZE /\ heap_order_to_size(n + 1) = t * BLOCK_SIZE
    BY DEF heap_order_to_size
  <2> HIDE DEF s, t
  <2>3. s * BLOCK_SIZE \in Nat \ {0} /\ (2 * s) * BLOCK_SIZE = 2 * (s * BLOCK_SIZE)
    BY <1>1, <2>1
  <2> QED BY <2>1, <2>2, <2>3
<1> QED BY <1>1, <1>2, <1>3

(* A block of a larger order is at least twice as large.                   *)
LEMMA LargerOrders ==
    ASSUME NEW o \in Nat, NEW p \in Nat, o < p
    PROVE  2 * heap_order_to_size(o) <= heap_order_to_size(p)
<1> DEFINE T == {n \in Nat : o < n /\ ~ (2 * heap_order_to_size(o) <= heap_order_to_size(n))}
<1>1. SUFFICES ASSUME T # {} PROVE FALSE
  OBVIOUS
<1>2. PICK n \in T : \A m \in T : n <= m
  BY <1>1, LeastElement
<1>3. /\ n \in Nat /\ o < n /\ ~ (2 * heap_order_to_size(o) <= heap_order_to_size(n))
      /\ n - 1 \in Nat /\ (n - 1) + 1 = n /\ n - 1 \notin T
  BY <1>2
<1>4. /\ heap_order_to_size(n) = 2 * heap_order_to_size(n - 1)
      /\ heap_order_to_size(n - 1) \in Nat /\ heap_order_to_size(o) \in Nat
  BY <1>3, Doubling
<1>5. CASE o = n - 1
  BY <1>3, <1>4, <1>5
<1>6. CASE o # n - 1
  <2>1. o < n - 1
    BY <1>3, <1>6
  <2>2. 2 * heap_order_to_size(o) <= heap_order_to_size(n - 1)
    BY <1>3, <2>1
  <2> QED BY <1>3, <1>4, <2>2
<1> QED BY <1>5, <1>6

(* Every size is a number of pages.                                        *)
LEMMA WholePages ==
    ASSUME NEW o \in Nat
    PROVE  \E k \in Nat \ {0} : heap_order_to_size(o) = k * BLOCK_SIZE
  BY ShiftDoubles DEF heap_order_to_size

(* The least of a set of natural numbers.                                  *)
LEMMA MinOf ==
    ASSUME NEW T, T \subseteq Nat, T # {}
    PROVE  Min(T) \in T /\ \A y \in T : Min(T) <= y
  BY LeastElement DEF Min

(* The blocks of the detailed heap, with all that is proved about blocks.  *)
Size == [o \in Orders |-> heap_order_to_size(o)]
Free == UNION {{<<a, o>> : a \in Listed(o)} : o \in Orders}
LiveBlocks(blocks) == {<<b, blocks[b].order>> : b \in DOMAIN blocks}

Buddies == INSTANCE BuddyHeapProofs WITH
    MaxOrder <- HEAP_MAX_ORDER,
    HeapStart <- HEAP_START,
    Size <- Size,
    free <- Free,
    live <- LiveBlocks(live)

(* What BuddyHeap takes for granted of sizes.                              *)
LEMMA SizesDouble == Buddies!BuddyAssumption
<1>1. HEAP_MAX_ORDER \in Nat /\ HEAP_START \in Nat
  BY HeapAssumption
<1>2. Size \in [0 .. HEAP_MAX_ORDER -> Nat \ {0}]
  BY <1>1, Doubling DEF Size, Orders
<1>3. \A o \in 0 .. HEAP_MAX_ORDER : o < HEAP_MAX_ORDER => Size[o + 1] = 2 * Size[o]
  BY <1>1, Doubling DEF Size, Orders
<1>4. \A o, p \in 0 .. HEAP_MAX_ORDER : o < p => 2 * Size[o] <= Size[p]
  BY <1>1, LargerOrders DEF Size, Orders
<1> QED BY <1>1, <1>2, <1>3, <1>4 DEF Buddies!BuddyAssumption, Buddies!Orders

LEMMA HalvesThere == Buddies!HalvesAssumption
<1> DEFINE S(o) == heap_order_to_size(o)
<1>1. HEAP_MAX_ORDER \in Nat /\ Size[0] = S(0) /\ Size[HEAP_MAX_ORDER] = S(HEAP_MAX_ORDER)
  BY HeapAssumption DEF Size, Orders
<1>2. \A o \in Nat : S(o) \in Nat
  BY Doubling
<1>3. ASSUME NEW d \in S(0) .. (S(HEAP_MAX_ORDER) - 1)
      PROVE  \E o \in 0 .. HEAP_MAX_ORDER :
                o < HEAP_MAX_ORDER /\ S(o) <= d /\ d < S(o + 1)
  <2> DEFINE T == {o \in Nat : d < S(o)}
  <2>1. d \in Nat /\ HEAP_MAX_ORDER \in T
    BY <1>1, <1>2, <1>3
  <2>2. PICK o \in T : \A p \in T : o <= p
    <3> HIDE DEF S
    <3>1. T \subseteq Nat /\ T # {}
      BY <2>1
    <3> HIDE DEF T
    <3> QED BY <3>1, LeastElement
  <2>3. o # 0
    BY <1>1, <1>2, <1>3, <2>2
  <2>4. o - 1 \in 0 .. HEAP_MAX_ORDER /\ o - 1 < HEAP_MAX_ORDER /\ (o - 1) + 1 = o
    BY <1>1, <2>1, <2>2, <2>3
  <2>5. o - 1 \notin T
    BY <2>2, <2>4
  <2>6. S(o - 1) <= d /\ d < S(o)
    BY <1>2, <2>1, <2>2, <2>4, <2>5
  <2> QED BY <2>4, <2>6
<1>4. \A o \in 0 .. HEAP_MAX_ORDER :
         o < HEAP_MAX_ORDER => Size[o] = S(o) /\ Size[o + 1] = S(o + 1)
  BY <1>1 DEF Size, Orders
<1> HIDE DEF S
<1> QED BY <1>1, <1>3, <1>4 DEF Buddies!HalvesAssumption, Buddies!Orders

-----------------------------------------------------------------------------
(* Lists as sequences that hold no block twice, and as sets of blocks.     *)
NoTwice(s) == \A i, j \in 1 .. Len(s) : s[i] = s[j] => i = j
Chains == [Orders -> Seq(Nat)]
Lists == {list \in Chains : \A o \in Orders : NoTwice(list[o])}
FreeBlocks(list) == UNION {{<<a, o>> : a \in ToSet(list[o])} : o \in Orders}
Put(list, o, b) == [list EXCEPT ![o] = <<b>> \o list[o]]
Drop(list, o, b) == [list EXCEPT ![o] = RemoveFirst(list[o], b)]

(* Putting a block in front of a list.                                     *)
LEMMA Prepend ==
    ASSUME NEW s \in Seq(Nat), NEW b \in Nat
    PROVE  /\ <<b>> \o s \in Seq(Nat) /\ Len(<<b>> \o s) = Len(s) + 1
           /\ (<<b>> \o s)[1] = b
           /\ \A i \in 1 .. Len(s) : (<<b>> \o s)[i + 1] = s[i]
           /\ ToSet(<<b>> \o s) = {b} \cup ToSet(s)
           /\ NoTwice(s) /\ b \notin ToSet(s) => NoTwice(<<b>> \o s)
<1> DEFINE t == <<b>> \o s
<1>1. <<b>> \in Seq(Nat) /\ Len(<<b>>) = 1 /\ <<b>>[1] = b
  OBVIOUS
<1>2. Len(s) \in Nat /\ DOMAIN s = 1 .. Len(s)
  BY LenProperties
<1>3. /\ t \in Seq(Nat) /\ Len(t) = 1 + Len(s)
      /\ \A i \in 1 .. 1 + Len(s) : t[i] = IF i <= 1 THEN b ELSE s[i - 1]
  BY <1>1, <1>2, ConcatProperties
<1>4. DOMAIN t = 1 .. Len(t)
  BY <1>3, LenProperties
<1>5. Len(t) = Len(s) + 1 /\ t[1] = b /\ \A i \in 1 .. Len(s) : t[i + 1] = s[i]
  <2>1. \A i \in 1 .. Len(s) : i + 1 \in 1 .. 1 + Len(s) /\ (i + 1) - 1 = i /\ ~ (i + 1 <= 1)
    BY <1>2
  <2>2. 1 \in 1 .. 1 + Len(s) /\ 1 + Len(s) = Len(s) + 1
    BY <1>2
  <2> HIDE DEF t
  <2> QED BY <1>3, <2>1, <2>2
<1> HIDE DEF t
<1>6. ToSet(t) = {b} \cup ToSet(s)
  <2>1. ASSUME NEW i \in 1 .. 1 + Len(s) PROVE t[i] = b \/ t[i] \in ToSet(s)
    <3>1. CASE i # 1
      <4>1. i - 1 \in DOMAIN s /\ t[i] = s[i - 1]
        BY <1>2, <1>3, <3>1
      <4> QED BY <4>1 DEF ToSet
    <3> QED BY <1>3, <3>1
  <2>2. b \in ToSet(t)
    <3>1. 1 \in DOMAIN t /\ t[1] = b
      BY <1>2, <1>3, <1>4
    <3> QED BY <3>1 DEF ToSet
  <2>3. ASSUME NEW i \in 1 .. Len(s) PROVE s[i] \in ToSet(t)
    <3>1. i + 1 \in 1 .. 1 + Len(s) /\ (i + 1) - 1 = i /\ ~ (i + 1 <= 1)
      BY <1>2
    <3>2. i + 1 \in DOMAIN t /\ t[i + 1] = s[i]
      BY <1>3, <1>4, <3>1
    <3> QED BY <3>2 DEF ToSet
  <2>4. ToSet(t) \subseteq {b} \cup ToSet(s)
    BY <1>3, <1>4, <2>1 DEF ToSet
  <2>5. ToSet(s) \subseteq ToSet(t)
    BY <1>2, <2>3 DEF ToSet
  <2> QED BY <2>2, <2>4, <2>5
<1>7. NoTwice(s) /\ b \notin ToSet(s) => NoTwice(t)
  <2>1. SUFFICES ASSUME NoTwice(s), b \notin ToSet(s),
                        NEW i \in 1 .. 1 + Len(s), NEW j \in 1 .. 1 + Len(s), t[i] = t[j]
                 PROVE  i = j
    BY <1>3 DEF NoTwice
  <2>2. \A k \in 1 .. Len(s) : s[k] # b
    BY <1>2, <2>1 DEF ToSet
  <2>3. \A k \in 1 .. 1 + Len(s) : k # 1 => k - 1 \in 1 .. Len(s) /\ t[k] = s[k - 1]
    BY <1>2, <1>3
  <2>4. CASE i = 1 \/ j = 1
    BY <1>2, <1>3, <2>1, <2>2, <2>3, <2>4
  <2>5. CASE i # 1 /\ j # 1
    <3>1. i - 1 = j - 1
      BY <2>1, <2>3, <2>5 DEF NoTwice
    <3> QED BY <3>1
  <2> QED BY <2>4, <2>5
<1> QED BY <1>3, <1>5, <1>6, <1>7 DEF t

(* Unlinking a block from a list.                                          *)
LEMMA Unlink ==
    ASSUME NEW s \in Seq(Nat), NEW b \in Nat
    PROVE  /\ RemoveFirst(s, b) \in Seq(Nat)
           /\ NoTwice(s) => /\ NoTwice(RemoveFirst(s, b))
                            /\ ToSet(RemoveFirst(s, b)) = ToSet(s) \ {b}
           /\ \A m \in 1 .. Len(s) : NoTwice(s) /\ s[m] = b =>
                 /\ Len(RemoveFirst(s, b)) = Len(s) - 1
                 /\ \A i \in 1 .. Len(s) - 1 :
                       RemoveFirst(s, b)[i] = IF i < m THEN s[i] ELSE s[i + 1]
<1>1. Len(s) \in Nat /\ DOMAIN s = 1 .. Len(s) /\ \A i \in 1 .. Len(s) : s[i] \in Nat
  BY LenProperties
<1>2. CASE ~ \E i \in 1 .. Len(s) : s[i] = b
  <2>1. RemoveFirst(s, b) = s
    BY <1>2 DEF RemoveFirst
  <2>2. b \notin ToSet(s)
    BY <1>1, <1>2 DEF ToSet
  <2> QED BY <1>2, <2>1, <2>2
<1>3. CASE \E i \in 1 .. Len(s) : s[i] = b
  <2> DEFINE I == {i \in 1 .. Len(s) : s[i] = b}
             m == Min(I)
             t == RemoveAt(s, m)
  <2>1. RemoveFirst(s, b) = t
    BY <1>3 DEF RemoveFirst, SelectInSeq
  <2>2. m \in I
    <3>1. I \subseteq Nat /\ I # {}
      BY <1>1, <1>3
    <3> HIDE DEF I
    <3>2. \E x \in I : \A y \in I : x <= y
      BY <3>1, LeastElement
    <3> QED BY <3>2 DEF Min
  <2> HIDE DEF m
  <2>3. m \in 1 .. Len(s) /\ s[m] = b /\ m \in Nat
    BY <1>1, <2>2
  <2> DEFINE p == SubSeq(s, 1, m - 1)
             q == SubSeq(s, m + 1, Len(s))
  <2>4. /\ p \in Seq(Nat) /\ Len(p) = m - 1
        /\ \A i \in 1 .. m - 1 : p[i] = s[i]
    <3>1. \A i \in 1 .. m - 1 : s[i] \in Nat
      BY <1>1, <2>3
    <3>2. 1 \in Int /\ m - 1 \in Int
      BY <2>3
    <3>3. /\ p \in Seq(Nat)
          /\ Len(p) = IF 1 <= m - 1 THEN (m - 1) - 1 + 1 ELSE 0
          /\ \A i \in 1 .. (m - 1) - 1 + 1 : p[i] = s[1 + i - 1]
      BY <3>1, <3>2, SubSeqProperties
    <3> HIDE DEF p
    <3> QED BY <2>3, <3>3
  <2>5. /\ q \in Seq(Nat) /\ Len(q) = Len(s) - m
        /\ \A i \in 1 .. Len(s) - m : q[i] = s[m + i]
    <3>1. \A i \in m + 1 .. Len(s) : s[i] \in Nat
      BY <1>1, <2>3
    <3>2. m + 1 \in Int /\ Len(s) \in Int
      BY <1>1, <2>3
    <3>3. /\ q \in Seq(Nat)
          /\ Len(q) = IF m + 1 <= Len(s) THEN Len(s) - (m + 1) + 1 ELSE 0
          /\ \A i \in 1 .. Len(s) - (m + 1) + 1 : q[i] = s[(m + 1) + i - 1]
      BY <3>1, <3>2, SubSeqProperties
    <3> HIDE DEF q
    <3>4. Len(s) - (m + 1) + 1 = Len(s) - m
      BY <1>1, <2>3
    <3>5. Len(q) = Len(s) - m
      <4>1. CASE m + 1 <= Len(s)
        BY <3>3, <3>4, <4>1
      <4>2. CASE m = Len(s)
        BY <1>1, <2>3, <3>3, <4>2
      <4>3. Len(s) \in Nat /\ m \in Nat /\ m <= Len(s)
        BY <1>1, <2>3
      <4>4. m + 1 <= Len(s) \/ m = Len(s)
        BY <4>3
      <4> QED BY <4>1, <4>2, <4>4
    <3>6. \A i \in 1 .. Len(s) - m : (m + 1) + i - 1 = m + i
      BY <1>1, <2>3
    <3> QED BY <3>3, <3>4, <3>5, <3>6
  <2>6. t = p \o q
    BY DEF RemoveAt
  <2> HIDE DEF p, q, t
  <2>7. /\ t \in Seq(Nat) /\ Len(t) = Len(s) - 1
        /\ \A i \in 1 .. Len(s) - 1 : t[i] = IF i < m THEN s[i] ELSE s[i + 1]
    <3>1. /\ t \in Seq(Nat) /\ Len(t) = (m - 1) + (Len(s) - m)
          /\ \A i \in 1 .. (m - 1) + (Len(s) - m) :
                t[i] = IF i <= m - 1 THEN p[i] ELSE q[i - (m - 1)]
      <4>1. /\ t \in Seq(Nat) /\ Len(t) = Len(p) + Len(q)
            /\ \A i \in 1 .. Len(p) + Len(q) :
                  t[i] = IF i <= Len(p) THEN p[i] ELSE q[i - Len(p)]
        BY <2>4, <2>5, <2>6, ConcatProperties
      <4>2. Len(p) = m - 1 /\ Len(q) = Len(s) - m
        BY <2>4, <2>5
      <4> QED BY <4>1, <4>2
    <3>2. ASSUME NEW i \in 1 .. Len(s) - 1 PROVE t[i] = IF i < m THEN s[i] ELSE s[i + 1]
      <4>1. i \in 1 .. (m - 1) + (Len(s) - m)
        BY <1>1, <2>3
      <4>2. CASE i < m
        BY <2>3, <2>4, <3>1, <4>1, <4>2
      <4>3. CASE ~ (i < m)
        <5>1. i - (m - 1) \in 1 .. Len(s) - m /\ m + (i - (m - 1)) = i + 1 /\ ~ (i <= m - 1)
          BY <1>1, <2>3, <4>3
        <5> QED BY <2>5, <3>1, <4>1, <4>3, <5>1
      <4> QED BY <4>2, <4>3
    <3> QED BY <1>1, <2>3, <3>1, <3>2
  <2>8. ASSUME NoTwice(s) PROVE NoTwice(t)
    <3>1. SUFFICES ASSUME NEW i \in 1 .. Len(s) - 1, NEW j \in 1 .. Len(s) - 1, t[i] = t[j]
                   PROVE  i = j
      BY <2>7 DEF NoTwice
    <3> DEFINE at(k) == IF k < m THEN k ELSE k + 1
    <3>2. at(i) \in 1 .. Len(s) /\ at(j) \in 1 .. Len(s)
      BY <1>1, <2>3
    <3>3. t[i] = s[at(i)] /\ t[j] = s[at(j)]
      BY <2>7
    <3>4. at(i) = at(j)
      <4> HIDE DEF at
      <4> QED BY <2>8, <3>1, <3>2, <3>3 DEF NoTwice
    <3> QED BY <2>3, <3>4
  <2>9. ASSUME NoTwice(s) PROVE ToSet(t) = ToSet(s) \ {b}
    <3>1. DOMAIN t = 1 .. Len(s) - 1
      BY <2>7, LenProperties
    <3>2. ASSUME NEW i \in 1 .. Len(s) - 1 PROVE t[i] \in ToSet(s) \ {b}
      <4> DEFINE k == IF i < m THEN i ELSE i + 1
      <4>1. k \in 1 .. Len(s) /\ k # m /\ t[i] = s[k]
        BY <1>1, <2>3, <2>7
      <4>2. s[k] # b
        BY <2>3, <2>9, <4>1 DEF NoTwice
      <4> QED BY <1>1, <4>1, <4>2 DEF ToSet
    <3>3. ASSUME NEW i \in 1 .. Len(s), s[i] # b PROVE s[i] \in ToSet(t)
      <4> DEFINE k == IF i < m THEN i ELSE i - 1
      <4>1. i # m
        BY <2>3, <3>3
      <4>2. k \in 1 .. Len(s) - 1 /\ t[k] = s[i]
        BY <1>1, <2>3, <2>7, <4>1
      <4> QED BY <3>1, <4>2 DEF ToSet
    <3>4. ToSet(t) \subseteq ToSet(s) \ {b}
      BY <3>1, <3>2 DEF ToSet
    <3>5. ToSet(s) \ {b} \subseteq ToSet(t)
      BY <1>1, <3>3 DEF ToSet
    <3> QED BY <3>4, <3>5
  <2>10. \A k \in 1 .. Len(s) : NoTwice(s) /\ s[k] = b => k = m
    BY <2>3 DEF NoTwice
  <2> QED BY <2>1, <2>7, <2>8, <2>9, <2>10
<1> QED BY <1>2, <1>3

(* A pair is in the set of blocks when its address is in its list.         *)
LEMMA Listing ==
    ASSUME NEW list, NEW a, NEW o
    PROVE  <<a, o>> \in FreeBlocks(list) <=> o \in Orders /\ a \in ToSet(list[o])
  BY DEF FreeBlocks

LEMMA OnlyPairs ==
    ASSUME NEW list, NEW x \in FreeBlocks(list)
    PROVE  \E o \in Orders : \E a \in ToSet(list[o]) : x = <<a, o>>
  BY DEF FreeBlocks

LEMMA Addresses ==
    ASSUME NEW list \in Chains, NEW o \in Orders
    PROVE  ToSet(list[o]) \subseteq Nat
<1>1. list[o] \in Seq(Nat)
  BY DEF Chains
<1>2. DOMAIN list[o] = 1 .. Len(list[o]) /\ \A i \in 1 .. Len(list[o]) : list[o][i] \in Nat
  BY <1>1, LenProperties
<1> QED BY <1>2 DEF ToSet

(* Two lists of blocks are the same when they agree on every pair.         *)
LEMMA SameBlocks ==
    ASSUME NEW list, NEW T, T \subseteq Nat \X Orders, list \in Chains,
           \A o \in Orders : \A a \in Nat : a \in ToSet(list[o]) <=> <<a, o>> \in T
    PROVE  FreeBlocks(list) = T
<1>1. ASSUME NEW x \in FreeBlocks(list) PROVE x \in T
  <2>1. PICK o \in Orders : \E a \in ToSet(list[o]) : x = <<a, o>>
    BY OnlyPairs
  <2> QED BY <2>1, Addresses
<1>2. ASSUME NEW x \in T PROVE x \in FreeBlocks(list)
  <2>1. PICK a \in Nat, o \in Orders : x = <<a, o>>
    OBVIOUS
  <2> QED BY <2>1, Listing
<1> QED BY <1>1, <1>2

LEMMA BlocksTyped ==
    ASSUME NEW list \in Chains
    PROVE  FreeBlocks(list) \subseteq Nat \X Orders
<1> SUFFICES ASSUME NEW x \in FreeBlocks(list) PROVE x \in Nat \X Orders
  OBVIOUS
<1>1. PICK o \in Orders : \E a \in ToSet(list[o]) : x = <<a, o>>
  BY OnlyPairs
<1> QED BY <1>1, Addresses

(* Putting a block that is not listed in front of a list adds one block.   *)
LEMMA AddBlock ==
    ASSUME NEW list \in Chains, NEW o \in Orders, NEW b \in Nat
    PROVE  LET new == Put(list, o, b)
           IN  /\ new \in Chains
               /\ FreeBlocks(new) = FreeBlocks(list) \cup {<<b, o>>}
               /\ list \in Lists /\ <<b, o>> \notin FreeBlocks(list) => new \in Lists
<1> DEFINE new == Put(list, o, b)
<1>2. new = [list EXCEPT ![o] = <<b>> \o list[o]]
  BY DEF Put
<1>3. \A p \in Orders : list[p] \in Seq(Nat)
  BY DEF Chains
<1>4. /\ <<b>> \o list[o] \in Seq(Nat)
      /\ ToSet(<<b>> \o list[o]) = {b} \cup ToSet(list[o])
      /\ NoTwice(list[o]) /\ b \notin ToSet(list[o]) => NoTwice(<<b>> \o list[o])
  BY <1>3, Prepend
<1> DEFINE s == <<b>> \o list[o]
<1>5. new = [list EXCEPT ![o] = s]
  BY <1>2
<1> HIDE DEF new, s
<1>6. new \in Chains /\ new[o] = s /\ \A p \in Orders : p # o => new[p] = list[p]
  BY <1>4, <1>5 DEF Chains, s
<1>7. FreeBlocks(new) = FreeBlocks(list) \cup {<<b, o>>}
  <2>1. FreeBlocks(list) \cup {<<b, o>>} \subseteq Nat \X Orders
    BY BlocksTyped
  <2>2. ASSUME NEW p \in Orders, NEW a \in Nat
        PROVE  a \in ToSet(new[p]) <=> <<a, p>> \in FreeBlocks(list) \cup {<<b, o>>}
    <3>1. CASE p = o
      BY <1>4, <1>6, <3>1, Listing DEF s
    <3>2. CASE p # o
      BY <1>6, <3>2, Listing
    <3> QED BY <3>1, <3>2
  <2> QED BY <1>6, <2>1, <2>2, SameBlocks
<1>8. ASSUME list \in Lists, <<b, o>> \notin FreeBlocks(list) PROVE new \in Lists
  <2>1. NoTwice(s)
    BY <1>4, <1>8, Listing DEF Lists, s
  <2> QED BY <1>6, <1>8, <2>1 DEF Lists
<1> QED BY <1>4, <1>6, <1>7, <1>8 DEF new, s

(* Dropping a block takes it away.                                         *)
LEMMA DelBlock ==
    ASSUME NEW list \in Chains, NEW o \in Orders, NEW b \in Nat
    PROVE  LET new == Drop(list, o, b)
           IN  /\ new \in Chains
               /\ list \in Lists => /\ new \in Lists
                                    /\ FreeBlocks(new) = FreeBlocks(list) \ {<<b, o>>}
<1> DEFINE new == Drop(list, o, b)
<1> DEFINE s == RemoveFirst(list[o], b)
<1>2. new = [list EXCEPT ![o] = s]
  BY DEF Drop
<1>3. \A p \in Orders : list[p] \in Seq(Nat)
  BY DEF Chains
<1>4. /\ s \in Seq(Nat)
      /\ NoTwice(list[o]) => NoTwice(s) /\ ToSet(s) = ToSet(list[o]) \ {b}
  BY <1>3, Unlink
<1> HIDE DEF new, s
<1>5. new \in Chains /\ new[o] = s /\ \A p \in Orders : p # o => new[p] = list[p]
  BY <1>2, <1>4 DEF Chains
<1>6. ASSUME list \in Lists PROVE new \in Lists
  BY <1>4, <1>5, <1>6 DEF Lists
<1>7. ASSUME list \in Lists PROVE FreeBlocks(new) = FreeBlocks(list) \ {<<b, o>>}
  <2>1. FreeBlocks(list) \ {<<b, o>>} \subseteq Nat \X Orders
    BY BlocksTyped
  <2>2. NoTwice(list[o])
    BY <1>7 DEF Lists
  <2>3. ASSUME NEW p \in Orders, NEW a \in Nat
        PROVE  a \in ToSet(new[p]) <=> <<a, p>> \in FreeBlocks(list) \ {<<b, o>>}
    <3>1. CASE p = o
      BY <1>4, <1>5, <2>2, <3>1, Listing
    <3>2. CASE p # o
      BY <1>5, <3>2, Listing
    <3> QED BY <3>1, <3>2
  <2> QED BY <1>5, <2>1, <2>3, SameBlocks
<1> QED BY <1>5, <1>6, <1>7 DEF new
-----------------------------------------------------------------------------
(* The frames: what pmm_alloc_block makes of the bitmap and the counter.   *)
Top == MaxBlocks

LEMMA RoundedDown ==
    ASSUME NEW n \in Nat, NEW d \in Nat \ {0}
    PROVE  /\ d * (n \div d) \in Nat /\ d * (n \div d) = (n \div d) * d
           /\ d * (n \div d) <= n /\ n < d * (n \div d) + d
<1> DEFINE q == n \div d
           r == n % d
<1>1. n = d * q + r /\ r \in 0 .. d - 1 /\ q \in Int
  OBVIOUS
<1> HIDE DEF q, r
<1>2. q < 0 => d * q <= - d
  BY <1>1
<1>3. q \in Nat
  BY <1>1, <1>2
<1>4. d * q \in Nat /\ d * q = q * d
  BY <1>3
<1> QED BY <1>1, <1>3, <1>4 DEF q

LEMMA Machine ==
    /\ Top \in Nat /\ RESERVED \in Nat \ {0} /\ RESERVED <= Top
    /\ BITS_PER_WORD \in Nat \ {0}
    /\ \E last \in Nat : /\ Scanned(FALSE) = 0 .. last - 1
                         /\ last <= Top /\ Top < last + BITS_PER_WORD
    /\ MemsetBits \subseteq 0 .. Top - 1 /\ Kernel \subseteq 0 .. Top - 1
    /\ IsFiniteSet(0 .. Top - 1) /\ Cardinality(0 .. Top - 1) = Top
<1>1. /\ Top \in Nat /\ RESERVED \in Nat \ {0} /\ RESERVED <= Top
      /\ BITS_PER_WORD \in Nat \ {0} /\ PMM_BLOCKS_PER_BYTE \in Nat \ {0}
  BY SizesAssumption, WindowAssumption DEF Top
<1>2. \E last \in Nat : /\ Scanned(FALSE) = 0 .. last - 1
                        /\ last <= Top /\ Top < last + BITS_PER_WORD
  <2> DEFINE last == (Top \div BITS_PER_WORD) * BITS_PER_WORD
  <2>1. last \in Nat /\ last <= Top /\ Top < last + BITS_PER_WORD
    BY <1>1, RoundedDown
  <2>2. Scanned(FALSE) = 0 .. last - 1
    BY DEF Scanned, Top
  <2> HIDE DEF last
  <2> QED BY <2>1, <2>2
<1>3. MemsetBits \subseteq 0 .. Top - 1
  <2>1. Cleared \in Nat /\ Cleared <= Top
    BY <1>1, RoundedDown DEF Cleared, Top
  <2> QED BY <1>1, <2>1 DEF MemsetBits
<1>4. Kernel \subseteq 0 .. Top - 1
  BY <1>1 DEF Kernel
<1>5. IsFiniteSet(0 .. Top - 1) /\ Cardinality(0 .. Top - 1) = Top
  <2>1. 0 \in Int /\ Top - 1 \in Int
    BY <1>1
  <2>2. /\ IsFiniteSet(0 .. Top - 1)
        /\ Cardinality(0 .. Top - 1) = IF 0 > Top - 1 THEN 0 ELSE Top - 1 - 0 + 1
    BY <2>1, FS_Interval
  <2> QED BY <1>1, <2>2
<1> QED BY <1>1, <1>2, <1>3, <1>4, <1>5

(* The bitmap marks the kernel, and the counter is not ahead of it by more *)
(* than the rounding of the memory map.                                    *)
Accounts(map, used) ==
    /\ map \subseteq 0 .. Top - 1 /\ Kernel \subseteq map
    /\ used \in Nat
    /\ used + RESERVED <= UsedAfterInit + Cardinality(map)

(* The window is as many frames as the heap has pages.                     *)
LEMMA WindowSize ==
    /\ Window \subseteq 0 .. Top - 1
    /\ IsFiniteSet(Window) /\ Cardinality(Window) = shifted[HEAP_MAX_ORDER]
    /\ shifted[HEAP_MAX_ORDER] \in Nat \ {0}
<1> DEFINE n == shifted[HEAP_MAX_ORDER]
<1>1. n \in Nat \ {0} /\ PHYSMAP_FRAME \in Nat /\ PHYSMAP_FRAME + n <= Top /\ Top \in Nat
  BY HeapAssumption, ShiftDoubles, WindowAssumption DEF Top
<1>2. BLOCK_SIZE \in Nat \ {0}
  BY SizesAssumption
<1>3. heap_order_to_size(HEAP_MAX_ORDER) \div BLOCK_SIZE = n
  BY <1>1, <1>2 DEF heap_order_to_size
<1>4. Window = PHYSMAP_FRAME .. (PHYSMAP_FRAME + n - 1)
  BY <1>3 DEF Window
<1> HIDE DEF n
<1>5. IsFiniteSet(Window) /\ Cardinality(Window) = n
  <2> DEFINE last == PHYSMAP_FRAME + n - 1
  <2>1. PHYSMAP_FRAME \in Int /\ last \in Int
    BY <1>1
  <2>2. last - PHYSMAP_FRAME + 1 = n /\ ~ (PHYSMAP_FRAME > last)
    BY <1>1
  <2> HIDE DEF last
  <2>3. /\ IsFiniteSet(PHYSMAP_FRAME .. last)
        /\ Cardinality(PHYSMAP_FRAME .. last)
             = IF PHYSMAP_FRAME > last THEN 0 ELSE last - PHYSMAP_FRAME + 1
    BY <2>1, FS_Interval
  <2> QED BY <1>4, <2>2, <2>3 DEF last
<1> QED BY <1>1, <1>4, <1>5 DEF n

(* pmm_alloc_block takes one clear frame or none, and it never fails while *)
(* the window is clear: at least a word's worth of frames is.              *)
LEMMA OneFrame ==
    ASSUME NEW map, NEW used, Accounts(map, used)
    PROVE  LET f == AllocFrame(map, used, FALSE)
           IN  /\ f = {} \/ \E x \in 0 .. Top - 1 : x \notin map /\ f = {x}
               /\ Accounts(map \cup f, used + Cardinality(f))
               /\ Window \cap map = {} => f # {}
<1> DEFINE f == AllocFrame(map, used, FALSE)
           clear == ClearFrames(map, FALSE)
<1>1. /\ Top \in Nat /\ RESERVED \in Nat \ {0} /\ RESERVED <= Top
      /\ BITS_PER_WORD \in Nat \ {0}
      /\ IsFiniteSet(0 .. Top - 1) /\ Cardinality(0 .. Top - 1) = Top
  BY Machine
<1>2. PICK last \in Nat : /\ Scanned(FALSE) = 0 .. last - 1
                          /\ last <= Top /\ Top < last + BITS_PER_WORD
  BY Machine
<1>3. /\ map \subseteq 0 .. Top - 1 /\ Kernel \subseteq map /\ used \in Nat
      /\ used + RESERVED <= UsedAfterInit + Cardinality(map)
  BY DEF Accounts
<1>4. IsFiniteSet(map) /\ Cardinality(map) \in Nat /\ UsedAfterInit \in Nat
  BY <1>1, <1>3, FS_Subset, FS_CardinalityType, SizesAssumption
<1>5. /\ f \subseteq Lowest(clear)
      /\ Top # used => f = Lowest(clear)
      /\ clear = {x \in 0 .. last - 1 : x \notin map}
  BY <1>2 DEF AllocFrame, FindFree, ClearFrames, Top
<1> HIDE DEF f, clear
<1>6. f = {} \/ \E x \in 0 .. Top - 1 : x \notin map /\ f = {x}
  <2>1. ASSUME NEW x \in Lowest(clear), NEW y \in Lowest(clear) PROVE x = y
    BY <1>5 DEF Lowest
  <2>2. \A x \in Lowest(clear) : x \in 0 .. Top - 1 /\ x \notin map
    BY <1>1, <1>2, <1>5 DEF Lowest
  <2> QED BY <1>5, <2>1, <2>2
<1>7. Accounts(map \cup f, used + Cardinality(f))
  <2>1. CASE f = {}
    <3>1. map \cup f = map /\ Cardinality(f) = 0
      BY <2>1, FS_EmptySet
    <3>2. used + 0 = used
      BY <1>3
    <3> QED BY <3>1, <3>2
  <2>2. ASSUME NEW x \in 0 .. Top - 1, x \notin map, f = {x}
        PROVE  Accounts(map \cup f, used + Cardinality(f))
    <3>1. Cardinality({x}) = 1
      BY FS_Singleton
    <3>2. Cardinality(map \cup {x}) = Cardinality(map) + 1
      BY <1>4, <2>2, FS_AddElement
    <3>3. used + 1 \in Nat /\ (used + 1) + RESERVED <= UsedAfterInit + (Cardinality(map) + 1)
      BY <1>1, <1>3, <1>4
    <3>4. map \cup {x} \subseteq 0 .. Top - 1 /\ Kernel \subseteq map \cup {x}
      BY <1>3, <2>2
    <3> QED BY <2>2, <3>1, <3>2, <3>3, <3>4 DEF Accounts
  <2> QED BY <1>6, <2>1, <2>2
<1>8. ASSUME Window \cap map = {} PROVE f # {}
  <2>1. /\ Window \subseteq 0 .. Top - 1
        /\ IsFiniteSet(Window) /\ Cardinality(Window) = shifted[HEAP_MAX_ORDER]
    BY WindowSize
  <2> DEFINE w == Cardinality(Window)
  <2>2. w \in Nat /\ BITS_PER_WORD <= w /\ UsedAfterInit - RESERVED < BITS_PER_WORD
    BY <2>1, WindowSize, WindowAssumption
  <2> HIDE DEF w
  <2>3. Cardinality(map) + w <= Top
    <3>1. Cardinality(map \cup Window) = Cardinality(map) + w - Cardinality(map \cap Window)
      BY <1>4, <2>1, FS_Union DEF w
    <3>2. Cardinality(map \cap Window) = 0
      <4>1. map \cap Window = {}
        BY <1>8
      <4> QED BY <4>1, FS_EmptySet
    <3>3. Cardinality(map \cup Window) <= Cardinality(0 .. Top - 1)
      <4>1. map \cup Window \in SUBSET (0 .. Top - 1)
        BY <1>3, <2>1
      <4> QED BY <1>1, <4>1, FS_Subset
    <3> QED BY <1>1, <1>4, <2>2, <3>1, <3>2, <3>3
  <2>4. used # Top
    BY <1>1, <1>3, <1>4, <2>2, <2>3
  <2>5. clear # {}
    <3>1. SUFFICES ASSUME clear = {} PROVE FALSE
      OBVIOUS
    <3>2. Window \subseteq last .. Top - 1
      <4>1. ASSUME NEW x \in Window PROVE x \in last .. Top - 1
        <5>1. x \in 0 .. Top - 1 /\ x \notin map
          BY <1>8, <2>1
        <5>2. x \notin 0 .. last - 1
          BY <1>5, <3>1, <5>1
        <5> QED BY <1>1, <1>2, <5>1, <5>2
      <4> QED BY <4>1
    <3>3. /\ IsFiniteSet(last .. Top - 1)
          /\ Cardinality(last .. Top - 1) = IF last > Top - 1 THEN 0 ELSE Top - 1 - last + 1
      <4>1. last \in Int /\ Top - 1 \in Int
        BY <1>1, <1>2
      <4> QED BY <4>1, FS_Interval
    <3>4. w <= Cardinality(last .. Top - 1)
      BY <3>2, <3>3, FS_Subset DEF w
    <3> QED BY <1>1, <1>2, <2>2, <3>3, <3>4
  <2>6. PICK x \in clear : \A y \in clear : x <= y
    <3>1. clear \subseteq Nat
      BY <1>2, <1>5
    <3> QED BY <2>5, <3>1, LeastElement
  <2>7. x \in Lowest(clear)
    BY <2>6 DEF Lowest
  <2> QED BY <1>5, <2>4, <2>7
<1> QED BY <1>6, <1>7, <1>8 DEF f

(* One round of the loop of heap_alloc_block.                              *)
Grab(s) ==
    LET f == AllocFrame(s.map, s.used, FALSE)
    IN  [map  |-> s.map \cup f,
         used |-> s.used + Cardinality(f),
         got  |-> Append(s.got, IF f = {} THEN NULL ELSE CHOOSE g \in f : TRUE)]

Scans == {s \in [map : SUBSET (0 .. Top - 1), used : Nat, got : Seq(Nat)] :
             Accounts(s.map, s.used)}

LEMMA GrabTyped ==
    ASSUME NEW s \in Scans
    PROVE  /\ Grab(s) \in Scans
           /\ \E x \in Nat :
                 /\ Grab(s).got = Append(s.got, x)
                 /\ s.map \subseteq Grab(s).map
                 /\ x = NULL \/ (x \in Grab(s).map /\ x \notin s.map)
                 /\ Window \cap s.map = {} => x \in Grab(s).map /\ x \notin s.map
<1> DEFINE f == AllocFrame(s.map, s.used, FALSE)
           x == IF f = {} THEN NULL ELSE CHOOSE g \in f : TRUE
<1>1. /\ s.map \subseteq 0 .. Top - 1 /\ s.used \in Nat /\ s.got \in Seq(Nat)
      /\ Accounts(s.map, s.used)
  BY DEF Scans
<1>2. /\ f = {} \/ \E y \in 0 .. Top - 1 : y \notin s.map /\ f = {y}
      /\ Accounts(s.map \cup f, s.used + Cardinality(f))
      /\ Window \cap s.map = {} => f # {}
  BY <1>1, OneFrame
<1>3. /\ Grab(s).map = s.map \cup f /\ Grab(s).used = s.used + Cardinality(f)
      /\ Grab(s).got = Append(s.got, x)
      /\ Grab(s) = [map |-> Grab(s).map, used |-> Grab(s).used, got |-> Grab(s).got]
  BY DEF Grab
<1> HIDE DEF f
<1>4. /\ x \in Nat
      /\ x = NULL \/ (x \in s.map \cup f /\ x \notin s.map)
      /\ Window \cap s.map = {} => x \in s.map \cup f /\ x \notin s.map
  BY <1>2, Machine DEF NULL
<1> HIDE DEF x
<1>5. /\ s.map \cup f \in SUBSET (0 .. Top - 1) /\ s.used + Cardinality(f) \in Nat
  BY <1>2 DEF Accounts
<1>6. Append(s.got, x) \in Seq(Nat)
  BY <1>1, <1>4
<1>7. Grab(s) \in Scans
  BY <1>2, <1>3, <1>5, <1>6 DEF Scans
<1> QED BY <1>3, <1>4, <1>7

(* The calls of pmm_alloc_block, one after the other.                      *)
LEMMA TakeSteps ==
    ASSUME Accounts(memory_map, used_blocks), NEW n \in Nat
    PROVE  \E take :
              /\ take[0] = [map |-> memory_map, used |-> used_blocks, got |-> <<>>]
              /\ \A i \in 0 .. n : take[i] \in Scans
              /\ \A i \in 0 .. n - 1 : take[i + 1] = Grab(take[i])
              /\ TakeFrames(n) = take[n]
<1> DEFINE base == [map |-> memory_map, used |-> used_blocks, got |-> <<>>]
           Good(t) == t = [i \in 0 .. n |-> IF i = 0 THEN base ELSE Grab(t[i - 1])]
           F == [k \in Nat |-> [s \in Scans |-> Grab(s)]]
           c == CHOOSE t : Good(t)
<1>1. base \in Scans
  <2>1. memory_map \in SUBSET (0 .. Top - 1) /\ used_blocks \in Nat /\ <<>> \in Seq(Nat)
    BY DEF Accounts
  <2> QED BY <2>1 DEF Scans
<1>2. TakeFrames(n) = c[n]
  BY DEF TakeFrames, Grab
<1> HIDE DEF base, c
<1>3. PICK g \in [Nat -> Scans] : Follows(g, base, F)
  <2>1. F \in [Nat -> [Scans -> Scans]]
    BY GrabTyped
  <2> HIDE DEF F
  <2> QED BY <1>1, <2>1, Recursion
<1>4. g[0] = base /\ \A k \in Nat : g[k + 1] = Grab(g[k])
  BY <1>3 DEF Follows
<1> DEFINE t == [i \in 0 .. n |-> g[i]]
<1>5. Good(t)
  <2>1. ASSUME NEW i \in 0 .. n PROVE t[i] = IF i = 0 THEN base ELSE Grab(t[i - 1])
    <3>1. CASE i # 0
      <4>1. i - 1 \in Nat /\ (i - 1) + 1 = i /\ i - 1 \in 0 .. n
        BY <3>1
      <4>2. t[i] = g[i] /\ t[i - 1] = g[i - 1]
        BY <4>1
      <4> HIDE DEF t
      <4> QED BY <1>4, <3>1, <4>1, <4>2
    <3> QED BY <1>4, <3>1
  <2>2. t = [i \in 0 .. n |-> t[i]]
    OBVIOUS
  <2> HIDE DEF t
  <2> QED BY <2>1, <2>2
<1> HIDE DEF t
<1>6. Good(c)
  BY <1>5 DEF c
<1>7. \A i \in 0 .. n : c[i] = IF i = 0 THEN base ELSE Grab(c[i - 1])
  BY <1>6
<1> HIDE DEF Good
<1>8. c[0] = base /\ \A i \in 0 .. n - 1 : c[i + 1] = Grab(c[i])
  <2>1. 0 \in 0 .. n
    OBVIOUS
  <2>2. ASSUME NEW i \in 0 .. n - 1 PROVE c[i + 1] = Grab(c[i])
    <3>1. i + 1 \in 0 .. n /\ i + 1 # 0 /\ (i + 1) - 1 = i
      OBVIOUS
    <3> QED BY <1>7, <3>1
  <2> QED BY <1>7, <2>1, <2>2
<1> DEFINE T == {i \in 0 .. n : c[i] \notin Scans}
<1>9. T = {}
  <2>1. SUFFICES ASSUME T # {} PROVE FALSE
    OBVIOUS
  <2>2. PICK i \in T : \A j \in T : i <= j
    <3>1. T \subseteq Nat
      OBVIOUS
    <3> HIDE DEF T
    <3> QED BY <2>1, <3>1, LeastElement
  <2>3. i # 0
    BY <1>1, <1>8, <2>2
  <2>4. i - 1 \in 0 .. n - 1 /\ (i - 1) + 1 = i /\ i - 1 \in 0 .. n /\ i \in Nat
    BY <2>2, <2>3
  <2>5. i - 1 \notin T
    BY <2>2, <2>4
  <2>6. c[i - 1] \in Scans /\ c[i] = Grab(c[i - 1])
    <3>1. c[(i - 1) + 1] = Grab(c[i - 1])
      BY <1>8, <2>4
    <3> QED BY <2>4, <2>5, <3>1
  <2>7. c[i] \in Scans
    BY <2>6, GrabTyped
  <2> QED BY <2>2, <2>7
<1>10. \A i \in 0 .. n : c[i] \in Scans
  BY <1>9
<1> QED BY <1>2, <1>8, <1>10 DEF base

(* What they return: frames that were clear, each once, or NULL; and no    *)
(* NULL as long as the window is clear.                                    *)
LEMMA FramesTaken ==
    ASSUME Accounts(memory_map, used_blocks), NEW n \in Nat
    PROVE  LET s == TakeFrames(n)
           IN  /\ Accounts(s.map, s.used)
               /\ memory_map \subseteq s.map
               /\ \A j \in 1 .. n :
                     s.got[j] = NULL \/ (s.got[j] \in s.map /\ s.got[j] \notin memory_map)
               /\ \A j, k \in 1 .. n : j # k /\ s.got[j] = s.got[k] => s.got[j] = NULL
               /\ Window \cap s.map = {} => \A j \in 1 .. n : s.got[j] # NULL
<1> DEFINE Fine(s, i) ==
               /\ s.got \in Seq(Nat) /\ Len(s.got) = i
               /\ memory_map \subseteq s.map
               /\ \A j \in 1 .. i :
                     s.got[j] = NULL \/ (s.got[j] \in s.map /\ s.got[j] \notin memory_map)
               /\ \A j, k \in 1 .. i : j # k /\ s.got[j] = s.got[k] => s.got[j] = NULL
               /\ Window \cap s.map = {} => \A j \in 1 .. i : s.got[j] # NULL
<1>0. PICK take :
         /\ take[0] = [map |-> memory_map, used |-> used_blocks, got |-> <<>>]
         /\ \A i \in 0 .. n : take[i] \in Scans
         /\ \A i \in 0 .. n - 1 : take[i + 1] = Grab(take[i])
         /\ TakeFrames(n) = take[n]
  BY TakeSteps
<1>1. NULL \in memory_map
  BY Machine DEF Accounts, Kernel, NULL
<1>2. Fine(take[0], 0)
  <2>1. take[0].got = <<>> /\ take[0].map = memory_map
    BY <1>0
  <2> QED BY <2>1
<1>3. ASSUME NEW i \in 0 .. n - 1, Fine(take[i], i) PROVE Fine(take[i + 1], i + 1)
  <2> DEFINE s == take[i]
             t == take[i + 1]
  <2>1. s \in Scans /\ t = Grab(s) /\ i \in Nat
    BY <1>0
  <2>2. PICK x \in Nat : /\ t.got = Append(s.got, x)
                         /\ s.map \subseteq t.map
                         /\ x = NULL \/ (x \in t.map /\ x \notin s.map)
                         /\ Window \cap s.map = {} => x \in t.map /\ x \notin s.map
    BY <2>1, GrabTyped
  <2>3. /\ s.got \in Seq(Nat) /\ Len(s.got) = i
        /\ memory_map \subseteq s.map
        /\ \A j \in 1 .. i :
              s.got[j] = NULL \/ (s.got[j] \in s.map /\ s.got[j] \notin memory_map)
        /\ \A j, k \in 1 .. i : j # k /\ s.got[j] = s.got[k] => s.got[j] = NULL
        /\ Window \cap s.map = {} => \A j \in 1 .. i : s.got[j] # NULL
    BY <1>3
  <2> HIDE DEF s, t
  <2>4. /\ t.got \in Seq(Nat) /\ Len(t.got) = i + 1
        /\ t.got[i + 1] = x /\ \A j \in 1 .. i : t.got[j] = s.got[j]
    <3> DEFINE q == s.got
    <3>1. /\ q \in Seq(Nat) /\ Len(q) = i
      BY <2>3
    <3> HIDE DEF q
    <3>2. /\ Append(q, x) \in Seq(Nat) /\ Len(Append(q, x)) = i + 1
          /\ Append(q, x)[i + 1] = x /\ \A j \in 1 .. i : Append(q, x)[j] = q[j]
      BY <2>1, <3>1
    <3> QED BY <2>2, <3>2 DEF q
  <2>5. \A j \in 1 .. i + 1 : j = i + 1 \/ j \in 1 .. i
    BY <2>1
  <2>6. memory_map \subseteq t.map
    BY <2>2, <2>3
  <2>7. ASSUME NEW j \in 1 .. i + 1
        PROVE  t.got[j] = NULL \/ (t.got[j] \in t.map /\ t.got[j] \notin memory_map)
    <3>1. CASE j = i + 1
      BY <2>2, <2>3, <2>4, <3>1
    <3>2. CASE j \in 1 .. i
      BY <2>2, <2>3, <2>4, <3>2
    <3> QED BY <2>5, <3>1, <3>2
  <2>8. \A j \in 1 .. i : t.got[j] \in s.map
    BY <1>1, <2>3, <2>4
  <2>9. ASSUME NEW j \in 1 .. i + 1, NEW k \in 1 .. i + 1, j # k, t.got[j] = t.got[k]
        PROVE  t.got[j] = NULL
    <3>1. CASE j \in 1 .. i /\ k \in 1 .. i
      BY <2>3, <2>4, <2>9, <3>1
    <3>2. CASE j = i + 1 /\ k \in 1 .. i
      BY <2>2, <2>4, <2>8, <2>9, <3>2
    <3>3. CASE k = i + 1 /\ j \in 1 .. i
      BY <2>2, <2>4, <2>8, <2>9, <3>3
    <3> QED BY <2>5, <2>9, <3>1, <3>2, <3>3
  <2>10. ASSUME Window \cap t.map = {}, NEW j \in 1 .. i + 1 PROVE t.got[j] # NULL
    <3>1. Window \cap s.map = {}
      BY <2>2, <2>10
    <3>2. CASE j = i + 1
      BY <1>1, <2>2, <2>3, <2>4, <3>1, <3>2
    <3>3. CASE j \in 1 .. i
      BY <2>3, <2>4, <3>1, <3>3
    <3> QED BY <2>5, <3>2, <3>3
  <2>11. Fine(t, i + 1)
    BY <2>4, <2>6, <2>7, <2>9, <2>10
  <2> QED BY <2>11 DEF t
<1> HIDE DEF Fine
<1> DEFINE T == {i \in 0 .. n : ~ Fine(take[i], i)}
<1>4. T = {}
  <2>1. SUFFICES ASSUME T # {} PROVE FALSE
    OBVIOUS
  <2>2. PICK i \in T : \A j \in T : i <= j
    <3>1. T \subseteq Nat
      OBVIOUS
    <3> HIDE DEF T
    <3> QED BY <2>1, <3>1, LeastElement
  <2>3. i # 0
    BY <1>2, <2>2
  <2>4. i - 1 \in 0 .. n - 1 /\ (i - 1) + 1 = i /\ i - 1 \in 0 .. n /\ i \in Nat
    BY <2>2, <2>3
  <2>5. i - 1 \notin T
    BY <2>2, <2>4
  <2>6. Fine(take[i - 1], i - 1)
    BY <2>4, <2>5
  <2>7. Fine(take[(i - 1) + 1], (i - 1) + 1)
    BY <1>3, <2>4, <2>6
  <2> QED BY <2>2, <2>4, <2>7
<1>5. Fine(take[n], n) /\ take[n] \in Scans
  BY <1>0, <1>4
<1> QED BY <1>0, <1>5 DEF Fine, Scans


-----------------------------------------------------------------------------
(* Blocks start on page boundaries, and a size is a number of pages.       *)
Aligned(a) == \E k \in Nat : a = k * BLOCK_SIZE

LEMMA OffTheBoundary ==
    ASSUME NEW m \in Int, NEW k \in Int, NEW h \in Int, 0 < h, h < BLOCK_SIZE
    PROVE  m * BLOCK_SIZE # k * BLOCK_SIZE + h
<1>1. BLOCK_SIZE \in Nat \ {0}
  BY SizesAssumption
<1> DEFINE B == BLOCK_SIZE
           d == m - k
<1>2. m * B = k * B + d * B
  <2>1. m = k + d /\ d \in Int
    OBVIOUS
  <2> HIDE DEF d, B
  <2>2. B \in Int
    BY <1>1 DEF B
  <2> QED BY <2>1, <2>2
<1>3. d * B <= 0 \/ B <= d * B
  <2>1. d \in Int /\ (d <= 0 \/ 1 <= d)
    OBVIOUS
  <2> HIDE DEF d
  <2> QED BY <1>1, <2>1
<1>4. k * B \in Int /\ d * B \in Int
  BY <1>1
<1> HIDE DEF d
<1> QED BY <1>1, <1>2, <1>3, <1>4

(* The pointer that heap_free was given is past the header: the address it *)
(* takes for the buddy's, at any order, is not that of any block.          *)
LEMMA BuddyIsNoBlock ==
    ASSUME NEW b, Aligned(b), NEW a, Aligned(a), NEW o \in Nat
    PROVE  a # Buddy(b + HEADER, heap_order_to_size(o))
<1> DEFINE B == BLOCK_SIZE
<1>1. BLOCK_SIZE \in Nat \ {0} /\ HEADER \in Int /\ 0 < HEADER /\ HEADER < BLOCK_SIZE
  BY SizesAssumption, HeapAssumption
<1>2. PICK k \in Nat, m \in Nat, n \in Nat :
         b = k * B /\ a = m * B /\ heap_order_to_size(o) = n * B
  BY WholePages DEF Aligned
<1>3. (b + HEADER) + n * B = (k + n) * B + HEADER /\ (b + HEADER) - n * B = (k - n) * B + HEADER
  <2>1. (k + n) * B = k * B + n * B /\ (k - n) * B = k * B - n * B
    BY <1>1
  <2>2. k * B \in Int /\ n * B \in Int
    BY <1>1
  <2> QED BY <1>1, <1>2, <2>1, <2>2
<1>4. m * B # (k + n) * B + HEADER /\ m * B # (k - n) * B + HEADER
  BY <1>1, OffTheBoundary
<1>5. \/ Buddy(b + HEADER, n * B) = (b + HEADER) + n * B
      \/ Buddy(b + HEADER, n * B) = (b + HEADER) - n * B
  BY DEF Buddy
<1> QED BY <1>2, <1>3, <1>4, <1>5


-----------------------------------------------------------------------------
(* The pages of a block are those whose first byte is in it.               *)
LEMMA PagesOfBlock ==
    ASSUME NEW b, Aligned(b), NEW o \in Nat
    PROVE  /\ Page(b) \in Nat /\ b = Page(b) * BLOCK_SIZE
           /\ PagesOf(b, o) = Page(b) .. (Page(b) + shifted[o] - 1)
           /\ IsFiniteSet(PagesOf(b, o)) /\ Cardinality(PagesOf(b, o)) = shifted[o]
           /\ \A p \in Nat : p \in PagesOf(b, o) <=>
                 b <= p * BLOCK_SIZE /\ p * BLOCK_SIZE < b + heap_order_to_size(o)
<1> DEFINE B == BLOCK_SIZE
           s == shifted[o]
<1>1. B \in Nat \ {0} /\ s \in Nat \ {0} /\ heap_order_to_size(o) = s * B
  BY SizesAssumption, ShiftDoubles DEF heap_order_to_size
<1>2. PICK k \in Nat : b = k * B
  BY DEF Aligned
<1> HIDE DEF B, s
<1>3. \A n \in Nat : (n * B) \div B = n
  BY <1>1
<1>4. k * B + s * B = (k + s) * B /\ k + s \in Nat
  BY <1>1, <1>2
<1>5. Page(b) = k /\ Page(b + heap_order_to_size(o)) = k + s
  BY <1>1, <1>2, <1>3, <1>4 DEF Page, B
<1>6. PagesOf(b, o) = k .. (k + s - 1)
  BY <1>1, <1>5 DEF PagesOf
<1>7. IsFiniteSet(PagesOf(b, o)) /\ Cardinality(PagesOf(b, o)) = s
  <2> DEFINE last == k + s - 1
  <2>1. k \in Int /\ last \in Int /\ last - k + 1 = s /\ ~ (k > last)
    BY <1>1
  <2> HIDE DEF last
  <2>2. IsFiniteSet(k .. last) /\ Cardinality(k .. last) = IF k > last THEN 0 ELSE last - k + 1
    BY <2>1, FS_Interval
  <2> QED BY <1>6, <2>1, <2>2 DEF last
<1>8. ASSUME NEW p \in Nat
      PROVE  p \in PagesOf(b, o) <=> b <= p * B /\ p * B < b + heap_order_to_size(o)
  <2>1. k <= p => k * B <= p * B
    BY <1>1
  <2>2. p < k => p * B < k * B
    <3>1. ASSUME p < k PROVE p * B < k * B
      <4> DEFINE d == k - p
      <4>1. d \in Nat \ {0} /\ k = p + d
        BY <3>1
      <4> HIDE DEF d
      <4>2. k * B = p * B + d * B /\ d * B >= B /\ p * B \in Nat /\ d * B \in Nat
        BY <1>1, <4>1
      <4> QED BY <1>1, <4>2
    <3> QED BY <3>1
  <2>3. p < k + s => p * B < (k + s) * B
    <3>1. ASSUME p < k + s PROVE p * B < (k + s) * B
      <4> DEFINE d == (k + s) - p
      <4>1. d \in Nat \ {0} /\ k + s = p + d
        BY <1>4, <3>1
      <4> HIDE DEF d
      <4>2. (p + d) * B = p * B + d * B /\ d * B >= B /\ p * B \in Nat /\ d * B \in Nat
        BY <1>1, <4>1
      <4> QED BY <1>1, <4>1, <4>2
    <3> QED BY <3>1
  <2>4. k + s <= p => (k + s) * B <= p * B
    BY <1>1, <1>4
  <2>5. p * B \in Nat /\ k * B \in Nat /\ (k + s) * B \in Nat
    BY <1>1, <1>4
  <2>6. b + heap_order_to_size(o) = (k + s) * B
    BY <1>1, <1>2, <1>4
  <2>7. p \in PagesOf(b, o) <=> k <= p /\ p < k + s
    BY <1>1, <1>6
  <2> QED BY <1>1, <1>2, <2>1, <2>2, <2>3, <2>4, <2>5, <2>6, <2>7
<1> QED BY <1>2, <1>5, <1>6, <1>7, <1>8 DEF B, s

(* The pages of the heap.                                                  *)
HeapPages == PagesOf(HEAP_START, HEAP_MAX_ORDER)

LEMMA HeapOnPages ==
    /\ Aligned(HEAP_START) /\ HEAP_MAX_ORDER \in Nat /\ HEAP_START \in Nat \ {0}
    /\ BLOCK_SIZE \in Nat \ {0}
    /\ Page(HEAP_START) \in Nat \ {0} /\ HEAP_START = Page(HEAP_START) * BLOCK_SIZE
    /\ HEAP_PAGES \in Nat \ {0}
    /\ HeapPages = Page(HEAP_START) .. (Page(HEAP_START) + HEAP_PAGES - 1)
    /\ IsFiniteSet(HeapPages) /\ Cardinality(HeapPages) = HEAP_PAGES
<1>1. HEAP_MAX_ORDER \in Nat /\ HEAP_START \in Nat \ {0} /\ BLOCK_SIZE \in Nat \ {0}
  BY HeapAssumption, SizesAssumption
<1>2. Aligned(HEAP_START)
  <2> DEFINE k == HEAP_START \div BLOCK_SIZE
  <2>1. k \in Nat /\ HEAP_START = k * BLOCK_SIZE
    BY HeapAssumption, SizesAssumption
  <2> HIDE DEF k
  <2> QED BY <2>1 DEF Aligned
<1>3. /\ Page(HEAP_START) \in Nat /\ HEAP_START = Page(HEAP_START) * BLOCK_SIZE
      /\ HeapPages = Page(HEAP_START) .. (Page(HEAP_START) + HEAP_PAGES - 1)
      /\ IsFiniteSet(HeapPages) /\ Cardinality(HeapPages) = HEAP_PAGES
  BY <1>1, <1>2, PagesOfBlock DEF HeapPages, HEAP_PAGES
<1>4. Page(HEAP_START) # 0
  BY <1>1, <1>3
<1>5. HEAP_PAGES \in Nat \ {0}
  BY <1>1, ShiftDoubles DEF HEAP_PAGES
<1> QED BY <1>1, <1>2, <1>3, <1>4, <1>5

(* A block starts where one of these pages does.                           *)
LEMMA StartPages ==
    /\ \A x \in Starts : /\ x \in Nat /\ x # NULL /\ x # UNKNOWN /\ Aligned(x)
                         /\ Page(x) \in HeapPages /\ x = Page(x) * BLOCK_SIZE
    /\ \A p \in HeapPages : p \in Nat \ {0} /\ p * BLOCK_SIZE \in Starts
    /\ HEAP_START \in Starts
<1> DEFINE k == Page(HEAP_START)
           B == BLOCK_SIZE
           n == HEAP_PAGES
<1>1. /\ k \in Nat \ {0} /\ HEAP_START = k * B /\ n \in Nat \ {0} /\ B \in Nat \ {0}
      /\ HeapPages = k .. (k + n - 1)
  BY HeapOnPages
<1>2. Starts = {HEAP_START + i * B : i \in 0 .. (n - 1)}
  BY DEF Starts
<1>3. \A m \in Nat : Page(m * B) = m
  BY <1>1 DEF Page
<1> HIDE DEF k, B, n
<1>4. ASSUME NEW i \in 0 .. (n - 1)
      PROVE  /\ k + i \in HeapPages /\ HEAP_START + i * B = (k + i) * B
             /\ (k + i) * B \in Nat /\ (k + i) * B > 0 /\ k + i \in Nat
  <2>1. k + i \in Nat \ {0} /\ k + i \in HeapPages /\ i \in Nat
    BY <1>1
  <2>2. k * B + i * B = (k + i) * B
    BY <1>1, <2>1
  <2>3. (k + i) * B \in Nat /\ (k + i) * B > 0
    <3> DEFINE m == k + i
    <3>1. m \in Nat \ {0}
      BY <2>1
    <3> HIDE DEF m
    <3>2. m * B \in Nat /\ m * B > 0
      BY <1>1, <3>1
    <3> QED BY <3>2 DEF m
  <2> QED BY <1>1, <2>1, <2>2, <2>3
<1>5. ASSUME NEW x \in Starts
      PROVE  /\ x \in Nat /\ x # NULL /\ x # UNKNOWN /\ Aligned(x)
             /\ Page(x) \in HeapPages /\ x = Page(x) * B
  <2>1. PICK i \in 0 .. (n - 1) : x = HEAP_START + i * B
    BY <1>2
  <2>2. x = (k + i) * B /\ x \in Nat /\ x > 0 /\ k + i \in Nat /\ k + i \in HeapPages
    BY <1>4, <2>1
  <2>3. Page(x) = k + i
    BY <1>3, <2>2
  <2>4. Aligned(x)
    BY <2>2 DEF Aligned, B
  <2> QED BY <2>2, <2>3, <2>4 DEF NULL, UNKNOWN
<1>6. ASSUME NEW p \in HeapPages PROVE p \in Nat \ {0} /\ p * B \in Starts
  <2>1. p \in Nat \ {0} /\ p - k \in 0 .. (n - 1) /\ k + (p - k) = p
    BY <1>1
  <2>2. HEAP_START + (p - k) * B = p * B
    BY <1>4, <2>1
  <2> QED BY <1>2, <2>1, <2>2
<1>7. HEAP_START \in Starts
  <2>1. k \in HeapPages
    BY <1>1
  <2> QED BY <1>1, <1>6, <2>1
<1> QED BY <1>5, <1>6, <1>7 DEF B

(* An aligned address in the heap is one of them.                          *)
LEMMA InStarts ==
    ASSUME NEW a, Aligned(a), HEAP_START <= a, a < HEAP_START + heap_order_to_size(HEAP_MAX_ORDER)
    PROVE  a \in Starts
<1>1. PICK k \in Nat : a = k * BLOCK_SIZE
  BY DEF Aligned
<1>2. k \in HeapPages
  BY <1>1, HeapOnPages, PagesOfBlock DEF HeapPages
<1> QED BY <1>1, <1>2, StartPages

(* A list of different starts is no longer than the heap has pages.        *)
LEMMA ShortLists ==
    ASSUME NEW s \in Seq(Nat), NoTwice(s), ToSet(s) \subseteq Starts
    PROVE  Len(s) \in Nat /\ Len(s) <= HEAP_PAGES
<1> DEFINE I == 1 .. Len(s)
           f == [i \in I |-> Page(s[i])]
<1>1. Len(s) \in Nat /\ DOMAIN s = I
  BY LenProperties
<1>2. \A i \in I : s[i] \in Starts
  BY <1>1 DEF ToSet
<1>3. \A i \in I : Page(s[i]) \in HeapPages /\ s[i] = Page(s[i]) * BLOCK_SIZE
  BY <1>2, StartPages
<1>4. \A i, j \in I : f[i] = f[j] => i = j
  <2>1. SUFFICES ASSUME NEW i \in I, NEW j \in I, f[i] = f[j] PROVE i = j
    OBVIOUS
  <2>2. Page(s[i]) = Page(s[j])
    BY <2>1
  <2>3. s[i] = s[j]
    BY <1>3, <2>2
  <2> QED BY <2>3 DEF NoTwice
<1>5. f \in [I -> HeapPages]
  BY <1>3
<1>6. IsFiniteSet(I) /\ Cardinality(I) = Len(s)
  <2>1. /\ IsFiniteSet(1 .. Len(s))
        /\ Cardinality(1 .. Len(s)) = IF 1 > Len(s) THEN 0 ELSE Len(s) - 1 + 1
    BY <1>1, FS_Interval
  <2> QED BY <1>1, <2>1
<1> HIDE DEF I, f
<1>7. f \in Injection(I, HeapPages)
  BY <1>4, <1>5 DEF Injection, IsInjective
<1>8. Cardinality(I) <= Cardinality(HeapPages)
  BY <1>6, <1>7, HeapOnPages, FS_Injection DEF ExistsInjection
<1> QED BY <1>1, <1>6, <1>8, HeapOnPages

-----------------------------------------------------------------------------
(* What the functions of the heap pass on, whatever callers have written:  *)
(* a head or a link is that of a block, NULL or unknown.                   *)
Links == Starts \cup {NULL, UNKNOWN}
Words == [rest : Links, order : Orders \cup {UNKNOWN}]
Kernels == {"runs", "past_list", "loops", "lost"}
Heaps == [head : [Orders -> Links], word : [0 .. Top - 1 -> Words], kernel : Kernels]

(* The frame a block begins in.                                            *)
FrameOf(b) == pte[Page(b)]
InRange == \A x \in Starts : FrameOf(x) \in 0 .. Top - 1
Alone == \A x, y \in Starts : FrameOf(x) = FrameOf(y) => x = y

LEMMA LinkTyped ==
    ASSUME InRange, NEW h \in Heaps, NEW b \in Starts
    PROVE  Link(h, b) \in Links
<1>1. h.word[pte[Page(b)]] \in Words
  BY DEF Heaps, InRange, FrameOf
<1> QED BY <1>1 DEF Link, Words, Links

LEMMA LinkWord ==
    ASSUME NEW link \in Links
    PROVE  AsWord(link) \in Words
<1>1. 0 \in Orders
  BY HeapAssumption DEF Orders
<1> QED BY <1>1 DEF AsWord, Junk, Words, Links

(* heap_add_block leaves a heap, whatever it is given.                     *)
LEMMA AddTyped ==
    ASSUME InRange, NEW h \in Heaps, NEW o \in Orders, NEW b
    PROVE  heap_add_block(h, o, b) \in Heaps
<1>1. HEAP_MAX_ORDER \in Nat /\ ~ (o > HEAP_MAX_ORDER)
  BY HeapAssumption DEF Orders
<1>2. /\ h.head \in [Orders -> Links] /\ h.word \in [0 .. Top - 1 -> Words] /\ h.kernel \in Kernels
      /\ h = [head |-> h.head, word |-> h.word, kernel |-> h.kernel]
  BY DEF Heaps
<1>3. CASE b \notin Starts
  <2>1. heap_add_block(h, o, b) = [h EXCEPT !.kernel = "lost"]
    BY <1>1, <1>3 DEF heap_add_block
  <2> QED BY <1>2, <2>1 DEF Heaps, Kernels
<1>4. CASE b \in Starts
  <2> DEFINE head == [h.head EXCEPT ![o] = b]
             word2 == [h.word EXCEPT ![FrameOf(b)] = AsWord(h.head[o])]
  <2>1. heap_add_block(h, o, b) = [h EXCEPT !.head[o] = b, !.word[FrameOf(b)] = AsWord(h.head[o])]
    BY <1>1, <1>4 DEF heap_add_block, FrameOf
  <2>2. heap_add_block(h, o, b) = [head |-> head, word |-> word2, kernel |-> h.kernel]
    BY <1>2, <2>1
  <2>3. AsWord(h.head[o]) \in Words
    BY <1>2, LinkWord
  <2>4. head \in [Orders -> Links] /\ word2 \in [0 .. Top - 1 -> Words]
    BY <1>2, <1>4, <2>3 DEF Links
  <2> HIDE DEF head, word2
  <2> QED BY <1>2, <2>2, <2>4 DEF Heaps
<1> QED BY <1>3, <1>4

(* A walk along a list, one block a round.                                 *)
LEMMA Walk ==
    ASSUME InRange, NEW h \in Heaps, NEW o \in Orders
    PROVE  /\ Met(h, o) \in [Nat -> Links]
           /\ Met(h, o)[0] = h.head[o]
           /\ \A n \in Nat : Met(h, o)[n + 1] =
                 IF Met(h, o)[n] \in Starts THEN Link(h, Met(h, o)[n]) ELSE Met(h, o)[n]
<1> DEFINE Next1(x) == IF x \in Starts THEN Link(h, x) ELSE x
           F == [n \in Nat |-> [x \in Links |-> Next1(x)]]
           Good(g) == g = [n \in Nat |-> IF n = 0 THEN h.head[o] ELSE Next1(g[n - 1])]
           c == CHOOSE g : Good(g)
<1>1. Met(h, o) = c
  BY DEF Met
<1>2. \A x \in Links : Next1(x) \in Links
  BY LinkTyped
<1>3. h.head[o] \in Links
  BY DEF Heaps
<1> HIDE DEF Next1
<1>4. F \in [Nat -> [Links -> Links]]
  BY <1>2
<1>5. PICK g \in [Nat -> Links] : Follows(g, h.head[o], F)
  <2> HIDE DEF F
  <2> QED BY <1>3, <1>4, Recursion
<1>6. g[0] = h.head[o] /\ \A n \in Nat : g[n + 1] = Next1(g[n])
  BY <1>5 DEF Follows
<1>7. Good(g)
  <2>1. ASSUME NEW n \in Nat PROVE g[n] = IF n = 0 THEN h.head[o] ELSE Next1(g[n - 1])
    <3>1. CASE n # 0
      <4>1. n - 1 \in Nat /\ (n - 1) + 1 = n
        BY <3>1
      <4> QED BY <1>6, <3>1, <4>1
    <3> QED BY <1>6, <3>1
  <2>2. g = [n \in Nat |-> g[n]]
    BY <1>5
  <2> QED BY <2>1, <2>2
<1>8. Good(c)
  BY <1>7
<1> HIDE DEF c
<1>9. c[0] = h.head[o] /\ \A n \in Nat : c[n + 1] = Next1(c[n])
  <2>1. \A n \in Nat : n + 1 \in Nat /\ n + 1 # 0 /\ (n + 1) - 1 = n
    OBVIOUS
  <2>2. \A n \in Nat : c[n] = IF n = 0 THEN h.head[o] ELSE Next1(c[n - 1])
    BY <1>8
  <2> QED BY <2>1, <2>2
<1>10. c = [n \in Nat |-> c[n]]
  BY <1>8
<1> HIDE DEF Good
<1>11. \A n \in Nat : c[n] \in Links
  <2> DEFINE T == {n \in Nat : c[n] \notin Links}
  <2>1. SUFFICES ASSUME T # {} PROVE FALSE
    OBVIOUS
  <2>2. PICK n \in T : \A m \in T : n <= m
    BY <2>1, LeastElement
  <2>3. n # 0
    BY <1>3, <1>9, <2>2
  <2>4. n - 1 \in Nat /\ n - 1 \notin T /\ (n - 1) + 1 = n
    BY <2>2, <2>3
  <2>5. c[n] = Next1(c[n - 1])
    BY <1>9, <2>4
  <2> QED BY <1>2, <2>2, <2>4, <2>5
<1>12. c \in [Nat -> Links]
  BY <1>10, <1>11
<1> QED BY <1>1, <1>9, <1>12 DEF Next1

(* How a loop ends: where it is then, if it ends at all.                   *)
LEMMA SearchEnds ==
    ASSUME InRange, NEW h \in Heaps, NEW o \in Orders, NEW b
    PROVE  /\ Search(h, o, b) \in {"loops", "lost", "absent", "found"}
           /\ Search(h, o, b) # "loops" =>
                 LET n == Min(Rounds(h, o, b))
                 IN  /\ n \in Nat /\ Met(h, o)[n] \in {b, NULL, UNKNOWN}
                     /\ \A k \in 0 .. n - 1 : Met(h, o)[k] \notin {b, NULL, UNKNOWN}
                     /\ Search(h, o, b) = "lost" <=> Met(h, o)[n] = UNKNOWN
                     /\ Search(h, o, b) = "absent" <=> Met(h, o)[n] = NULL
<1> DEFINE R == Rounds(h, o, b)
           n == Min(R)
           last == Met(h, o)[n]
<1>1. R \subseteq 0 .. HEAP_PAGES /\ HEAP_PAGES \in Nat
  BY HeapOnPages DEF Rounds
<1>2. Search(h, o, b) = IF R = {} THEN "loops"
                        ELSE IF last = UNKNOWN THEN "lost" ELSE IF last = NULL THEN "absent" ELSE "found"
  BY DEF Search
<1>3. R # {} => n \in R /\ \A y \in R : n <= y
  BY <1>1, MinOf
<1>4. \A k \in 0 .. HEAP_PAGES : k \in R <=> Met(h, o)[k] \in {b, NULL, UNKNOWN}
  BY DEF Rounds
<1> HIDE DEF R, n, last
<1>5. ASSUME R # {}
      PROVE  /\ n \in Nat /\ last \in {b, NULL, UNKNOWN}
             /\ \A k \in 0 .. n - 1 : Met(h, o)[k] \notin {b, NULL, UNKNOWN}
  <2>1. n \in R /\ n \in 0 .. HEAP_PAGES /\ \A y \in R : n <= y
    BY <1>1, <1>3, <1>5
  <2>2. \A k \in 0 .. n - 1 : k \in 0 .. HEAP_PAGES /\ k \notin R
    BY <1>1, <2>1
  <2>3. n \in Nat
    BY <1>1, <2>1
  <2> QED BY <1>4, <2>1, <2>2, <2>3 DEF last
<1>6. NULL # UNKNOWN
  BY DEF NULL, UNKNOWN
<1> QED BY <1>2, <1>5, <1>6 DEF last, n, R

(* heap_del_block leaves a heap, whatever it is given.                     *)
LEMMA DelTyped ==
    ASSUME InRange, NEW h \in Heaps, NEW o \in Orders, NEW b
    PROVE  heap_del_block(h, o, b) \in Heaps
<1> DEFINE end == Search(h, o, b)
           n == Min(Rounds(h, o, b))
           prev == pte[Page(Met(h, o)[n - 1])]
           new == heap_del_block(h, o, b)
<1>1. HEAP_MAX_ORDER \in Nat /\ ~ (o > HEAP_MAX_ORDER)
  BY HeapAssumption DEF Orders
<1>2. /\ h.head \in [Orders -> Links] /\ h.word \in [0 .. Top - 1 -> Words] /\ h.kernel \in Kernels
      /\ h = [head |-> h.head, word |-> h.word, kernel |-> h.kernel]
  BY DEF Heaps
<1>3. new = CASE end = "absent" -> h
              [] end = "found" /\ n % 256 = 0 -> [h EXCEPT !.head[o] = Link(h, b)]
              [] end = "found" /\ n % 256 # 0 -> [h EXCEPT !.word[prev] = AsWord(Link(h, b))]
              [] OTHER -> [h EXCEPT !.kernel = end]
  BY <1>1 DEF heap_del_block
<1>4. end \in {"loops", "lost", "absent", "found"}
  BY SearchEnds
<1>5. end = "found" => b \in Starts
  <2>1. SUFFICES ASSUME end = "found" PROVE b \in Starts
    OBVIOUS
  <2>2. /\ n \in Nat /\ Met(h, o)[n] \in {b, NULL, UNKNOWN}
        /\ end = "lost" <=> Met(h, o)[n] = UNKNOWN
        /\ end = "absent" <=> Met(h, o)[n] = NULL
    BY <2>1, SearchEnds
  <2>3. Met(h, o)[n] \in Links
    BY <2>2, Walk
  <2> QED BY <2>1, <2>2, <2>3 DEF Links
<1>6. b \in Starts => Link(h, b) \in Links /\ AsWord(Link(h, b)) \in Words
  BY LinkTyped, LinkWord
<1> SUFFICES new \in Heaps
  OBVIOUS
<1> HIDE DEF end, n, prev, new
<1>7. CASE end = "absent"
  BY <1>3, <1>7
<1>8. CASE end = "found" /\ n % 256 = 0
  <2> DEFINE head == [h.head EXCEPT ![o] = Link(h, b)]
  <2>1. new = [h EXCEPT !.head[o] = Link(h, b)]
    BY <1>3, <1>8
  <2>2. new = [head |-> head, word |-> h.word, kernel |-> h.kernel]
    BY <1>2, <2>1
  <2>3. head \in [Orders -> Links]
    BY <1>2, <1>5, <1>6, <1>8
  <2> HIDE DEF head
  <2> QED BY <1>2, <2>2, <2>3 DEF Heaps
<1>9. CASE end = "found" /\ n % 256 # 0
  <2> DEFINE word2 == [h.word EXCEPT ![prev] = AsWord(Link(h, b))]
  <2>1. new = [h EXCEPT !.word[prev] = AsWord(Link(h, b))]
    BY <1>3, <1>9
  <2>2. new = [head |-> h.head, word |-> word2, kernel |-> h.kernel]
    BY <1>2, <2>1
  <2>3. word2 \in [0 .. Top - 1 -> Words]
    BY <1>2, <1>5, <1>6, <1>9
  <2> HIDE DEF word2
  <2> QED BY <1>2, <2>2, <2>3 DEF Heaps
<1>10. CASE end \notin {"absent", "found"}
  <2>1. new = [h EXCEPT !.kernel = end] /\ end \in Kernels
    BY <1>3, <1>4, <1>10 DEF Kernels
  <2> QED BY <1>2, <2>1 DEF Heaps
<1> QED BY <1>4, <1>7, <1>8, <1>9, <1>10

-----------------------------------------------------------------------------
(* One round of the loop of heap_split_block, down to order o.             *)
Halve(h, o, b) ==
    heap_add_block(
        heap_add_block(heap_del_block(h, o + 1, b), o, b),
        o, b + heap_order_to_size(o))

LEMMA HalveTyped ==
    ASSUME InRange, NEW h \in Heaps, NEW o \in Orders, o < HEAP_MAX_ORDER, NEW b
    PROVE  Halve(h, o, b) \in Heaps
<1>1. o + 1 \in Orders
  BY HeapAssumption DEF Orders
<1>2. heap_del_block(h, o + 1, b) \in Heaps
  BY <1>1, DelTyped
<1>3. heap_add_block(heap_del_block(h, o + 1, b), o, b) \in Heaps
  BY <1>2, AddTyped
<1> QED BY <1>3, AddTyped DEF Halve

(* The rounds of heap_split_block, one after the other.                    *)
Splits(start, from, to, b) ==
    \E cut \in [to .. from -> Heaps] :
        /\ cut[from] = start
        /\ \A o \in to .. from - 1 : cut[o] = Halve(cut[o + 1], o, b)
        /\ heap_split_block(start, from, to, b) = cut[to]

LEMMA SplitSteps ==
    ASSUME InRange, NEW start \in Heaps, NEW from \in Orders, NEW to \in 0 .. from, NEW b
    PROVE  Splits(start, from, to, b)
<1> DEFINE Good(f) == f = [o \in to .. from |-> IF o = from THEN start ELSE Halve(f[o + 1], o, b)]
           F == [n \in Nat |-> [l \in Heaps |->
                    IF n < from - to THEN Halve(l, (from - n) - 1, b) ELSE l]]
           c == CHOOSE f : Good(f)
<1>1. from \in Nat /\ to \in Nat /\ to <= from /\ from <= HEAP_MAX_ORDER
  BY HeapAssumption DEF Orders
<1>2. F \in [Nat -> [Heaps -> Heaps]]
  <2>1. ASSUME NEW n \in Nat, NEW l \in Heaps, n < from - to
        PROVE  Halve(l, (from - n) - 1, b) \in Heaps
    <3>1. (from - n) - 1 \in Orders /\ (from - n) - 1 < HEAP_MAX_ORDER
      BY <1>1, <2>1, HeapAssumption DEF Orders
    <3> QED BY <3>1, HalveTyped
  <2> QED BY <2>1
<1>3. PICK g \in [Nat -> Heaps] : Follows(g, start, F)
  <2> HIDE DEF F
  <2> QED BY <1>2, Recursion
<1>4. g[0] = start /\ \A n \in Nat : g[n + 1] = F[n][g[n]]
  <2> HIDE DEF F
  <2> QED BY <1>3 DEF Follows
<1>5. \A n \in Nat : n < from - to => g[n + 1] = Halve(g[n], (from - n) - 1, b)
  BY <1>4
<1> HIDE DEF F
<1> DEFINE h == [o \in to .. from |-> g[from - o]]
<1>6. Good(h)
  <2>1. ASSUME NEW o \in to .. from
        PROVE  h[o] = IF o = from THEN start ELSE Halve(h[o + 1], o, b)
    <3>1. CASE o = from
      BY <1>1, <1>4, <3>1
    <3>2. CASE o # from
      <4> DEFINE n == from - (o + 1)
      <4>1. /\ n \in Nat /\ n < from - to /\ n + 1 = from - o
            /\ (from - n) - 1 = o /\ o + 1 \in to .. from
        BY <1>1, <3>2
      <4>2. h[o] = g[n + 1] /\ h[o + 1] = g[n]
        BY <4>1
      <4> HIDE DEF n, h
      <4>3. h[o] = Halve(h[o + 1], o, b)
        BY <1>5, <4>1, <4>2
      <4> QED BY <3>2, <4>3
    <3> QED BY <3>1, <3>2
  <2>2. h = [o \in to .. from |-> h[o]]
    OBVIOUS
  <2> HIDE DEF h
  <2> QED BY <2>1, <2>2
<1> HIDE DEF h
<1>7. Good(c)
  BY <1>6
<1>8. heap_split_block(start, from, to, b) = c[to]
  BY DEF heap_split_block, Halve
<1> HIDE DEF c
<1>9. \A o \in to .. from : c[o] = IF o = from THEN start ELSE Halve(c[o + 1], o, b)
  BY <1>7
<1>10. c[from] = start /\ \A o \in to .. from - 1 : c[o] = Halve(c[o + 1], o, b)
  <2>1. from \in to .. from /\ \A o \in to .. from - 1 : o \in to .. from /\ o # from
    BY <1>1
  <2> QED BY <1>9, <2>1
<1>11. c \in [to .. from -> Heaps]
  <2> DEFINE T == {n \in Nat : n <= from - to /\ c[from - n] \notin Heaps}
  <2>1. \A o \in to .. from : c[o] \in Heaps
    <3>1. SUFFICES ASSUME T # {} PROVE FALSE
      <4>1. ASSUME NEW o \in to .. from, T = {} PROVE c[o] \in Heaps
        <5>1. from - o \in Nat /\ from - o <= from - to /\ from - (from - o) = o
          BY <1>1
        <5> QED BY <4>1, <5>1
      <4> QED BY <4>1
    <3>2. PICK n \in T : \A k \in T : n <= k
      BY <3>1, LeastElement
    <3>3. n # 0
      BY <1>1, <1>10, <3>2
    <3>4. n - 1 \in Nat /\ n - 1 <= from - to /\ n - 1 \notin T
      BY <1>1, <3>2, <3>3
    <3>5. /\ from - n \in to .. from - 1 /\ (from - n) + 1 = from - (n - 1)
          /\ from - n \in Orders /\ from - n < HEAP_MAX_ORDER
      BY <1>1, <3>2, <3>3, HeapAssumption DEF Orders
    <3>6. c[(from - n) + 1] \in Heaps
      BY <3>4, <3>5
    <3>7. c[from - n] = Halve(c[(from - n) + 1], from - n, b)
      BY <1>10, <3>5
    <3>8. c[from - n] \in Heaps
      BY <3>5, <3>6, <3>7, HalveTyped
    <3> QED BY <3>2, <3>8
  <2>2. c = [o \in to .. from |-> c[o]]
    BY <1>7
  <2> QED BY <2>1, <2>2
<1> QED BY <1>8, <1>10, <1>11 DEF Splits

(* One round of the loop of heap_free, up to order o.                      *)
Lift(s, o, ptr) ==
    LET size == heap_order_to_size(o - 1)
        end == Search(s.heap, o - 1, Buddy(ptr, size))
    IN  IF s.merged /\ end = "found"
        THEN [heap |-> heap_add_block(
                   heap_del_block(heap_del_block(s.heap, o - 1, ptr), o - 1, ptr + size), o, ptr),
              merged |-> TRUE]
        ELSE IF s.merged /\ end # "absent"
        THEN [heap |-> [s.heap EXCEPT !.kernel = end], merged |-> FALSE]
        ELSE [s EXCEPT !.merged = FALSE]

Lifts == [heap : Heaps, merged : BOOLEAN]

LEMMA LiftTyped ==
    ASSUME InRange, NEW s \in Lifts, NEW o \in 1 .. HEAP_MAX_ORDER + 1, NEW ptr
    PROVE  Lift(s, o, ptr) \in Lifts
<1> DEFINE size == heap_order_to_size(o - 1)
           end == Search(s.heap, o - 1, Buddy(ptr, size))
           twice == heap_del_block(heap_del_block(s.heap, o - 1, ptr), o - 1, ptr + size)
           up == heap_add_block(twice, o, ptr)
           stop == [s.heap EXCEPT !.kernel = end]
<1>1. o - 1 \in Orders /\ HEAP_MAX_ORDER \in Nat
  BY HeapAssumption DEF Orders
<1>2. s.heap \in Heaps /\ s.merged \in BOOLEAN /\ s = [heap |-> s.heap, merged |-> s.merged]
  BY DEF Lifts
<1>3. twice \in Heaps
  <2>1. heap_del_block(s.heap, o - 1, ptr) \in Heaps
    BY <1>1, <1>2, DelTyped
  <2> QED BY <1>1, <2>1, DelTyped
<1> HIDE DEF twice
<1>4. up \in Heaps
  <2>1. CASE o \in Orders
    BY <1>3, <2>1, AddTyped
  <2>2. CASE o > HEAP_MAX_ORDER
    BY <1>3, <2>2 DEF heap_add_block
  <2> QED BY <1>1, <2>1, <2>2 DEF Orders
<1>5. end \notin {"absent", "found"} => stop \in Heaps
  <2>1. end \in {"loops", "lost", "absent", "found"}
    BY <1>1, <1>2, SearchEnds
  <2> DEFINE g == s.heap
  <2>2. /\ g.head \in [Orders -> Links] /\ g.word \in [0 .. Top - 1 -> Words]
        /\ g = [head |-> g.head, word |-> g.word, kernel |-> g.kernel]
    BY <1>2 DEF Heaps
  <2> HIDE DEF end, g
  <2>3. [g EXCEPT !.kernel = end] = [head |-> g.head, word |-> g.word, kernel |-> end]
    BY <2>2
  <2>4. end \notin {"absent", "found"} => end \in Kernels
    BY <2>1 DEF Kernels
  <2>5. end \notin {"absent", "found"} => [g EXCEPT !.kernel = end] \in Heaps
    BY <2>2, <2>3, <2>4 DEF Heaps
  <2> QED BY <2>5 DEF g
<1>6. Lift(s, o, ptr) = IF s.merged /\ end = "found" THEN [heap |-> up, merged |-> TRUE]
                        ELSE IF s.merged /\ end # "absent" THEN [heap |-> stop, merged |-> FALSE]
                        ELSE [s EXCEPT !.merged = FALSE]
  BY DEF Lift, twice
<1>7. [s EXCEPT !.merged = FALSE] = [heap |-> s.heap, merged |-> FALSE]
  <2>1. \A l, m, v : [[heap |-> l, merged |-> m] EXCEPT !.merged = v] = [heap |-> l, merged |-> v]
    OBVIOUS
  <2> DEFINE l == s.heap
             m == s.merged
  <2>2. s = [heap |-> l, merged |-> m]
    BY <1>2
  <2> HIDE DEF l, m
  <2>3. [s EXCEPT !.merged = FALSE] = [heap |-> l, merged |-> FALSE]
    BY <2>1, <2>2, Zenon
  <2> QED BY <2>3 DEF l
<1> HIDE DEF end, up, stop
<1> DEFINE new == Lift(s, o, ptr)
<1> HIDE DEF new
<1>8. new \in Lifts
  <2>1. CASE s.merged /\ end = "found"
    BY <1>4, <1>6, <2>1 DEF Lifts, new
  <2>2. CASE s.merged /\ end \notin {"absent", "found"}
    BY <1>5, <1>6, <2>2 DEF Lifts, new
  <2>3. CASE ~ s.merged \/ end = "absent"
    <3>1. new = [heap |-> s.heap, merged |-> FALSE]
      BY <1>6, <1>7, <2>3 DEF new
    <3> QED BY <1>2, <3>1 DEF Lifts
  <2> QED BY <2>1, <2>2, <2>3
<1> QED BY <1>8 DEF new

(* The rounds of heap_free, one after the other.                           *)
LEMMA JoinSteps ==
    ASSUME InRange, NEW h \in Heaps, NEW order \in 0 .. HEAP_MAX_ORDER + 1, NEW ptr
    PROVE  \E at \in [order .. HEAP_MAX_ORDER + 1 -> Lifts] :
              /\ at[order] = [heap |-> h, merged |-> TRUE]
              /\ \A o \in order + 1 .. HEAP_MAX_ORDER + 1 : at[o] = Lift(at[o - 1], o, ptr)
              /\ Join(h, order, ptr) = at[HEAP_MAX_ORDER + 1].heap
<1> DEFINE M == HEAP_MAX_ORDER
           base == [heap |-> h, merged |-> TRUE]
           Good(f) == f = [o \in order .. M + 1 |-> IF o = order THEN base ELSE Lift(f[o - 1], o, ptr)]
           F == [n \in Nat |-> [s \in Lifts |->
                    IF order + n <= M THEN Lift(s, (order + n) + 1, ptr) ELSE s]]
           c == CHOOSE f : Good(f)
<1>1. M \in Nat /\ order \in Nat /\ order <= M + 1
  BY HeapAssumption
<1>2. base \in Lifts
  BY DEF Lifts
<1>3. Join(h, order, ptr) = c[M + 1].heap
  BY DEF Join, Lift
<1> HIDE DEF base, c, M
<1>4. F \in [Nat -> [Lifts -> Lifts]]
  <2>1. ASSUME NEW n \in Nat, NEW s \in Lifts, order + n <= M
        PROVE  Lift(s, (order + n) + 1, ptr) \in Lifts
    <3>1. (order + n) + 1 \in 1 .. HEAP_MAX_ORDER + 1
      BY <1>1, <2>1 DEF M
    <3> QED BY <3>1, LiftTyped
  <2> QED BY <2>1
<1>5. PICK g \in [Nat -> Lifts] : Follows(g, base, F)
  <2> HIDE DEF F
  <2> QED BY <1>2, <1>4, Recursion
<1>6. g[0] = base /\ \A n \in Nat : g[n + 1] = F[n][g[n]]
  <2> HIDE DEF F
  <2> QED BY <1>5 DEF Follows
<1>7. \A n \in Nat : order + n <= M => g[n + 1] = Lift(g[n], (order + n) + 1, ptr)
  BY <1>6
<1> HIDE DEF F
<1> DEFINE w == [o \in order .. M + 1 |-> g[o - order]]
<1>8. Good(w)
  <2>1. ASSUME NEW o \in order .. M + 1
        PROVE  w[o] = IF o = order THEN base ELSE Lift(w[o - 1], o, ptr)
    <3>1. CASE o = order
      BY <1>1, <1>6, <3>1
    <3>2. CASE o # order
      <4> DEFINE n == (o - 1) - order
      <4>1. /\ n \in Nat /\ order + n <= M /\ n + 1 = o - order /\ (order + n) + 1 = o
            /\ o - 1 \in order .. M + 1
        BY <1>1, <3>2
      <4>2. w[o] = g[n + 1] /\ w[o - 1] = g[n]
        BY <4>1
      <4> HIDE DEF n, w
      <4>3. w[o] = Lift(w[o - 1], o, ptr)
        BY <1>7, <4>1, <4>2
      <4> QED BY <3>2, <4>3
    <3> QED BY <3>1, <3>2
  <2>2. w = [o \in order .. M + 1 |-> w[o]]
    OBVIOUS
  <2> HIDE DEF w
  <2> QED BY <2>1, <2>2
<1> HIDE DEF w
<1>9. Good(c)
  BY <1>8 DEF c
<1>10. \A o \in order .. M + 1 : c[o] = IF o = order THEN base ELSE Lift(c[o - 1], o, ptr)
  BY <1>9
<1>11. c = [o \in order .. M + 1 |-> c[o]]
  BY <1>9
<1> HIDE DEF Good
<1>12. c[order] = base /\ \A o \in order + 1 .. M + 1 : c[o] = Lift(c[o - 1], o, ptr)
  <2>1. order \in order .. M + 1 /\ \A o \in order + 1 .. M + 1 : o \in order .. M + 1 /\ o # order
    BY <1>1
  <2> QED BY <1>10, <2>1
<1> DEFINE T == {o \in order .. M + 1 : c[o] \notin Lifts}
<1>13. T = {}
  <2>1. SUFFICES ASSUME T # {} PROVE FALSE
    OBVIOUS
  <2>2. PICK o \in T : \A p \in T : o <= p
    <3>1. T \subseteq Nat
      BY <1>1
    <3> HIDE DEF T
    <3> QED BY <2>1, <3>1, LeastElement
  <2>3. o # order
    BY <1>2, <1>12, <2>2
  <2>4. o \in order + 1 .. M + 1 /\ o - 1 \in order .. M + 1 /\ o \in 1 .. M + 1
    BY <1>1, <2>2, <2>3
  <2>5. o - 1 \notin T
    BY <2>2, <2>4
  <2>6. c[o - 1] \in Lifts
    BY <2>4, <2>5
  <2>7. c[o] \in Lifts
    BY <1>12, <2>4, <2>6, LiftTyped DEF M
  <2> QED BY <2>2, <2>7
<1>14. c \in [order .. M + 1 -> Lifts]
  BY <1>11, <1>13
<1> QED BY <1>3, <1>12, <1>14 DEF base, M

LEMMA JoinTyped ==
    ASSUME InRange, NEW h \in Heaps, NEW order \in 0 .. HEAP_MAX_ORDER + 1, NEW ptr
    PROVE  Join(h, order, ptr) \in Heaps
<1>1. HEAP_MAX_ORDER + 1 \in order .. HEAP_MAX_ORDER + 1
  BY HeapAssumption
<1>2. PICK at \in [order .. HEAP_MAX_ORDER + 1 -> Lifts] :
         /\ at[order] = [heap |-> h, merged |-> TRUE]
         /\ \A o \in order + 1 .. HEAP_MAX_ORDER + 1 : at[o] = Lift(at[o - 1], o, ptr)
         /\ Join(h, order, ptr) = at[HEAP_MAX_ORDER + 1].heap
  BY JoinSteps
<1>3. at[HEAP_MAX_ORDER + 1] \in Lifts
  BY <1>1, <1>2
<1> QED BY <1>2, <1>3 DEF Lifts

(* An order at which the buddy's address is not found ends the loop, so if *)
(* that is every order the heap stays as it is.                            *)
LEMMA JoinFindsNothing ==
    ASSUME InRange, NEW h \in Heaps, NEW order \in 0 .. HEAP_MAX_ORDER + 1, NEW ptr,
           \A o \in Orders : Search(h, o, Buddy(ptr, heap_order_to_size(o))) = "absent"
    PROVE  Join(h, order, ptr) = h
<1> DEFINE M == HEAP_MAX_ORDER
<1>1. M \in Nat /\ order \in Nat /\ order <= M + 1
  BY HeapAssumption
<1>2. PICK at \in [order .. M + 1 -> Lifts] :
         /\ at[order] = [heap |-> h, merged |-> TRUE]
         /\ \A o \in order + 1 .. M + 1 : at[o] = Lift(at[o - 1], o, ptr)
         /\ Join(h, order, ptr) = at[M + 1].heap
  BY JoinSteps
<1>3. ASSUME NEW o \in order + 1 .. M + 1, at[o - 1].heap = h PROVE at[o].heap = h
  <2> DEFINE s == at[o - 1]
  <2>1. o - 1 \in Orders /\ o - 1 \in order .. M + 1
    BY <1>1 DEF Orders
  <2>2. s \in Lifts /\ s.heap = h
    BY <1>2, <1>3, <2>1
  <2>3. at[o] = Lift(s, o, ptr)
    BY <1>2
  <2> HIDE DEF s
  <2>4. Search(s.heap, o - 1, Buddy(ptr, heap_order_to_size(o - 1))) = "absent"
    BY <2>1, <2>2
  <2>5. Lift(s, o, ptr) = [s EXCEPT !.merged = FALSE]
    BY <2>4 DEF Lift
  <2> QED BY <2>2, <2>3, <2>5 DEF Lifts
<1> HIDE DEF M
<1> DEFINE U == {o \in order .. M + 1 : at[o].heap # h}
<1>4. U = {}
  <2>1. SUFFICES ASSUME U # {} PROVE FALSE
    OBVIOUS
  <2>2. PICK o \in U : \A p \in U : o <= p
    <3>1. U \subseteq Nat
      BY <1>1
    <3> HIDE DEF U
    <3> QED BY <2>1, <3>1, LeastElement
  <2>3. o # order
    BY <1>2, <2>2
  <2>4. o \in order + 1 .. M + 1 /\ o - 1 \in order .. M + 1
    BY <1>1, <2>2, <2>3
  <2>5. o - 1 \notin U
    BY <2>2, <2>4
  <2> QED BY <1>3, <2>2, <2>4, <2>5
<1>5. M + 1 \in order .. M + 1
  BY <1>1
<1> QED BY <1>2, <1>4, <1>5

-----------------------------------------------------------------------------
(* The block behind the i-th of a list, the first one for i = 0.           *)
After(s, i) == IF i < Len(s) THEN s[i + 1] ELSE NULL

(* The memory of h holds the lists, no block on two of them, and the order *)
(* bytes of the live blocks D.                                             *)
Once(list) ==
    \A o, p \in Orders : \A a : a \in ToSet(list[o]) /\ a \in ToSet(list[p]) => o = p
OnLists(list) == UNION {ToSet(list[o]) : o \in Orders}
Linked(h, list) ==
    \A o \in Orders :
        /\ h.head[o] = After(list[o], 0)
        /\ \A i \in 1 .. Len(list[o]) : Link(h, list[o][i]) = After(list[o], i)
Stamped(h, D) == \A x \in D : h.word[FrameOf(x)].order = live[x].order
Memory(h, list, D) ==
    /\ list \in Lists /\ Once(list) /\ OnLists(list) \subseteq Starts
    /\ D \subseteq Starts \ OnLists(list)
    /\ Linked(h, list) /\ Stamped(h, D)

LEMMA ListFacts ==
    ASSUME NEW list \in Lists, OnLists(list) \subseteq Starts, NEW o \in Orders
    PROVE  /\ list[o] \in Seq(Nat) /\ NoTwice(list[o]) /\ Len(list[o]) \in Nat
           /\ Len(list[o]) <= HEAP_PAGES
           /\ \A i \in 1 .. Len(list[o]) : list[o][i] \in ToSet(list[o]) /\ list[o][i] \in Starts
           /\ \A a \in ToSet(list[o]) : \E i \in 1 .. Len(list[o]) : list[o][i] = a
<1>1. list[o] \in Seq(Nat) /\ NoTwice(list[o]) /\ ToSet(list[o]) \subseteq Starts
  BY DEF Lists, Chains, OnLists
<1>2. DOMAIN list[o] = 1 .. Len(list[o])
  BY <1>1, LenProperties
<1>3. ToSet(list[o]) = {list[o][i] : i \in 1 .. Len(list[o])}
  BY <1>2 DEF ToSet
<1> QED BY <1>1, <1>3, ShortLists

(* A walk along a list meets its blocks, one after the other, and NULL.    *)
LEMMA WalkMeets ==
    ASSUME InRange, NEW h \in Heaps, NEW list \in Lists, OnLists(list) \subseteq Starts,
           Linked(h, list), NEW o \in Orders
    PROVE  \A n \in Nat : Met(h, o)[n] = After(list[o], n)
<1> DEFINE met == Met(h, o)
           s == list[o]
           T == {n \in Nat : met[n] # After(s, n)}
<1>1. /\ Len(s) \in Nat /\ \A i \in 1 .. Len(s) : s[i] \in Starts
      /\ NULL \notin Starts
  BY ListFacts, StartPages
<1>2. /\ met[0] = h.head[o]
      /\ \A n \in Nat : met[n + 1] = IF met[n] \in Starts THEN Link(h, met[n]) ELSE met[n]
  BY Walk
<1>3. h.head[o] = After(s, 0) /\ \A i \in 1 .. Len(s) : Link(h, s[i]) = After(s, i)
  BY DEF Linked
<1> HIDE DEF met, s
<1>4. ASSUME NEW n \in Nat, met[n] = After(s, n) PROVE met[n + 1] = After(s, n + 1)
  <2>1. CASE n < Len(s)
    <3>1. n + 1 \in 1 .. Len(s) /\ After(s, n) = s[n + 1]
      BY <1>1, <2>1 DEF After
    <3> QED BY <1>1, <1>2, <1>3, <1>4, <3>1
  <2>2. CASE ~ (n < Len(s))
    <3>1. After(s, n) = NULL /\ After(s, n + 1) = NULL
      BY <1>1, <2>2 DEF After
    <3> QED BY <1>1, <1>2, <1>4, <3>1
  <2> QED BY <2>1, <2>2
<1>5. T = {}
  <2>1. SUFFICES ASSUME T # {} PROVE FALSE
    OBVIOUS
  <2>2. PICK n \in T : \A k \in T : n <= k
    BY <2>1, LeastElement
  <2>3. n # 0
    BY <1>2, <1>3, <2>2
  <2>4. n - 1 \in Nat /\ n - 1 \notin T /\ (n - 1) + 1 = n
    BY <2>2, <2>3
  <2>5. met[n - 1] = After(s, n - 1)
    BY <2>4
  <2>6. met[n] = After(s, n)
    BY <1>4, <2>4, <2>5
  <2> QED BY <2>2, <2>6
<1>6. \A n \in Nat : met[n] = After(s, n)
  BY <1>5
<1> QED BY <1>6 DEF met, s

(* So a loop finds the m-th block of a list after m - 1 rounds, and ends   *)
(* without finding what is not on the list.                                *)
LEMMA SearchMeets ==
    ASSUME InRange, NEW h \in Heaps, NEW list \in Lists, OnLists(list) \subseteq Starts,
           Linked(h, list), NEW o \in Orders, NEW b
    PROVE  /\ b \notin ToSet(list[o]) => Search(h, o, b) = "absent"
           /\ \A m \in 1 .. Len(list[o]) : list[o][m] = b =>
                 Search(h, o, b) = "found" /\ Min(Rounds(h, o, b)) = m - 1
<1> DEFINE s == list[o]
           R == Rounds(h, o, b)
           n == Min(R)
           end == Search(h, o, b)
<1>1. /\ Len(s) \in Nat /\ Len(s) <= HEAP_PAGES /\ HEAP_PAGES \in Nat
      /\ \A i \in 1 .. Len(s) : s[i] \in ToSet(s) /\ s[i] \in Starts
      /\ NoTwice(s)
      /\ NULL \notin Starts /\ UNKNOWN \notin Starts /\ NULL # UNKNOWN
  <2>1. NULL \notin Starts /\ UNKNOWN \notin Starts /\ NULL # UNKNOWN
    BY StartPages DEF NULL, UNKNOWN
  <2>2. HEAP_PAGES \in Nat
    BY HeapOnPages
  <2> HIDE DEF R, n, end
  <2>3. /\ Len(s) \in Nat /\ Len(s) <= HEAP_PAGES /\ NoTwice(s)
        /\ \A i \in 1 .. Len(s) : s[i] \in ToSet(s) /\ s[i] \in Starts
    BY ListFacts
  <2> QED BY <2>1, <2>2, <2>3
<1>2. \A k \in Nat : Met(h, o)[k] = After(s, k)
  BY WalkMeets
<1>3. R = {k \in 0 .. HEAP_PAGES : Met(h, o)[k] \in {b, NULL, UNKNOWN}}
  BY DEF Rounds
<1>4. /\ end = IF R = {} THEN "loops"
               ELSE IF Met(h, o)[n] = UNKNOWN THEN "lost"
               ELSE IF Met(h, o)[n] = NULL THEN "absent" ELSE "found"
      /\ R # {} => n \in R /\ \A y \in R : n <= y
  <2>1. R \subseteq Nat
    BY <1>1, <1>3
  <2> QED BY <2>1, MinOf DEF Search
<1> HIDE DEF s, R, n, end
<1>5. \A k \in 0 .. HEAP_PAGES : k \in R <=> After(s, k) \in {b, NULL, UNKNOWN}
  BY <1>1, <1>2, <1>3
<1>6. \A k \in 0 .. HEAP_PAGES : k < Len(s) => k + 1 \in 1 .. Len(s) /\ After(s, k) = s[k + 1]
  BY <1>1 DEF After
<1>7. \A k \in 0 .. HEAP_PAGES : ~ (k < Len(s)) => After(s, k) = NULL
  BY <1>1 DEF After
<1>8. Len(s) \in R
  BY <1>1, <1>5, <1>7
<1>9. n \in 0 .. HEAP_PAGES /\ n \in R /\ n <= Len(s) /\ Met(h, o)[n] = After(s, n)
  BY <1>1, <1>2, <1>3, <1>4, <1>8
<1>10. ASSUME b \notin ToSet(s) PROVE end = "absent"
  <2>1. ~ (n < Len(s))
    <3>1. SUFFICES ASSUME n < Len(s) PROVE FALSE
      OBVIOUS
    <3>2. After(s, n) \in ToSet(s) /\ After(s, n) \in Starts
      BY <1>1, <1>6, <1>9, <3>1
    <3> QED BY <1>1, <1>5, <1>9, <1>10, <3>2
  <2>2. Met(h, o)[n] = NULL
    BY <1>7, <1>9, <2>1
  <2> QED BY <1>1, <1>4, <1>8, <2>2
<1>11. ASSUME NEW m \in 1 .. Len(s), s[m] = b PROVE end = "found" /\ n = m - 1
  <2>1. m - 1 \in 0 .. HEAP_PAGES /\ m - 1 < Len(s) /\ (m - 1) + 1 = m
    BY <1>1
  <2>2. m - 1 \in R
    BY <1>5, <1>6, <1>11, <2>1
  <2>3. n <= m - 1 /\ n < Len(s)
    BY <1>1, <1>4, <1>9, <2>1, <2>2
  <2>4. After(s, n) = s[n + 1] /\ n + 1 \in 1 .. Len(s) /\ s[n + 1] \in Starts
    BY <1>1, <1>6, <1>9, <2>3
  <2>5. s[n + 1] = b
    BY <1>1, <1>5, <1>9, <2>4
  <2>6. n + 1 = m
    BY <1>1, <1>11, <2>4, <2>5 DEF NoTwice
  <2>7. n = m - 1
    BY <1>9, <2>1, <2>6
  <2> QED BY <1>1, <1>4, <1>8, <1>9, <2>4, <2>7
<1> QED BY <1>10, <1>11 DEF s, end, n, R

(* Adding a block: the link to the old head goes into its own frame.       *)
Added(h, list, D, o, b) ==
    LET g == heap_add_block(h, o, b)
        new == Put(list, o, b)
    IN  /\ g \in Heaps /\ g.kernel = h.kernel /\ g.head[o] = b
        /\ Memory(g, new, D)
        /\ Len(new[o]) = Len(list[o]) + 1 /\ new[o][1] = b
        /\ \A i \in 1 .. Len(list[o]) : new[o][i + 1] = list[o][i]
        /\ FreeBlocks(new) = FreeBlocks(list) \cup {<<b, o>>}
        /\ OnLists(new) = OnLists(list) \cup {b}

LEMMA AddKeeps ==
    ASSUME InRange, Alone, NEW h \in Heaps, NEW list, NEW D, Memory(h, list, D),
           NEW o \in Orders, NEW b \in Starts, b \notin OnLists(list), b \notin D
    PROVE  Added(h, list, D, o, b)
<1> DEFINE g == heap_add_block(h, o, b)
           new == Put(list, o, b)
           s == list[o]
           t == <<b>> \o s
<1>1. /\ list \in Lists /\ Once(list) /\ OnLists(list) \subseteq Starts
      /\ D \subseteq Starts \ OnLists(list) /\ Linked(h, list) /\ Stamped(h, D)
      /\ list \in Chains
  BY DEF Memory, Lists
<1>2. b \in Nat /\ b # NULL /\ b # UNKNOWN
  BY StartPages
<1>3. <<b, o>> \notin FreeBlocks(list)
  BY Listing DEF OnLists
<1>4. new \in Lists /\ FreeBlocks(new) = FreeBlocks(list) \cup {<<b, o>>}
  BY <1>1, <1>2, <1>3, AddBlock
<1>5. /\ s \in Seq(Nat) /\ Len(s) \in Nat
      /\ \A i \in 1 .. Len(s) : s[i] \in ToSet(s) /\ s[i] \in Starts
  BY <1>1, ListFacts
<1>6. /\ Len(t) = Len(s) + 1 /\ t[1] = b /\ \A i \in 1 .. Len(s) : t[i + 1] = s[i]
      /\ ToSet(t) = {b} \cup ToSet(s)
  BY <1>2, <1>5, Prepend
<1>7. new[o] = t /\ \A p \in Orders : p # o => new[p] = list[p]
  <2>1. new = [list EXCEPT ![o] = t]
    BY DEF Put
  <2> HIDE DEF new, t
  <2> QED BY <1>1, <2>1 DEF Chains
<1> HIDE DEF new, t
<1>8. OnLists(new) = OnLists(list) \cup {b}
  <2>1. \A p \in Orders : ToSet(new[p]) = IF p = o THEN {b} \cup ToSet(list[p]) ELSE ToSet(list[p])
    BY <1>6, <1>7
  <2> QED BY <2>1 DEF OnLists
<1>9. Once(new)
  <2>1. \A p \in Orders : \A a : a \in ToSet(new[p]) <=>
           (a \in ToSet(list[p]) \/ (p = o /\ a = b))
    BY <1>6, <1>7
  <2>2. \A p \in Orders : b \notin ToSet(list[p])
    BY DEF OnLists
  <2> QED BY <1>1, <2>1, <2>2 DEF Once
<1>10. /\ h.head \in [Orders -> Links] /\ h.word \in [0 .. Top - 1 -> Words]
       /\ FrameOf(b) \in 0 .. Top - 1
  BY DEF Heaps, InRange
<1>11. /\ g \in Heaps /\ g.kernel = h.kernel
       /\ g.head = [h.head EXCEPT ![o] = b]
       /\ g.word = [h.word EXCEPT ![FrameOf(b)] = AsWord(h.head[o])]
  <2>1. ~ (o > HEAP_MAX_ORDER)
    BY HeapAssumption DEF Orders
  <2>2. g = [h EXCEPT !.head[o] = b, !.word[FrameOf(b)] = AsWord(h.head[o])]
    BY <2>1 DEF heap_add_block, FrameOf
  <2>3. h = [head |-> h.head, word |-> h.word, kernel |-> h.kernel]
    BY DEF Heaps
  <2>4. g = [head |-> [h.head EXCEPT ![o] = b],
             word |-> [h.word EXCEPT ![FrameOf(b)] = AsWord(h.head[o])], kernel |-> h.kernel]
    BY <2>2, <2>3
  <2> QED BY <2>4, AddTyped
<1> HIDE DEF g
<1>12. g.head[o] = b /\ \A p \in Orders : p # o => g.head[p] = h.head[p]
  BY <1>10, <1>11
<1>13. /\ g.word[FrameOf(b)] = AsWord(h.head[o])
       /\ \A x \in Starts : x # b => g.word[FrameOf(x)] = h.word[FrameOf(x)]
  BY <1>10, <1>11 DEF Alone, InRange
<1>14. \A x \in Starts : x # b => Link(g, x) = Link(h, x)
  BY <1>13 DEF Link, FrameOf
<1>15. h.head[o] = After(s, 0) /\ \A i \in 1 .. Len(s) : Link(h, s[i]) = After(s, i)
  BY <1>1 DEF Linked
<1>16. h.head[o] # UNKNOWN
  <2>1. CASE Len(s) = 0
    BY <1>15, <2>1 DEF After, NULL, UNKNOWN
  <2>2. CASE Len(s) # 0
    <3>1. h.head[o] = s[1] /\ s[1] \in Starts
      BY <1>5, <1>15, <2>2 DEF After
    <3> QED BY <3>1, StartPages
  <2> QED BY <2>1, <2>2
<1>17. Link(g, b) = h.head[o]
  BY <1>13, <1>16 DEF Link, FrameOf, AsWord
<1>18. Linked(g, new)
  <2>1. ASSUME NEW p \in Orders, p # o
        PROVE  /\ g.head[p] = After(new[p], 0)
               /\ \A i \in 1 .. Len(new[p]) : Link(g, new[p][i]) = After(new[p], i)
    <3>1. \A i \in 1 .. Len(list[p]) : list[p][i] \in Starts /\ list[p][i] # b
      <4>1. \A i \in 1 .. Len(list[p]) : list[p][i] \in Starts /\ list[p][i] \in ToSet(list[p])
        BY <1>1, ListFacts
      <4> QED BY <4>1 DEF OnLists
    <3>2. \A i \in 1 .. Len(list[p]) : Link(h, list[p][i]) = After(list[p], i)
      BY <1>1 DEF Linked
    <3> QED BY <1>1, <1>7, <1>12, <1>14, <2>1, <3>1, <3>2 DEF Linked
  <2>2. g.head[o] = After(t, 0)
    BY <1>5, <1>6, <1>12 DEF After
  <2>3. ASSUME NEW i \in 1 .. Len(t) PROVE Link(g, t[i]) = After(t, i)
    <3>1. CASE i = 1
      <4>1. After(t, 1) = After(s, 0)
        BY <1>5, <1>6 DEF After
      <4> QED BY <1>6, <1>15, <1>17, <3>1, <4>1
    <3>2. CASE i # 1
      <4> DEFINE k == i - 1
      <4>1. k \in 1 .. Len(s) /\ k + 1 = i
        BY <1>5, <1>6, <3>2
      <4>2. t[i] = s[k]
        BY <1>6, <4>1
      <4> HIDE DEF k
      <4>3. s[k] \in Starts /\ s[k] # b
        BY <1>5, <4>1 DEF OnLists
      <4>4. After(t, i) = After(s, k)
        <5>1. CASE k < Len(s)
          <6>1. k + 1 \in 1 .. Len(s) /\ i < Len(t) /\ i + 1 = (k + 1) + 1
            BY <1>5, <1>6, <4>1, <5>1
          <6> QED BY <1>6, <4>1, <5>1, <6>1 DEF After
        <5>2. CASE ~ (k < Len(s))
          <6>1. ~ (i < Len(t))
            BY <1>5, <1>6, <4>1, <5>2
          <6> QED BY <5>2, <6>1 DEF After
        <5> QED BY <5>1, <5>2
      <4> QED BY <1>14, <1>15, <4>1, <4>2, <4>3, <4>4
    <3> QED BY <3>1, <3>2
  <2> QED BY <1>7, <2>1, <2>2, <2>3 DEF Linked
<1>19. Stamped(g, D)
  BY <1>1, <1>13 DEF Stamped
<1>20. Memory(g, new, D)
  BY <1>1, <1>4, <1>8, <1>9, <1>18, <1>19 DEF Memory
<1> QED BY <1>4, <1>6, <1>7, <1>8, <1>11, <1>12, <1>20 DEF Added, g, new, t

(* Unlinking the first or the second block of a list: the head, or the     *)
(* link of the block in front, becomes the link of the block.              *)
Unlinked(h, list, D, o, b) ==
    LET g == heap_del_block(h, o, b)
        new == Drop(list, o, b)
    IN  /\ g \in Heaps /\ g.kernel = h.kernel
        /\ Memory(g, new, D)
        /\ FreeBlocks(new) = FreeBlocks(list) \ {<<b, o>>}
        /\ OnLists(new) = OnLists(list) \ {b}

LEMMA DelKeeps ==
    ASSUME InRange, Alone, NEW h \in Heaps, NEW list, NEW D, Memory(h, list, D),
           NEW o \in Orders, NEW m \in {1, 2}, m <= Len(list[o]), NEW b, b = list[o][m]
    PROVE  Unlinked(h, list, D, o, b)
<1> DEFINE g == heap_del_block(h, o, b)
           new == Drop(list, o, b)
           s == list[o]
           t == RemoveFirst(s, b)
<1>1. /\ list \in Lists /\ Once(list) /\ OnLists(list) \subseteq Starts
      /\ D \subseteq Starts \ OnLists(list) /\ Linked(h, list) /\ Stamped(h, D)
      /\ list \in Chains
  BY DEF Memory, Lists
<1>2. /\ s \in Seq(Nat) /\ Len(s) \in Nat /\ NoTwice(s)
      /\ \A i \in 1 .. Len(s) : s[i] \in ToSet(s) /\ s[i] \in Starts
  BY <1>1, ListFacts
<1>3. m \in 1 .. Len(s) /\ s[m] = b /\ b \in Starts /\ b \in Nat /\ b \in ToSet(s)
  <2>1. m \in 1 .. Len(s) /\ s[m] = b
    BY <1>2
  <2> QED BY <1>2, <2>1, StartPages
<1>4. new \in Lists /\ FreeBlocks(new) = FreeBlocks(list) \ {<<b, o>>}
  BY <1>1, <1>3, DelBlock
<1>5. /\ Len(t) = Len(s) - 1 /\ ToSet(t) = ToSet(s) \ {b}
      /\ \A i \in 1 .. Len(s) - 1 : t[i] = IF i < m THEN s[i] ELSE s[i + 1]
  BY <1>2, <1>3, Unlink
<1>6. new[o] = t /\ \A p \in Orders : p # o => new[p] = list[p]
  <2>1. new = [list EXCEPT ![o] = t]
    BY DEF Drop
  <2> HIDE DEF new, t
  <2> QED BY <1>1, <2>1 DEF Chains
<1>7. Search(h, o, b) = "found" /\ Min(Rounds(h, o, b)) = m - 1
  BY <1>1, <1>3, SearchMeets
<1> HIDE DEF new, t, g
<1>9. \A p \in Orders : p # o => b \notin ToSet(list[p])
  BY <1>1, <1>3 DEF Once
<1>10. OnLists(new) = OnLists(list) \ {b}
  <2>1. \A p \in Orders : ToSet(new[p]) = ToSet(list[p]) \ {b}
    BY <1>5, <1>6, <1>9
  <2>2. \A a : a \in OnLists(new) <=> \E p \in Orders : a \in ToSet(list[p]) /\ a # b
    <3>1. \A a : a \in OnLists(new) <=> \E p \in Orders : a \in ToSet(new[p])
      BY DEF OnLists
    <3>2. \A a : \A p \in Orders : a \in ToSet(new[p]) <=> a \in ToSet(list[p]) /\ a # b
      BY <2>1
    <3> HIDE <2>1
    <3> QED BY <3>1, <3>2
  <2>3. \A a : a \in OnLists(list) \ {b} <=> \E p \in Orders : a \in ToSet(list[p]) /\ a # b
    BY DEF OnLists
  <2> QED BY <2>2, <2>3
<1>11. Once(new)
  <2>1. \A p \in Orders : ToSet(new[p]) \subseteq ToSet(list[p])
    BY <1>5, <1>6
  <2> QED BY <1>1, <2>1 DEF Once
<1>12. /\ h.head \in [Orders -> Links] /\ h.word \in [0 .. Top - 1 -> Words]
       /\ h = [head |-> h.head, word |-> h.word, kernel |-> h.kernel]
  BY DEF Heaps
<1>13. h.head[o] = After(s, 0) /\ \A i \in 1 .. Len(s) : Link(h, s[i]) = After(s, i)
  BY <1>1 DEF Linked
<1> DEFINE link == Link(h, b)
<1>14. link = After(s, m) /\ link # UNKNOWN
  <2>1. link = After(s, m)
    BY <1>3, <1>13
  <2>2. CASE m < Len(s)
    <3>1. m + 1 \in 1 .. Len(s) /\ link = s[m + 1]
      BY <1>2, <2>1, <2>2 DEF After
    <3> QED BY <1>2, <2>1, <3>1, StartPages
  <2>3. CASE ~ (m < Len(s))
    BY <2>1, <2>3 DEF After, NULL, UNKNOWN
  <2> QED BY <2>1, <2>2, <2>3
<1>15. /\ m = 1 => g = [h EXCEPT !.head[o] = link]
       /\ m = 2 => g = [h EXCEPT !.word[FrameOf(s[1])] = AsWord(link)]
  <2>1. ~ (o > HEAP_MAX_ORDER)
    BY HeapAssumption DEF Orders
  <2>2. /\ m = 1 => (m - 1) % 256 = 0
        /\ m = 2 => (m - 1) % 256 # 0 /\ Met(h, o)[(m - 1) - 1] = s[1]
    <3>1. m = 1 => (m - 1) % 256 = 0
      OBVIOUS
    <3>2. m = 2 => (m - 1) % 256 # 0
      OBVIOUS
    <3>3. m = 2 => Met(h, o)[(m - 1) - 1] = s[1]
      <4>1. Met(h, o)[0] = After(s, 0)
        BY <1>1, WalkMeets
      <4>2. m = 2 => After(s, 0) = s[1] /\ (m - 1) - 1 = 0
        BY <1>2, <1>3 DEF After
      <4> QED BY <4>1, <4>2
    <3> QED BY <3>1, <3>2, <3>3
  <2> DEFINE end == Search(h, o, b)
             n == Min(Rounds(h, o, b))
  <2>3. g = CASE end = "absent" -> h
              [] end = "found" /\ n % 256 = 0 -> [h EXCEPT !.head[o] = link]
              [] end = "found" /\ n % 256 # 0 ->
                     [h EXCEPT !.word[FrameOf(Met(h, o)[n - 1])] = AsWord(link)]
              [] OTHER -> [h EXCEPT !.kernel = end]
    BY <2>1 DEF heap_del_block, FrameOf, g
  <2> HIDE DEF end, n, link
  <2>4. end = "found" /\ n = m - 1
    BY <1>7 DEF end, n
  <2> QED BY <2>2, <2>3, <2>4
<1> HIDE DEF link
<1>16. g \in Heaps
  BY DelTyped DEF g
<1>17. ASSUME m = 1 PROVE g.kernel = h.kernel /\ Linked(g, new) /\ Stamped(g, D)
  <2>1. /\ g.kernel = h.kernel /\ g.word = h.word
        /\ g.head[o] = link /\ \A p \in Orders : p # o => g.head[p] = h.head[p]
    <3>1. g = [head |-> [h.head EXCEPT ![o] = link], word |-> h.word, kernel |-> h.kernel]
      BY <1>12, <1>15, <1>17
    <3> QED BY <1>12, <3>1
  <2>2. \A x : Link(g, x) = Link(h, x)
    BY <2>1 DEF Link
  <2>3. \A i \in 1 .. Len(t) : t[i] = s[i + 1] /\ i + 1 \in 1 .. Len(s)
    BY <1>2, <1>5, <1>17
  <2>4. \A i \in 0 .. Len(t) : After(t, i) = After(s, i + 1)
    <3>1. SUFFICES ASSUME NEW i \in 0 .. Len(t) PROVE After(t, i) = After(s, i + 1)
      OBVIOUS
    <3>2. CASE i < Len(t)
      <4>1. i + 1 \in 1 .. Len(t) /\ i + 1 < Len(s)
        BY <1>2, <1>5, <3>2
      <4> QED BY <2>3, <3>2, <4>1 DEF After
    <3>3. CASE ~ (i < Len(t))
      <4>1. ~ (i + 1 < Len(s))
        BY <1>2, <1>5, <3>3
      <4> QED BY <3>3, <4>1 DEF After
    <3> QED BY <3>2, <3>3
  <2>5. /\ g.head[o] = After(t, 0)
        /\ \A i \in 1 .. Len(t) : Link(g, t[i]) = After(t, i)
    <3>1. 0 \in 0 .. Len(t) /\ \A i \in 1 .. Len(t) : i \in 0 .. Len(t)
      BY <1>2, <1>3, <1>5
    <3>2. After(t, 0) = After(s, 1)
      BY <2>4, <3>1
    <3> QED BY <1>13, <1>14, <1>17, <2>1, <2>2, <2>3, <2>4, <3>1, <3>2
  <2>6. Linked(g, new)
    BY <1>1, <1>6, <2>1, <2>2, <2>5 DEF Linked
  <2>7. Stamped(g, D)
    <3>1. \A x : g.word[x] = h.word[x]
      BY <2>1
    <3> QED BY <1>1, <3>1 DEF Stamped
  <2> QED BY <2>1, <2>6, <2>7
<1>18. ASSUME m = 2 PROVE g.kernel = h.kernel /\ Linked(g, new) /\ Stamped(g, D)
  <2> DEFINE a == s[1]
  <2>1. a \in Starts /\ a \in ToSet(s) /\ 1 \in 1 .. Len(s) /\ a # b
    <3>1. 1 \in 1 .. Len(s)
      BY <1>2, <1>3, <1>18
    <3> QED BY <1>2, <1>3, <1>18, <3>1 DEF NoTwice
  <2> HIDE DEF a
  <2>2. /\ g.kernel = h.kernel /\ g.head = h.head
        /\ g.word = [h.word EXCEPT ![FrameOf(a)] = AsWord(link)]
    BY <1>12, <1>15, <1>18 DEF a
  <2>3. /\ g.word[FrameOf(a)] = AsWord(link)
        /\ \A x \in Starts : x # a => g.word[FrameOf(x)] = h.word[FrameOf(x)]
    BY <1>12, <2>1, <2>2 DEF Alone, InRange
  <2>4. Link(g, a) = link /\ \A x \in Starts : x # a => Link(g, x) = Link(h, x)
    BY <1>14, <2>3 DEF Link, FrameOf, AsWord
  <2>5. /\ t[1] = a
        /\ \A i \in 2 .. Len(t) : t[i] = s[i + 1] /\ i + 1 \in 1 .. Len(s) /\ s[i + 1] # a
    <3>1. Len(t) >= 1 /\ t[1] = s[1]
      BY <1>2, <1>3, <1>5, <1>18
    <3>2. ASSUME NEW i \in 2 .. Len(t)
          PROVE  t[i] = s[i + 1] /\ i + 1 \in 1 .. Len(s) /\ s[i + 1] # a
      <4>1. i \in 1 .. Len(s) - 1 /\ ~ (i < m) /\ i + 1 \in 1 .. Len(s) /\ i + 1 # 1
        BY <1>2, <1>5, <1>18
      <4>2. s[i + 1] # s[1]
        BY <1>2, <2>1, <4>1 DEF NoTwice
      <4> QED BY <1>5, <4>1, <4>2 DEF a
    <3> QED BY <3>1, <3>2 DEF a
  <2>6. \A i \in 1 .. Len(t) : After(t, i) = After(s, i + 1)
    <3>1. SUFFICES ASSUME NEW i \in 1 .. Len(t) PROVE After(t, i) = After(s, i + 1)
      OBVIOUS
    <3>2. CASE i < Len(t)
      <4>1. i + 1 \in 2 .. Len(t) /\ i + 1 < Len(s)
        BY <1>2, <1>5, <3>2
      <4> QED BY <2>5, <3>2, <4>1 DEF After
    <3>3. CASE ~ (i < Len(t))
      <4>1. ~ (i + 1 < Len(s))
        BY <1>2, <1>5, <3>3
      <4> QED BY <3>3, <4>1 DEF After
    <3> QED BY <3>2, <3>3
  <2>7. g.head[o] = After(t, 0)
    <3>1. After(s, 0) = s[1] /\ After(t, 0) = t[1]
      BY <1>2, <1>3, <1>5, <1>18 DEF After
    <3> QED BY <1>13, <2>2, <2>5, <3>1 DEF a
  <2>8. ASSUME NEW i \in 1 .. Len(t) PROVE Link(g, t[i]) = After(t, i)
    <3>1. CASE i = 1
      BY <1>14, <1>18, <2>4, <2>5, <2>6, <3>1
    <3>2. CASE i # 1
      <4>1. i \in 2 .. Len(t)
        BY <1>2, <1>5, <3>2
      <4> QED BY <1>2, <1>13, <2>4, <2>5, <2>6, <4>1
    <3> QED BY <3>1, <3>2
  <2>9. Linked(g, new)
    <3>1. ASSUME NEW p \in Orders, p # o, NEW i \in 1 .. Len(list[p])
          PROVE  Link(g, list[p][i]) = After(list[p], i)
      <4>1. list[p][i] \in Starts /\ list[p][i] \in ToSet(list[p])
        BY <1>1, ListFacts
      <4>2. list[p][i] # a
        BY <1>1, <2>1, <3>1, <4>1 DEF Once
      <4> QED BY <1>1, <2>4, <4>1, <4>2 DEF Linked
    <3> QED BY <1>1, <1>6, <2>2, <2>7, <2>8, <3>1 DEF Linked
  <2>10. Stamped(g, D)
    <3>1. \A x \in D : x \in Starts /\ x # a
      BY <1>1, <2>1 DEF OnLists
    <3> QED BY <1>1, <2>3, <3>1 DEF Stamped
  <2> QED BY <2>2, <2>9, <2>10
<1>19. g.kernel = h.kernel /\ Linked(g, new) /\ Stamped(g, D)
  BY <1>17, <1>18
<1>20. Memory(g, new, D)
  BY <1>1, <1>4, <1>10, <1>11, <1>19 DEF Memory
<1> QED BY <1>4, <1>6, <1>10, <1>16, <1>19, <1>20 DEF Unlinked, g, new, t

-----------------------------------------------------------------------------
(* One round of heap_split_block on lists: the block is the first or the   *)
(* second of its list, since the last round put its upper half in front.   *)
Halved(h, list, D, o, b) ==
    \E K : LET g == Halve(h, o, b)
               up == b + heap_order_to_size(o)
           IN  /\ g \in Heaps /\ g.kernel = h.kernel /\ g.head[o] = up
               /\ Memory(g, K, D)
               /\ Len(K[o]) \in Nat /\ Len(K[o]) >= 2 /\ K[o][1] = up /\ K[o][2] = b
               /\ FreeBlocks(K) = (FreeBlocks(list) \ {<<b, o + 1>>}) \cup {<<b, o>>, <<up, o>>}
               /\ OnLists(K) = OnLists(list) \cup {up}

LEMMA HalveKeeps ==
    ASSUME InRange, Alone, NEW h \in Heaps, NEW list, NEW D, Memory(h, list, D),
           NEW o \in Nat, o < HEAP_MAX_ORDER, NEW m \in {1, 2}, m <= Len(list[o + 1]),
           NEW b, b = list[o + 1][m],
           NEW up \in Starts, up = b + heap_order_to_size(o), up \notin OnLists(list), up \notin D
    PROVE  Halved(h, list, D, o, b)
<1> DEFINE h1 == heap_del_block(h, o + 1, b)
           h2 == heap_add_block(h1, o, b)
           h3 == heap_add_block(h2, o, up)
           K1 == Drop(list, o + 1, b)
           K2 == Put(K1, o, b)
           K3 == Put(K2, o, up)
<1>1. o \in Orders /\ o + 1 \in Orders
  BY HeapAssumption DEF Orders
<1>2. b \in ToSet(list[o + 1]) /\ b \in Starts /\ b \in OnLists(list) /\ b \notin D
  <2>1. list \in Lists /\ OnLists(list) \subseteq Starts /\ D \subseteq Starts \ OnLists(list)
    BY DEF Memory
  <2>2. /\ Len(list[o + 1]) \in Nat
        /\ \A i \in 1 .. Len(list[o + 1]) :
              list[o + 1][i] \in ToSet(list[o + 1]) /\ list[o + 1][i] \in Starts
    BY <1>1, <2>1, ListFacts
  <2>3. m \in 1 .. Len(list[o + 1])
    BY <2>2
  <2>4. b \in ToSet(list[o + 1]) /\ b \in Starts
    BY <2>2, <2>3
  <2> QED BY <1>1, <2>1, <2>4 DEF OnLists
<1>3. up # b
  <2>1. heap_order_to_size(o) \in Nat \ {0} /\ b \in Nat
    BY <1>2, Doubling, StartPages
  <2> QED BY <2>1
<1>4. /\ h1 \in Heaps /\ h1.kernel = h.kernel /\ Memory(h1, K1, D)
      /\ FreeBlocks(K1) = FreeBlocks(list) \ {<<b, o + 1>>}
      /\ OnLists(K1) = OnLists(list) \ {b}
  <2>1. Unlinked(h, list, D, o + 1, b)
    BY <1>1, DelKeeps
  <2> QED BY <2>1 DEF Unlinked
<1> HIDE DEF h1, K1
<1>5. /\ h2 \in Heaps /\ h2.kernel = h1.kernel /\ Memory(h2, K2, D)
      /\ Len(K2[o]) = Len(K1[o]) + 1 /\ K2[o][1] = b
      /\ FreeBlocks(K2) = FreeBlocks(K1) \cup {<<b, o>>}
      /\ OnLists(K2) = OnLists(K1) \cup {b}
  <2>1. b \notin OnLists(K1)
    BY <1>4
  <2>2. Added(h1, K1, D, o, b)
    BY <1>1, <1>2, <1>4, <2>1, AddKeeps
  <2> QED BY <2>2 DEF Added
<1>6. Len(K1[o]) \in Nat
  <2>1. K1 \in Lists /\ OnLists(K1) \subseteq Starts
    BY <1>4 DEF Memory
  <2> QED BY <1>1, <2>1, ListFacts
<1> HIDE DEF h2, K2
<1>7. /\ h3 \in Heaps /\ h3.kernel = h2.kernel /\ h3.head[o] = up /\ Memory(h3, K3, D)
      /\ Len(K3[o]) = Len(K2[o]) + 1 /\ K3[o][1] = up
      /\ \A i \in 1 .. Len(K2[o]) : K3[o][i + 1] = K2[o][i]
      /\ FreeBlocks(K3) = FreeBlocks(K2) \cup {<<up, o>>}
      /\ OnLists(K3) = OnLists(K2) \cup {up}
  <2>1. up \notin OnLists(K2)
    BY <1>3, <1>4, <1>5
  <2>2. Added(h2, K2, D, o, up)
    BY <1>1, <1>5, <2>1, AddKeeps
  <2> QED BY <2>2 DEF Added
<1>8. Len(K3[o]) \in Nat /\ Len(K3[o]) >= 2 /\ K3[o][2] = b
  <2>1. 1 \in 1 .. Len(K2[o]) /\ Len(K3[o]) \in Nat /\ Len(K3[o]) >= 2
    BY <1>5, <1>6, <1>7
  <2>2. K3[o][1 + 1] = b
    BY <1>5, <1>7, <2>1
  <2> QED BY <2>1, <2>2
<1>9. /\ FreeBlocks(K3) = (FreeBlocks(list) \ {<<b, o + 1>>}) \cup {<<b, o>>, <<up, o>>}
      /\ OnLists(K3) = OnLists(list) \cup {up}
  BY <1>2, <1>4, <1>5, <1>7
<1>10. Halve(h, o, b) = h3
  BY DEF Halve, h1, h2, h3
<1> QED BY <1>4, <1>5, <1>7, <1>8, <1>9, <1>10 DEF Halved

(* The upper halves that are cut off from order `from' down to order o.    *)
Uppers(b, o, from) == {<<b + heap_order_to_size(p), p>> : p \in o .. from - 1}

(* The pieces that are left of a block of order `from', one of order `to'. *)
CutInto(b, from, to) == {<<b, to>>} \cup Uppers(b, to, from)

SplitOff(h, list, D, from, to, b) ==
    \E K : LET new == heap_split_block(h, from, to, b)
           IN  /\ new \in Heaps /\ new.kernel = h.kernel
               /\ Memory(new, K, D)
               /\ FreeBlocks(K) = (FreeBlocks(list) \ {<<b, from>>}) \cup CutInto(b, from, to)
               /\ Len(K[to]) \in Nat /\ Len(K[to]) >= 1
               /\ new.head[to] = K[to][1] /\ <<K[to][1], to>> \in CutInto(b, from, to)

(* heap_split_block on lists: the block goes, and its pieces come.  None   *)
(* of them is on a list or live before, for which the disjointness of      *)
(* blocks is needed.                                                       *)
LEMMA SplitKeeps ==
    ASSUME InRange, Alone, NEW h \in Heaps, NEW list, NEW D, Memory(h, list, D),
           NEW from \in Orders, NEW to \in 0 .. from, Len(list[from]) >= 1,
           NEW b, b = list[from][1],
           \A o \in to .. from - 1 :
              /\ b + heap_order_to_size(o) \in Starts
              /\ b + heap_order_to_size(o) \notin OnLists(list)
              /\ b + heap_order_to_size(o) \notin D
    PROVE  SplitOff(h, list, D, from, to, b)
<1> DEFINE new == heap_split_block(h, from, to, b)
           pieces == {<<b, to>>} \cup Uppers(b, to, from)
           rest == FreeBlocks(list) \ {<<b, from>>}
           up(o) == b + heap_order_to_size(o)
<1>1. from \in Nat /\ to \in Nat /\ to <= from /\ from <= HEAP_MAX_ORDER /\ HEAP_MAX_ORDER \in Nat
  BY HeapAssumption DEF Orders
<1>2. PICK cut \in [to .. from -> Heaps] :
         /\ cut[from] = h
         /\ \A o \in to .. from - 1 : cut[o] = Halve(cut[o + 1], o, b)
         /\ new = cut[to]
  <2>1. Splits(h, from, to, b)
    BY SplitSteps
  <2> QED BY <2>1 DEF Splits
<1>3. /\ Len(list[from]) \in Nat /\ b \in ToSet(list[from]) /\ b \in Starts /\ b \in Nat
      /\ h.head[from] = b /\ <<b, from>> \in FreeBlocks(list)
  <2>1. list \in Lists /\ OnLists(list) \subseteq Starts /\ h.head[from] = After(list[from], 0)
    BY DEF Memory, Linked
  <2>2. /\ Len(list[from]) \in Nat
        /\ \A i \in 1 .. Len(list[from]) : list[from][i] \in ToSet(list[from]) /\ list[from][i] \in Starts
    BY <2>1, ListFacts
  <2>3. 1 \in 1 .. Len(list[from]) /\ After(list[from], 0) = list[from][1]
    BY <2>2 DEF After
  <2>4. b \in ToSet(list[from]) /\ b \in Starts
    BY <2>2, <2>3
  <2> QED BY <2>1, <2>2, <2>3, <2>4, StartPages, Listing
<1>4. \A o, p \in Nat : up(o) \in Nat /\ up(o) # b /\ (o < p => up(o) # up(p))
  <2>1. SUFFICES ASSUME NEW o \in Nat, NEW p \in Nat
                 PROVE  up(o) \in Nat /\ up(o) # b /\ (o < p => up(o) # up(p))
    OBVIOUS
  <2> DEFINE s == heap_order_to_size(o)
             t == heap_order_to_size(p)
  <2>2. s \in Nat \ {0} /\ t \in Nat \ {0} /\ (o < p => 2 * s <= t)
    BY Doubling, LargerOrders
  <2> HIDE DEF s, t
  <2>3. b + s \in Nat /\ b + s # b /\ (o < p => b + s # b + t)
    BY <1>3, <2>2
  <2> QED BY <2>3 DEF s, t
<1>5. \A o \in to .. from - 1 : up(o) \in Starts /\ up(o) \notin OnLists(list) /\ up(o) \notin D
  OBVIOUS
<1>6. /\ Uppers(b, from, from) = {}
      /\ \A o \in to .. from - 1 : Uppers(b, o, from) = Uppers(b, o + 1, from) \cup {<<up(o), o>>}
  <2>1. from .. from - 1 = {}
    BY <1>1
  <2>2. ASSUME NEW o \in to .. from - 1
        PROVE  Uppers(b, o, from) = Uppers(b, o + 1, from) \cup {<<up(o), o>>}
    <3>1. o .. from - 1 = (o + 1 .. from - 1) \cup {o}
      BY <1>1
    <3> QED BY <3>1 DEF Uppers
  <2> QED BY <2>1, <2>2 DEF Uppers
<1>7. \A o \in to .. from : \A x \in Uppers(b, o, from) : \A q : x # <<b, q>>
  <2>1. SUFFICES ASSUME NEW o \in to .. from, NEW p \in o .. from - 1, NEW q
                 PROVE  <<up(p), p>> # <<b, q>>
    BY DEF Uppers
  <2>2. p \in Nat
    BY <1>1
  <2> QED BY <1>4, <2>2
<1> DEFINE Ups(o) == {up(p) : p \in o .. from - 1}
           Cut(o, K) ==
              /\ cut[o].kernel = h.kernel /\ Memory(cut[o], K, D)
              /\ FreeBlocks(K) = (rest \cup {<<b, o>>}) \cup Uppers(b, o, from)
              /\ OnLists(K) = OnLists(list) \cup Ups(o)
              /\ Len(K[o]) \in Nat /\ cut[o].head[o] = K[o][1] /\ <<K[o][1], o>> \in pieces \cup {<<b, o>>} \cup Uppers(b, o, from)
              /\ \E m \in {1, 2} : m <= Len(K[o]) /\ K[o][m] = b
<1>8. Ups(from) = {} /\ \A o \in to .. from - 1 : Ups(o) = Ups(o + 1) \cup {up(o)}
  <2>1. from .. from - 1 = {}
    BY <1>1
  <2>2. ASSUME NEW o \in to .. from - 1 PROVE Ups(o) = Ups(o + 1) \cup {up(o)}
    <3>1. o .. from - 1 = (o + 1 .. from - 1) \cup {o}
      BY <1>1
    <3> QED BY <3>1
  <2> QED BY <2>1, <2>2
<1>9. \A o \in to .. from - 1 : up(o) \notin Ups(o + 1)
  <2>1. SUFFICES ASSUME NEW o \in to .. from - 1, NEW p \in o + 1 .. from - 1 PROVE up(o) # up(p)
    OBVIOUS
  <2>2. o \in Nat /\ p \in Nat /\ o < p
    BY <1>1
  <2> HIDE DEF up
  <2> QED BY <1>4, <2>2
<1> HIDE DEF new, pieces, rest, up, Ups
<1>10. \E K : Cut(from, K)
  <2>1. /\ h.kernel = h.kernel /\ Memory(h, list, D)
        /\ FreeBlocks(list) = (rest \cup {<<b, from>>}) \cup Uppers(b, from, from)
        /\ OnLists(list) = OnLists(list) \cup Ups(from)
        /\ Len(list[from]) \in Nat /\ h.head[from] = list[from][1]
        /\ <<list[from][1], from>> \in {<<b, from>>}
        /\ 1 \in {1, 2} /\ 1 <= Len(list[from]) /\ list[from][1] = b
    BY <1>3, <1>6, <1>8 DEF rest
  <2>2. Cut(from, list)
    BY <1>2, <2>1
  <2> QED BY <2>2
<1>11. ASSUME NEW o \in to .. from - 1, NEW L, Cut(o + 1, L) PROVE \E K : Cut(o, K)
  <2>1. o \in Nat /\ o < HEAP_MAX_ORDER /\ o \in to .. from /\ o + 1 \in to .. from
    BY <1>1
  <2>2. PICK m \in {1, 2} : m <= Len(L[o + 1]) /\ L[o + 1][m] = b
    BY <1>11
  <2> DEFINE g == cut[o + 1]
  <2>3. /\ g \in Heaps /\ g.kernel = h.kernel /\ Memory(g, L, D)
        /\ FreeBlocks(L) = (rest \cup {<<b, o + 1>>}) \cup Uppers(b, o + 1, from)
        /\ OnLists(L) = OnLists(list) \cup Ups(o + 1)
    BY <1>2, <1>11, <2>1
  <2>4. up(o) \in Starts /\ up(o) \notin OnLists(L) /\ up(o) \notin D
    BY <1>5, <1>9, <2>3
  <2>5. cut[o] = Halve(g, o, b)
    BY <1>2
  <2> HIDE DEF g
  <2>6. PICK K : /\ cut[o] \in Heaps /\ cut[o].kernel = g.kernel /\ cut[o].head[o] = up(o)
                 /\ Memory(cut[o], K, D)
                 /\ Len(K[o]) \in Nat /\ Len(K[o]) >= 2 /\ K[o][1] = up(o) /\ K[o][2] = b
                 /\ FreeBlocks(K) = (FreeBlocks(L) \ {<<b, o + 1>>}) \cup {<<b, o>>, <<up(o), o>>}
                 /\ OnLists(K) = OnLists(L) \cup {up(o)}
    <3>1. up(o) = b + heap_order_to_size(o)
      BY DEF up
    <3>2. Halved(g, L, D, o, b)
      BY <2>1, <2>2, <2>3, <2>4, <3>1, HalveKeeps
    <3> QED BY <2>5, <3>1, <3>2 DEF Halved
  <2>7. <<b, o + 1>> \notin rest /\ <<b, o + 1>> \notin Uppers(b, o + 1, from)
    <3>1. <<b, o + 1>> \notin Uppers(b, o + 1, from)
      BY <1>7, <2>1
    <3>2. CASE o + 1 = from
      BY <3>1, <3>2 DEF rest
    <3>3. CASE o + 1 # from
      <4>1. SUFFICES ASSUME <<b, o + 1>> \in FreeBlocks(list) PROVE FALSE
        BY <3>1 DEF rest
      <4>2. o + 1 \in Orders /\ b \in ToSet(list[o + 1])
        BY <4>1, Listing
      <4>3. Once(list)
        BY DEF Memory
      <4> QED BY <1>3, <3>3, <4>2, <4>3 DEF Once
    <3> QED BY <3>2, <3>3
  <2>8. FreeBlocks(K) = (rest \cup {<<b, o>>}) \cup Uppers(b, o, from)
    BY <1>6, <2>3, <2>6, <2>7
  <2>9. OnLists(K) = OnLists(list) \cup Ups(o)
    BY <1>8, <2>3, <2>6
  <2>10. <<K[o][1], o>> \in Uppers(b, o, from)
    BY <1>6, <2>6
  <2>11. 2 \in {1, 2} /\ 2 <= Len(K[o]) /\ K[o][2] = b
    BY <2>6
  <2>12. /\ cut[o].kernel = h.kernel /\ cut[o].head[o] = K[o][1] /\ Memory(cut[o], K, D)
         /\ Len(K[o]) \in Nat
    BY <2>3, <2>5, <2>6
  <2>13. \E k \in {1, 2} : k <= Len(K[o]) /\ K[o][k] = b
    BY <2>11
  <2>14. Cut(o, K)
    BY <2>8, <2>9, <2>10, <2>12, <2>13
  <2> QED BY <2>14
<1> DEFINE Done(o) == \E K : Cut(o, K)
<1>12. Done(from) /\ \A o \in to .. from - 1 : Done(o + 1) => Done(o)
  BY <1>10, <1>11
<1>13. /\ \A K : Cut(to, K) => /\ cut[to].kernel = h.kernel /\ Memory(cut[to], K, D)
                               /\ FreeBlocks(K) = (rest \cup {<<b, to>>}) \cup Uppers(b, to, from)
                               /\ Len(K[to]) \in Nat /\ cut[to].head[to] = K[to][1]
                               /\ <<K[to][1], to>> \in pieces /\ Len(K[to]) >= 1
  <2>1. SUFFICES ASSUME NEW K, Cut(to, K)
                 PROVE  /\ cut[to].kernel = h.kernel /\ Memory(cut[to], K, D)
                        /\ FreeBlocks(K) = (rest \cup {<<b, to>>}) \cup Uppers(b, to, from)
                        /\ Len(K[to]) \in Nat /\ cut[to].head[to] = K[to][1]
                        /\ <<K[to][1], to>> \in pieces /\ Len(K[to]) >= 1
    OBVIOUS
  <2>2. PICK m \in {1, 2} : m <= Len(K[to])
    BY <2>1
  <2> QED BY <2>1, <2>2 DEF pieces
<1> HIDE DEF Cut
<1>14. Done(to)
  <2> HIDE DEF Done
  <2> DEFINE T == {n \in Nat : n <= from - to /\ ~ Done(from - n)}
  <2>1. SUFFICES ASSUME T # {} PROVE FALSE
    <3>1. from - to \in Nat /\ from - to <= from - to /\ from - (from - to) = to
      BY <1>1
    <3> QED BY <3>1
  <2>2. PICK n \in T : \A k \in T : n <= k
    BY <2>1, LeastElement
  <2>3. n # 0
    BY <1>1, <1>12, <2>2
  <2>4. n - 1 \in Nat /\ n - 1 <= from - to /\ n - 1 \notin T
    BY <1>1, <2>2, <2>3
  <2>5. from - n \in to .. from - 1 /\ (from - n) + 1 = from - (n - 1)
    BY <1>1, <2>2, <2>3
  <2>6. Done((from - n) + 1)
    BY <2>4, <2>5
  <2> QED BY <1>12, <2>2, <2>5, <2>6
<1>15. PICK K : Cut(to, K)
  BY <1>14
<1>16. new \in Heaps
  BY <1>1, <1>2
<1>17. FreeBlocks(K) = (FreeBlocks(list) \ {<<b, from>>}) \cup pieces
  BY <1>13, <1>15 DEF rest, pieces
<1>18. /\ new \in Heaps /\ new.kernel = h.kernel /\ Memory(new, K, D)
       /\ FreeBlocks(K) = (FreeBlocks(list) \ {<<b, from>>}) \cup pieces
       /\ Len(K[to]) \in Nat /\ Len(K[to]) >= 1
       /\ new.head[to] = K[to][1] /\ <<K[to][1], to>> \in pieces
  BY <1>2, <1>13, <1>15, <1>16, <1>17
<1> QED BY <1>18 DEF SplitOff, CutInto, new, pieces

-----------------------------------------------------------------------------
(* The inductive invariant.  What holds whatever the words of the heap's   *)
(* frames are: the types; a heap page has a frame that is taken or is      *)
(* still its own in the window (NULL is a kernel frame, so it is taken),   *)
(* and a live page's is taken.                                             *)
Headers ==
    /\ DOMAIN live \subseteq Starts
    /\ live \in [DOMAIN live -> [order : Orders, size : Nat]]
    /\ \A b \in DOMAIN live : PagesOf(b, live[b].order) \subseteq HeapPages
Backed == DOMAIN pte = HeapPages /\ \A p \in HeapPages : pte[p] \in memory_map \cup Window
LiveBacked == \A p \in LivePages : pte[p] \in memory_map
TInv ==
    /\ Heap \in Heaps /\ Headers
    /\ Accounts(memory_map, used_blocks) /\ Backed /\ LiveBacked
    /\ LivePagesDistinct /\ RequestFits

(* And what holds until a frame of the window is handed out: no two heap   *)
(* pages share a frame, live or not, the words of the frames are lists and *)
(* order bytes, and the blocks tile the heap, which is what keeps a block  *)
(* from being on a list twice.                                             *)
Intact == \A p, q \in HeapPages : pte[p] = pte[q] => p = q
CInv ==
    /\ kernel \in {"runs", "past_list"}
    /\ Intact /\ Buddies!IInv
    /\ \E list : Memory(Heap, list, DOMAIN live)
HInv == TInv /\ (Untouched => CInv)

LEMMA FramesInRange == ASSUME TInv PROVE InRange
<1>1. /\ \A x \in Starts : Page(x) \in HeapPages
      /\ Window \subseteq 0 .. Top - 1
  BY StartPages, WindowSize
<1>2. memory_map \subseteq 0 .. Top - 1 /\ \A p \in HeapPages : pte[p] \in memory_map \cup Window
  BY DEF TInv, Accounts, Backed
<1> QED BY <1>1, <1>2 DEF InRange, FrameOf

LEMMA FramesAlone == ASSUME Intact PROVE Alone
<1>1. \A x \in Starts : Page(x) \in HeapPages /\ x = Page(x) * BLOCK_SIZE
  BY StartPages
<1>2. SUFFICES ASSUME NEW x \in Starts, NEW y \in Starts, pte[Page(x)] = pte[Page(y)] PROVE x = y
  BY DEF Alone, FrameOf
<1>3. Page(x) = Page(y)
  BY <1>1, <1>2 DEF Intact
<1> QED BY <1>1, <1>3

(* What the loops of heap.c meet on memory that holds lists.               *)
Reads ==
    TInv => \A list : Memory(Heap, list, DOMAIN live) =>
        /\ Free = FreeBlocks(list)
        /\ \A o \in Orders : Listed(o) = ToSet(list[o]) /\ Met(Heap, o)[HEAP_PAGES] = NULL

LEMMA ReadsOff == Reads
<1> SUFFICES ASSUME TInv, NEW list, Memory(Heap, list, DOMAIN live)
             PROVE  /\ Free = FreeBlocks(list)
                    /\ \A o \in Orders :
                          Listed(o) = ToSet(list[o]) /\ Met(Heap, o)[HEAP_PAGES] = NULL
  BY DEF Reads
<1> DEFINE h == Heap
<1>1. InRange /\ h \in Heaps
  BY FramesInRange DEF TInv
<1>2. list \in Lists /\ OnLists(list) \subseteq Starts /\ Linked(h, list)
  BY DEF Memory
<1>3. HEAP_PAGES \in Nat /\ NULL \notin Starts
  BY HeapOnPages, StartPages
<1> HIDE DEF h
<1>4. ASSUME NEW o \in Orders
      PROVE  {Met(h, o)[n] : n \in 0 .. HEAP_PAGES} \cap Starts = ToSet(list[o])
             /\ Met(h, o)[HEAP_PAGES] = NULL
  <2> DEFINE s == list[o]
             met == Met(h, o)
  <2>1. \A n \in Nat : met[n] = After(s, n)
    BY <1>1, <1>2, WalkMeets
  <2>2. /\ Len(s) \in Nat /\ Len(s) <= HEAP_PAGES
        /\ \A i \in 1 .. Len(s) : s[i] \in ToSet(s) /\ s[i] \in Starts
        /\ \A a \in ToSet(s) : \E i \in 1 .. Len(s) : s[i] = a
    BY <1>2, ListFacts
  <2> HIDE DEF s, met
  <2>3. ASSUME NEW n \in 0 .. HEAP_PAGES, met[n] \in Starts PROVE met[n] \in ToSet(s)
    <3>1. n \in Nat /\ met[n] = After(s, n)
      BY <1>3, <2>1
    <3>2. n < Len(s)
      BY <1>3, <2>3, <3>1 DEF After
    <3>3. n + 1 \in 1 .. Len(s) /\ met[n] = s[n + 1]
      BY <2>2, <3>1, <3>2 DEF After
    <3> QED BY <2>2, <3>3
  <2>4. ASSUME NEW a \in ToSet(s) PROVE a \in Starts /\ \E n \in 0 .. HEAP_PAGES : a = met[n]
    <3>1. PICK i \in 1 .. Len(s) : s[i] = a
      BY <2>2
    <3>2. /\ i - 1 \in 0 .. HEAP_PAGES /\ i - 1 \in Nat /\ i - 1 < Len(s) /\ (i - 1) + 1 = i
      BY <1>3, <2>2
    <3>3. met[i - 1] = s[i]
      BY <2>1, <3>2 DEF After
    <3> QED BY <2>2, <3>1, <3>2, <3>3
  <2>5. met[HEAP_PAGES] = NULL
    <3>1. ~ (HEAP_PAGES < Len(s))
      BY <1>3, <2>2
    <3> QED BY <1>3, <2>1, <3>1 DEF After
  <2>6. {met[n] : n \in 0 .. HEAP_PAGES} \cap Starts = ToSet(s)
    BY <2>3, <2>4
  <2> QED BY <2>5, <2>6 DEF s, met
<1>5. \A o \in Orders : Listed(o) = ToSet(list[o]) /\ Met(Heap, o)[HEAP_PAGES] = NULL
  BY <1>4 DEF h, Listed
<1>6. Free = FreeBlocks(list)
  BY <1>5 DEF Free, FreeBlocks
<1> QED BY <1>5, <1>6

-----------------------------------------------------------------------------
(* What the tiling says.                                                   *)
LEMMA SizeIs ==
    ASSUME NEW o \in Orders
    PROVE  Size[o] = heap_order_to_size(o)
  BY DEF Size, Orders

LEMMA PiecesAre ==
    ASSUME NEW b, NEW from \in Orders, NEW to \in 0 .. from
    PROVE  Buddies!Pieces(<<b, from>>, to) = {<<b, to>>} \cup Uppers(b, to, from)
<1>1. \A p \in to .. from - 1 : p \in Orders /\ Size[p] = heap_order_to_size(p)
  BY HeapAssumption, SizeIs DEF Orders
<1> QED BY <1>1 DEF Buddies!Pieces, Uppers

(* Blocks that have a byte in common are one block.                        *)
LEMMA CommonByte ==
    ASSUME Buddies!IInv, NEW o \in Orders, NEW q \in Orders, NEW a \in Nat, NEW c \in Nat,
           <<a, o>> \in Free \cup LiveBlocks(live), <<c, q>> \in Free \cup LiveBlocks(live),
           NEW e \in Nat,
           a <= e, e < a + heap_order_to_size(o), c <= e, e < c + heap_order_to_size(q)
    PROVE  <<a, o>> = <<c, q>>
<1>1. \A p \in Orders : p \in Nat /\ heap_order_to_size(p) \in Nat
  BY Doubling, HeapAssumption DEF Orders
<1>2. /\ Buddies!Bytes(<<a, o>>) = a .. (a + heap_order_to_size(o) - 1)
      /\ Buddies!Bytes(<<c, q>>) = c .. (c + heap_order_to_size(q) - 1)
  BY SizeIs DEF Buddies!Bytes
<1>3. \A x, y \in Free \cup LiveBlocks(live) :
         x # y => Buddies!Bytes(x) \cap Buddies!Bytes(y) = {}
  BY DEF Buddies!IInv, Buddies!Disjoint, Buddies!Blocks
<1> DEFINE s == heap_order_to_size(o)
           t == heap_order_to_size(q)
<1>4. s \in Nat /\ t \in Nat
  BY <1>1
<1>5. e \in a .. (a + s - 1) /\ e \in c .. (c + t - 1)
  BY <1>4
<1> HIDE DEF s, t
<1> QED BY <1>2, <1>3, <1>5 DEF s, t

(* Blocks lie in the heap, and their pages are heap pages.                 *)
LEMMA BlockInHeap ==
    ASSUME Buddies!IInv, NEW o \in Orders, NEW a \in Nat,
           <<a, o>> \in Free \cup LiveBlocks(live),
           NEW e \in Nat, a <= e, e < a + heap_order_to_size(o)
    PROVE  HEAP_START <= e /\ e < HEAP_START + heap_order_to_size(HEAP_MAX_ORDER)
<1> DEFINE s == heap_order_to_size(o)
           t == heap_order_to_size(HEAP_MAX_ORDER)
<1>1. s \in Nat /\ t \in Nat /\ HEAP_START \in Nat
  BY Doubling, HeapAssumption DEF Orders
<1>2. Buddies!Bytes(<<a, o>>) = a .. (a + s - 1)
  BY SizeIs DEF Buddies!Bytes
<1>3. Buddies!Bytes(<<a, o>>) \subseteq HEAP_START .. (HEAP_START + t - 1)
  <2>1. HEAP_MAX_ORDER \in Orders
    BY HeapAssumption DEF Orders
  <2>2. Buddies!HeapRange = HEAP_START .. (HEAP_START + t - 1)
    BY <2>1, SizeIs DEF Buddies!HeapRange, Buddies!HeapSize
  <2> QED BY <2>2 DEF Buddies!IInv, Buddies!Covered, Buddies!Blocks
<1>4. e \in a .. (a + s - 1)
  BY <1>1
<1> HIDE DEF s, t
<1>5. e \in HEAP_START .. (HEAP_START + t - 1)
  BY <1>2, <1>3, <1>4
<1>6. HEAP_START <= e /\ e < HEAP_START + t
  BY <1>1, <1>5
<1> QED BY <1>6 DEF t

(* The pages of a block, whatever block it is.                             *)
LEMMA BlockPages ==
    ASSUME NEW a \in Starts, NEW o \in Orders
    PROVE  /\ Page(a) \in PagesOf(a, o) /\ PagesOf(a, o) = Page(a) .. (Page(a) + shifted[o] - 1)
           /\ Page(a) \in Nat /\ shifted[o] \in Nat \ {0} /\ Cardinality(PagesOf(a, o)) = shifted[o]
           /\ \A p \in Nat : p \in PagesOf(a, o) <=>
                 a <= p * BLOCK_SIZE /\ p * BLOCK_SIZE < a + heap_order_to_size(o)
           /\ \A p \in PagesOf(a, o) : p \in Nat /\ p * BLOCK_SIZE \in Nat
<1>1. o \in Nat /\ BLOCK_SIZE \in Nat /\ shifted[o] \in Nat \ {0} /\ Aligned(a)
  BY HeapAssumption, SizesAssumption, ShiftDoubles, StartPages DEF Orders
<1>2. /\ Page(a) \in Nat /\ PagesOf(a, o) = Page(a) .. (Page(a) + shifted[o] - 1)
      /\ Cardinality(PagesOf(a, o)) = shifted[o]
      /\ \A p \in Nat : p \in PagesOf(a, o) <=>
            a <= p * BLOCK_SIZE /\ p * BLOCK_SIZE < a + heap_order_to_size(o)
  BY <1>1, PagesOfBlock
<1>3. Page(a) \in PagesOf(a, o) /\ PagesOf(a, o) \subseteq Nat
  <2> DEFINE k == Page(a)
             s == shifted[o]
  <2>1. k \in Nat /\ s \in Nat \ {0}
    BY <1>1, <1>2
  <2> HIDE DEF k, s
  <2>2. k \in k .. (k + s - 1) /\ k .. (k + s - 1) \subseteq Nat
    BY <2>1
  <2> QED BY <1>2, <2>2 DEF k, s
<1>4. \A p \in Nat : p * BLOCK_SIZE \in Nat
  BY <1>1
<1> QED BY <1>1, <1>2, <1>3, <1>4

LEMMA PagesInHeap ==
    ASSUME Buddies!IInv, NEW a \in Starts, NEW o \in Orders, <<a, o>> \in Free \cup LiveBlocks(live)
    PROVE  PagesOf(a, o) \subseteq HeapPages
<1> SUFFICES ASSUME NEW p \in PagesOf(a, o) PROVE p \in HeapPages
  OBVIOUS
<1>1. /\ p \in Nat /\ p * BLOCK_SIZE \in Nat /\ a <= p * BLOCK_SIZE
      /\ p * BLOCK_SIZE < a + heap_order_to_size(o)
  BY BlockPages
<1>2. a \in Nat
  BY StartPages
<1>3. /\ HEAP_START <= p * BLOCK_SIZE
      /\ p * BLOCK_SIZE < HEAP_START + heap_order_to_size(HEAP_MAX_ORDER)
  BY <1>1, <1>2, BlockInHeap
<1> QED BY <1>1, <1>3, HeapOnPages, PagesOfBlock DEF HeapPages

(* Blocks that have a page in common are one block.                        *)
LEMMA CommonPage ==
    ASSUME Buddies!IInv, NEW o \in Orders, NEW q \in Orders, NEW a \in Starts, NEW c \in Starts,
           <<a, o>> \in Free \cup LiveBlocks(live), <<c, q>> \in Free \cup LiveBlocks(live),
           NEW p \in PagesOf(a, o), p \in PagesOf(c, q)
    PROVE  <<a, o>> = <<c, q>>
<1>1. /\ p * BLOCK_SIZE \in Nat /\ p \in Nat
      /\ a <= p * BLOCK_SIZE /\ p * BLOCK_SIZE < a + heap_order_to_size(o)
      /\ c <= p * BLOCK_SIZE /\ p * BLOCK_SIZE < c + heap_order_to_size(q)
  BY BlockPages
<1>2. a \in Nat /\ c \in Nat
  BY StartPages
<1> QED BY <1>1, <1>2, CommonByte

(* In particular, the page a free block starts on is nobody else's.        *)
LEMMA FreePage ==
    ASSUME Buddies!IInv, TInv, NEW list, Memory(Heap, list, DOMAIN live),
           NEW b \in DOMAIN live, NEW p \in PagesOf(b, live[b].order)
    PROVE  /\ p \in HeapPages
           /\ \A x \in OnLists(list) : Page(x) # p
           /\ \A y \in DOMAIN live : y # b => Page(y) # p
<1>1. /\ Free = FreeBlocks(list) /\ OnLists(list) \subseteq Starts
      /\ DOMAIN live \subseteq Starts /\ \A y \in DOMAIN live : live[y].order \in Orders
      /\ PagesOf(b, live[b].order) \subseteq HeapPages
  <2>1. Free = FreeBlocks(list)
    BY ReadsOff DEF Reads
  <2> QED BY <2>1 DEF Memory, TInv, Headers
<1>2. \A y \in DOMAIN live : <<y, live[y].order>> \in LiveBlocks(live)
  BY DEF LiveBlocks
<1>3. ASSUME NEW x \in OnLists(list), Page(x) = p PROVE FALSE
  <2>1. PICK o \in Orders : x \in ToSet(list[o])
    BY DEF OnLists
  <2>2. <<x, o>> \in Free
    BY <1>1, <2>1, Listing
  <2>3. p \in PagesOf(x, o)
    BY <1>1, <1>3, BlockPages
  <2>4. <<x, o>> = <<b, live[b].order>>
    BY <1>1, <1>2, <2>2, <2>3, CommonPage
  <2>5. Free \cap LiveBlocks(live) = {}
    BY DEF Buddies!IInv, Buddies!Disjoint
  <2> QED BY <1>2, <2>2, <2>4, <2>5
<1>4. ASSUME NEW y \in DOMAIN live, y # b, Page(y) = p PROVE FALSE
  <2>1. p \in PagesOf(y, live[y].order)
    BY <1>1, <1>4, BlockPages
  <2>2. <<y, live[y].order>> = <<b, live[b].order>>
    BY <1>1, <1>2, <2>1, CommonPage
  <2> QED BY <1>4, <2>2
<1> QED BY <1>1, <1>3, <1>4

-----------------------------------------------------------------------------
(* heap_alloc, whatever the heap looks like.  It stops behind the array of *)
(* lists, or serves the request from the first list that is not empty.     *)
Served(order, found, size) ==
    /\ order <= found /\ heap_free_list[found] # NULL
    /\ \A o \in Orders : order <= o /\ o < found => heap_free_list[o] = NULL
    /\ size + HEADER < heap_order_to_size(order)
    /\ heap_alloc_block(heap_split_block(Heap, found, order, heap_free_list[found]), order, size)

LEMMA Choice ==
    ASSUME NEW size \in Nat, heap_alloc(size)
    PROVE  /\ kernel = "runs"
           /\ Stop("past_list") \/ \E order, found \in Orders : Served(order, found, size)
<1> DEFINE M == HEAP_MAX_ORDER
           order == heap_size_to_order(size)
           O == {o \in 0 .. M + 1 : o > M \/ size + HEADER < heap_order_to_size(o)}
           F == {o \in order .. M + 1 : o > M \/ heap_free_list[o] # NULL}
           found == Min(F)
<1>1. M \in Nat /\ M + 1 \in O /\ O \subseteq Nat
  BY HeapAssumption
<1>2. order \in O
  <2>1. order = Min(O)
    BY DEF heap_size_to_order
  <2> HIDE DEF O, order
  <2> QED BY <1>1, <2>1, MinOf
<1>3. /\ kernel = "runs"
      /\ IF found > M THEN AFTER_LIST # NULL /\ Stop("past_list")
         ELSE heap_alloc_block(heap_split_block(Heap, found, order, heap_free_list[found]),
                               order, size)
  BY DEF heap_alloc
<1>4. order \in Nat /\ order <= M + 1 /\ (order <= M => size + HEADER < heap_order_to_size(order))
  BY <1>1, <1>2
<1> HIDE DEF order, O
<1>5. found \in F /\ \A y \in F : found <= y
  <2>1. M + 1 \in F /\ F \subseteq Nat
    BY <1>1, <1>4
  <2> HIDE DEF F
  <2> QED BY <2>1, MinOf
<1> HIDE DEF found
<1>6. CASE found > M
  BY <1>3, <1>6
<1>7. CASE ~ (found > M)
  <2>1. found \in Nat /\ order <= found /\ found <= M
    BY <1>1, <1>4, <1>5, <1>7
  <2>2. order \in Orders /\ found \in Orders
    BY <1>1, <1>4, <2>1 DEF Orders
  <2>3. heap_free_list[found] # NULL
    BY <1>5, <1>7
  <2>4. ASSUME NEW o \in Orders, order <= o, o < found PROVE heap_free_list[o] = NULL
    <3>1. o \in order .. M + 1 /\ ~ (found <= o)
      BY <1>1, <1>4, <2>1, <2>4 DEF Orders
    <3> QED BY <1>5, <3>1
  <2>5. size + HEADER < heap_order_to_size(order)
    BY <1>1, <1>4, <2>1
  <2>6. Served(order, found, size)
    BY <1>3, <1>7, <2>1, <2>3, <2>4, <2>5 DEF Served
  <2> QED BY <1>3, <2>2, <2>6
<1> QED BY <1>6, <1>7

(* heap_alloc_block, given a pointer to a block and the heap without it:   *)
(* as many fresh frames as the block has pages, and the order in the first.*)
Handed(s, b, order, size) ==
    LET pages == PagesOf(b, order)
        taken == TakeFrames(Cardinality(pages))
    IN  /\ heap_free_list' = s.head
        /\ pte' = [p \in DOMAIN pte |-> IF p \in pages THEN taken.got[p - Page(b) + 1] ELSE pte[p]]
        /\ word' = [s.word EXCEPT ![pte'[Page(b)]].order = order]
        /\ memory_map' = taken.map /\ used_blocks' = taken.used
        /\ live' = [x \in DOMAIN live \cup {b} |->
                      IF x = b THEN [order |-> order, size |-> size] ELSE live[x]]
        /\ UNCHANGED kernel

LEMMA Branches ==
    ASSUME TInv, NEW h \in Heaps, NEW order \in Orders, NEW size \in Nat,
           heap_alloc_block(h, order, size)
    PROVE  LET b == h.head[order]
               s == heap_del_block(h, order, b)
           IN  \/ /\ s.kernel # "runs" \/ ~ PagesOf(b, order) \subseteq HeapPages
                  /\ \E how \in Kernels : Stop(how)
               \/ /\ s.kernel = "runs" /\ s \in Heaps /\ b \in Starts
                  /\ PagesOf(b, order) \subseteq HeapPages
                  /\ Handed(s, b, order, size)
<1> DEFINE b == h.head[order]
           s == heap_del_block(h, order, b)
           ok == s.kernel = "runs" /\ PagesOf(b, order) \subseteq HeapPages
<1>1. DOMAIN pte = HeapPages
  BY DEF TInv, Backed
<1>2. /\ ok => Handed(s, b, order, size)
      /\ ~ ok => Stop(IF s.kernel = "runs" THEN "lost" ELSE s.kernel)
  BY <1>1 DEF heap_alloc_block, Handed
<1>3. b \in Links
  BY DEF Heaps
<1>4. s \in Heaps
  BY FramesInRange, DelTyped
<1>5. ASSUME PagesOf(b, order) \subseteq HeapPages PROVE b # NULL
  <2>1. SUFFICES ASSUME b = NULL PROVE FALSE
    OBVIOUS
  <2>2. BLOCK_SIZE \in Nat \ {0} /\ order \in Nat
    BY SizesAssumption, HeapAssumption DEF Orders
  <2>3. Aligned(b)
    <3>1. b = 0 * BLOCK_SIZE
      BY <2>1, <2>2 DEF NULL
    <3> QED BY <3>1 DEF Aligned
  <2>4. /\ Page(b) \in Nat /\ b = Page(b) * BLOCK_SIZE
        /\ PagesOf(b, order) = Page(b) .. (Page(b) + shifted[order] - 1)
        /\ shifted[order] \in Nat \ {0}
    BY <2>2, <2>3, PagesOfBlock, ShiftDoubles
  <2> DEFINE k == Page(b)
             n == shifted[order]
  <2>5. k \in k .. (k + n - 1)
    <3> HIDE DEF k, n
    <3>1. k \in Nat /\ n \in Nat \ {0}
      BY <2>4 DEF k, n
    <3> QED BY <3>1
  <2>6. k \in HeapPages
    BY <1>5, <2>4, <2>5
  <2>7. k \in Nat \ {0}
    BY <2>6, StartPages
  <2> HIDE DEF k
  <2>8. k * BLOCK_SIZE = 0
    BY <2>1, <2>4 DEF NULL, k
  <2> QED BY <2>2, <2>7, <2>8
<1>6. ASSUME b = UNKNOWN PROVE s.kernel # "runs"
  <2> DEFINE end == Search(h, order, b)
             n == Min(Rounds(h, order, b))
             met == Met(h, order)
  <2>1. met[0] = UNKNOWN
    BY <1>6, FramesInRange, Walk
  <2>2. end = "loops" \/ end = "lost"
    <3>1. CASE end # "loops"
      <4>1. /\ n \in Nat
            /\ \A k \in 0 .. n - 1 : met[k] \notin {b, NULL, UNKNOWN}
            /\ end = "lost" <=> met[n] = UNKNOWN
        BY <3>1, FramesInRange, SearchEnds
      <4> HIDE DEF n, end, met
      <4>2. n = 0
        <5>1. SUFFICES ASSUME n # 0 PROVE FALSE
          OBVIOUS
        <5>2. 0 \in 0 .. n - 1
          BY <4>1, <5>1
        <5> QED BY <2>1, <4>1, <5>2
      <4> QED BY <2>1, <4>1, <4>2
    <3> QED BY <3>1
  <2>3. s = [h EXCEPT !.kernel = end]
    <3>1. ~ (order > HEAP_MAX_ORDER)
      BY HeapAssumption DEF Orders
    <3>2. s = CASE end = "absent" -> h
                [] end = "found" /\ n % 256 = 0 -> [h EXCEPT !.head[order] = Link(h, b)]
                [] end = "found" /\ n % 256 # 0 ->
                       [h EXCEPT !.word[pte[Page(met[n - 1])]] = AsWord(Link(h, b))]
                [] OTHER -> [h EXCEPT !.kernel = end]
      BY <3>1 DEF heap_del_block
    <3> HIDE DEF end, n, met, s
    <3> QED BY <2>2, <3>2
  <2>4. h = [head |-> h.head, word |-> h.word, kernel |-> h.kernel]
    BY DEF Heaps
  <2> HIDE DEF end, s
  <2>5. s.kernel = end
    BY <2>3, <2>4
  <2> QED BY <2>2, <2>5
<1> HIDE DEF s, b
<1>7. s.kernel \in Kernels
  BY <1>4 DEF Heaps
<1>8. ASSUME ok
      PROVE  /\ s.kernel = "runs" /\ s \in Heaps /\ b \in Starts
             /\ PagesOf(b, order) \subseteq HeapPages
             /\ Handed(s, b, order, size)
  BY <1>2, <1>3, <1>4, <1>5, <1>6, <1>8 DEF Links
<1>9. ASSUME ~ ok PROVE \E how \in Kernels : Stop(how)
  <2>1. (IF s.kernel = "runs" THEN "lost" ELSE s.kernel) \in Kernels
    BY <1>7 DEF Kernels
  <2> QED BY <1>2, <1>9, <2>1
<1> QED BY <1>8, <1>9 DEF s, b

(* What stops the kernel in the middle of a call breaks no type.           *)
LEMMA StopTyped ==
    ASSUME TInv, NEW how \in Kernels, Stop(how)
    PROVE  /\ TInv' /\ memory_map' = memory_map
           /\ (how \in {"runs", "past_list"} /\ CInv) => CInv' /\ UNCHANGED Buddies!hvars
<1>1. /\ heap_free_list' = heap_free_list /\ word' = word /\ pte' = pte /\ live' = live
      /\ memory_map' = memory_map /\ used_blocks' = used_blocks /\ kernel' = how
  BY DEF Stop
<1>2. Heap' \in Heaps
  <2>1. Heap' = [head |-> heap_free_list, word |-> word, kernel |-> how]
    BY <1>1 DEF Heap
  <2>2. heap_free_list \in [Orders -> Links] /\ word \in [0 .. Top - 1 -> Words]
    BY DEF TInv, Heaps, Heap
  <2> QED BY <2>1, <2>2 DEF Heaps
<1>3. (Heap \in Heaps)'
  BY <1>2 DEF Heaps, Links, Words, Starts, HEAP_PAGES, Orders, Kernels, Top
<1>4. HeapPages' = HeapPages /\ Window' = Window /\ LivePages' = LivePages
  BY <1>1 DEF HeapPages, PagesOf, Page, Window, LivePages, heap_order_to_size
<1>5. Headers'
  BY <1>1, <1>4 DEF TInv, Headers, PagesOf, Page, heap_order_to_size
<1>6. Accounts(memory_map, used_blocks)'
  BY <1>1 DEF TInv, Accounts
<1>7. Backed' /\ LiveBacked' /\ LivePagesDistinct'
  BY <1>1, <1>4 DEF TInv, Backed, LiveBacked, LivePagesDistinct
<1>8. RequestFits'
  BY <1>1 DEF TInv, RequestFits, heap_order_to_size
<1>9. TInv'
  BY <1>3, <1>5, <1>6, <1>7, <1>8 DEF TInv
<1>10. ASSUME how \in {"runs", "past_list"}, CInv PROVE CInv' /\ UNCHANGED Buddies!hvars
  <2>1. PICK list : Memory(Heap, list, DOMAIN live)
    BY <1>10 DEF CInv
  <2>2. Memory(Heap, list, DOMAIN live)'
    BY <1>1, <2>1 DEF Memory, Linked, Stamped, Heap, Link, FrameOf, Lists, Chains, OnLists, Once
  <2>3. Reads /\ Reads'
    BY ReadsOff, PTL
  <2>4. Free = FreeBlocks(list) /\ Free' = FreeBlocks(list)
    BY <1>9, <2>1, <2>2, <2>3 DEF Reads, FreeBlocks
  <2>5. LiveBlocks(live)' = LiveBlocks(live)
    BY <1>1 DEF LiveBlocks
  <2>6. UNCHANGED Buddies!hvars
    BY <2>4, <2>5 DEF Buddies!hvars
  <2>7. Buddies!IInv'
    BY <1>10, <2>6, SizesDouble, HalvesThere, Buddies!NextPreserves DEF CInv
  <2>8. Intact'
    BY <1>1, <1>4, <1>10 DEF CInv, Intact
  <2> QED BY <1>1, <1>10, <2>2, <2>6, <2>7, <2>8 DEF CInv
<1> QED BY <1>1, <1>9, <1>10

(* The frames a block gets are taken just now, so no other page has them.  *)
Fresh(b, order) ==
    LET pages == PagesOf(b, order)
    IN  /\ memory_map \subseteq memory_map'
        /\ \A p \in pages : pte'[p] = NULL \/ (pte'[p] \in memory_map' /\ pte'[p] \notin memory_map)
        /\ \A p, q \in pages : p # q /\ pte'[p] = pte'[q] => pte'[p] = NULL
        /\ Window \cap memory_map' = {} => \A p \in pages : pte'[p] # NULL
        /\ \A p \in HeapPages \ pages : pte'[p] = pte[p]

LEMMA HandedFresh ==
    ASSUME TInv, NEW s, NEW b \in Starts, NEW order \in Orders, NEW size \in Nat,
           PagesOf(b, order) \subseteq HeapPages, Handed(s, b, order, size)
    PROVE  Fresh(b, order) /\ DOMAIN pte' = HeapPages /\ Accounts(memory_map', used_blocks')
<1> DEFINE pages == PagesOf(b, order)
           taken == TakeFrames(Cardinality(pages))
           k == Page(b)
           n == shifted[order]
<1>1. k \in Nat /\ n \in Nat \ {0} /\ pages = k .. (k + n - 1) /\ Cardinality(pages) = n
  BY BlockPages
<1>2. /\ pte' = [p \in DOMAIN pte |-> IF p \in pages THEN taken.got[p - k + 1] ELSE pte[p]]
      /\ memory_map' = taken.map /\ used_blocks' = taken.used
  BY DEF Handed
<1>3. DOMAIN pte = HeapPages /\ pages \subseteq HeapPages /\ Accounts(memory_map, used_blocks)
  BY DEF TInv, Backed
<1> HIDE DEF pages, n
<1>4. /\ Accounts(taken.map, taken.used)
      /\ memory_map \subseteq taken.map
      /\ \A j \in 1 .. n :
            taken.got[j] = NULL \/ (taken.got[j] \in taken.map /\ taken.got[j] \notin memory_map)
      /\ \A i, j \in 1 .. n : i # j /\ taken.got[i] = taken.got[j] => taken.got[i] = NULL
      /\ Window \cap taken.map = {} => \A j \in 1 .. n : taken.got[j] # NULL
  BY <1>1, <1>3, FramesTaken
<1> HIDE DEF taken, k
<1>5. \A p \in pages : p - k + 1 \in 1 .. n /\ pte'[p] = taken.got[p - k + 1]
  BY <1>1, <1>2, <1>3
<1>6. \A p, q \in pages : p # q => p - k + 1 # q - k + 1
  BY <1>1
<1>7. DOMAIN pte' = HeapPages /\ \A p \in HeapPages \ pages : pte'[p] = pte[p]
  BY <1>2, <1>3
<1>8. \A p, q \in pages : p # q /\ pte'[p] = pte'[q] => pte'[p] = NULL
  BY <1>4, <1>5, <1>6
<1>9. /\ \A p \in pages : pte'[p] = NULL \/ (pte'[p] \in memory_map' /\ pte'[p] \notin memory_map)
      /\ Window \cap memory_map' = {} => \A p \in pages : pte'[p] # NULL
  <2>1. memory_map' = taken.map
    BY <1>2
  <2>2. \A p \in pages : \/ taken.got[p - k + 1] = NULL
                         \/ taken.got[p - k + 1] \in taken.map /\ taken.got[p - k + 1] \notin memory_map
    BY <1>4, <1>5
  <2>3. Window \cap taken.map = {} => \A p \in pages : taken.got[p - k + 1] # NULL
    BY <1>4, <1>5
  <2>4. ASSUME NEW p \in pages
        PROVE  pte'[p] = NULL \/ (pte'[p] \in memory_map' /\ pte'[p] \notin memory_map)
    <3>1. pte'[p] = taken.got[p - k + 1]
      BY <1>5
    <3> QED BY <2>1, <2>2, <3>1
  <2>5. ASSUME Window \cap memory_map' = {}, NEW p \in pages PROVE pte'[p] # NULL
    <3>1. pte'[p] = taken.got[p - k + 1]
      BY <1>5
    <3> QED BY <2>1, <2>3, <2>5, <3>1
  <2> QED BY <2>4, <2>5
<1>10. memory_map \subseteq memory_map' /\ Accounts(memory_map', used_blocks')
  BY <1>2, <1>4
<1> QED BY <1>7, <1>8, <1>9, <1>10 DEF Fresh, pages

(* The live pages after a block is handed out: the old ones and its own.   *)
LEMMA HandedPages ==
    ASSUME TInv, NEW s, NEW b \in Starts, NEW order \in Orders, NEW size \in Nat,
           Handed(s, b, order, size)
    PROVE  /\ DOMAIN live' = DOMAIN live \cup {b} /\ live'[b] = [order |-> order, size |-> size]
           /\ \A x \in DOMAIN live : x # b => live'[x] = live[x]
           /\ LivePages' \subseteq LivePages \cup PagesOf(b, order)
<1>1. live' = [x \in DOMAIN live \cup {b} |->
                 IF x = b THEN [order |-> order, size |-> size] ELSE live[x]]
  BY DEF Handed
<1>2. /\ DOMAIN live' = DOMAIN live \cup {b} /\ live'[b] = [order |-> order, size |-> size]
      /\ \A x \in DOMAIN live : x # b => live'[x] = live[x]
  BY <1>1
<1>3. LivePages' = UNION {PagesOf(x, live'[x].order) : x \in DOMAIN live'}
  BY DEF LivePages, PagesOf, Page, heap_order_to_size
<1>4. ASSUME NEW p \in LivePages' PROVE p \in LivePages \cup PagesOf(b, order)
  <2>1. PICK x \in DOMAIN live' : p \in PagesOf(x, live'[x].order)
    BY <1>3
  <2>2. CASE x = b
    BY <1>2, <2>1, <2>2
  <2>3. CASE x # b
    <3>1. x \in DOMAIN live /\ p \in PagesOf(x, live[x].order)
      BY <1>2, <2>1, <2>3
    <3> QED BY <3>1 DEF LivePages
  <2> QED BY <2>2, <2>3
<1> QED BY <1>2, <1>4

LEMMA LivePagesInHeap == ASSUME TInv PROVE LivePages \subseteq HeapPages
  BY DEF TInv, Headers, LivePages

(* Handing a block out breaks no type, and shares no page, not even when   *)
(* the list it comes from was not what it should be.                       *)
LEMMA HandedTyped ==
    ASSUME TInv, NEW s \in Heaps, NEW b \in Starts, NEW order \in Orders, NEW size \in Nat,
           size + HEADER < heap_order_to_size(order),
           PagesOf(b, order) \subseteq HeapPages, Handed(s, b, order, size)
    PROVE  TInv'
<1> DEFINE pages == PagesOf(b, order)
<1>1. /\ Fresh(b, order) /\ DOMAIN pte' = HeapPages /\ Accounts(memory_map', used_blocks')
      /\ pages \subseteq HeapPages
  BY HandedFresh
<1>2. /\ DOMAIN live' = DOMAIN live \cup {b} /\ live'[b] = [order |-> order, size |-> size]
      /\ \A x \in DOMAIN live : x # b => live'[x] = live[x]
      /\ LivePages' \subseteq LivePages \cup pages
  BY HandedPages
<1> HIDE DEF pages
<1>3. /\ memory_map \subseteq memory_map'
      /\ \A p \in pages : pte'[p] = NULL \/ (pte'[p] \in memory_map' /\ pte'[p] \notin memory_map)
      /\ \A p, q \in pages : p # q /\ pte'[p] = pte'[q] => pte'[p] = NULL
      /\ \A p \in HeapPages \ pages : pte'[p] = pte[p]
  BY <1>1 DEF Fresh, pages
<1>4. /\ \A p \in HeapPages : pte[p] \in memory_map \cup Window
      /\ \A p \in LivePages : pte[p] \in memory_map
      /\ LivePages \subseteq HeapPages
      /\ NULL \in memory_map
  BY LivePagesInHeap, Machine DEF TInv, Backed, LiveBacked, Accounts, Kernel, NULL
<1>5. HeapPages' = HeapPages /\ Window' = Window
  BY DEF HeapPages, PagesOf, Page, Window, heap_order_to_size
<1>6. NULL \in memory_map'
  BY <1>3, <1>4
<1>7. Accounts(memory_map, used_blocks)'
  BY <1>1 DEF Accounts
<1>8. Backed'
  <2>1. ASSUME NEW p \in HeapPages PROVE pte'[p] \in memory_map' \cup Window
    BY <1>3, <1>4, <1>6
  <2> QED BY <1>1, <1>5, <2>1 DEF Backed
<1>9. LiveBacked'
  <2>1. ASSUME NEW p \in LivePages' PROVE pte'[p] \in memory_map'
    BY <1>2, <1>3, <1>4, <1>6
  <2> QED BY <2>1 DEF LiveBacked
<1>10. LivePagesDistinct'
  <2>1. ASSUME NEW p \in LivePages', NEW q \in LivePages', p # q, pte'[p] = pte'[q]
        PROVE  pte'[p] = NULL
    <3>1. CASE p \notin pages /\ q \notin pages
      <4>1. p \in LivePages /\ q \in LivePages
        BY <1>2, <3>1
      <4>2. pte'[p] = pte[p] /\ pte'[q] = pte[q]
        BY <1>3, <1>4, <3>1, <4>1
      <4> QED BY <2>1, <4>1, <4>2 DEF TInv, LivePagesDistinct
    <3>2. CASE p \in pages /\ q \in pages
      BY <1>3, <2>1, <3>2
    <3>3. CASE p \in pages /\ q \notin pages
      BY <1>2, <1>3, <1>4, <2>1, <3>3
    <3>4. CASE p \notin pages /\ q \in pages
      BY <1>2, <1>3, <1>4, <2>1, <3>4
    <3> QED BY <3>1, <3>2, <3>3, <3>4
  <2> QED BY <2>1 DEF LivePagesDistinct
<1>11. RequestFits'
  <2>1. \A x \in DOMAIN live : live[x].size + HEADER <= heap_order_to_size(live[x].order)
    BY DEF TInv, RequestFits
  <2>2. size + HEADER <= heap_order_to_size(order)
    <3>1. heap_order_to_size(order) \in Nat /\ HEADER \in Nat
      BY Doubling, HeapAssumption, SizesAssumption DEF Orders
    <3> QED BY <3>1
  <2>3. \A x \in DOMAIN live' : live'[x].size + HEADER <= heap_order_to_size(live'[x].order)
    BY <1>2, <2>1, <2>2
  <2> QED BY <2>3 DEF RequestFits, heap_order_to_size
<1>12. Headers'
  <2>1. DOMAIN live' \subseteq Starts
    BY <1>2 DEF TInv, Headers
  <2>2. \A x \in DOMAIN live' : live'[x] \in [order : Orders, size : Nat]
    BY <1>2 DEF TInv, Headers
  <2>3. live' = [x \in DOMAIN live' |-> live'[x]]
    BY DEF Handed
  <2>4. \A x \in DOMAIN live' : PagesOf(x, live'[x].order) \subseteq HeapPages
    <3>1. \A x \in DOMAIN live : PagesOf(x, live[x].order) \subseteq HeapPages
      BY DEF TInv, Headers
    <3>2. PagesOf(b, live'[b].order) \subseteq HeapPages
      BY <1>1, <1>2 DEF pages
    <3> QED BY <1>2, <3>1, <3>2
  <2>5. live' \in [DOMAIN live' -> [order : Orders, size : Nat]]
    BY <2>2, <2>3
  <2> QED BY <1>5, <2>1, <2>4, <2>5
          DEF Headers, PagesOf, Page, heap_order_to_size, Starts, HEAP_PAGES, Orders
<1>13. (Heap \in Heaps)'
  <2> DEFINE f == pte'[Page(b)]
             w == [s.word EXCEPT ![f].order = order]
  <2>1. /\ heap_free_list' = s.head /\ word' = w /\ kernel' = kernel
    BY DEF Handed
  <2>2. /\ s.head \in [Orders -> Links] /\ s.word \in [0 .. Top - 1 -> Words]
        /\ kernel \in Kernels
    BY DEF TInv, Heap, Heaps
  <2>3. w \in [0 .. Top - 1 -> Words]
    <3> HIDE DEF f
    <3>1. ASSUME NEW x \in Words PROVE [x EXCEPT !.order = order] \in Words
      <4>1. x.rest \in Links /\ x = [rest |-> x.rest, order |-> x.order]
        BY DEF Words
      <4>2. [x EXCEPT !.order = order] = [rest |-> x.rest, order |-> order]
        BY <4>1
      <4> QED BY <4>1, <4>2 DEF Words
    <3>2. w = [s.word EXCEPT ![f] = [s.word[f] EXCEPT !.order = order]]
      OBVIOUS
    <3> QED BY <2>2, <3>1, <3>2
  <2> HIDE DEF w
  <2>4. Heap' = [head |-> s.head, word |-> w, kernel |-> kernel]
    BY <2>1 DEF Heap
  <2>5. Heap' \in Heaps
    BY <2>2, <2>3, <2>4 DEF Heaps
  <2> QED BY <2>5 DEF Heaps, Links, Words, Starts, HEAP_PAGES, Orders, Kernels, Top
<1> QED BY <1>7, <1>8, <1>9, <1>10, <1>11, <1>12, <1>13 DEF TInv

-----------------------------------------------------------------------------
(* heap_alloc whatever the heap looks like: types, frames and sizes hold.  *)
LEMMA AllocTyped ==
    ASSUME TInv, NEW size \in Nat, heap_alloc(size)
    PROVE  TInv' /\ memory_map \subseteq memory_map'
<1>1. CASE Stop("past_list")
  <2>1. "past_list" \in Kernels
    BY DEF Kernels
  <2>2. TInv' /\ memory_map' = memory_map
    BY <1>1, <2>1, StopTyped
  <2> QED BY <2>2
<1>2. ASSUME NEW order \in Orders, NEW found \in Orders, Served(order, found, size)
      PROVE  TInv' /\ memory_map \subseteq memory_map'
  <2> DEFINE h == heap_split_block(Heap, found, order, heap_free_list[found])
             b == h.head[order]
             s == heap_del_block(h, order, b)
  <2>1. h \in Heaps
    <3>1. InRange /\ Heap \in Heaps /\ order \in 0 .. found
      BY <1>2, FramesInRange, HeapAssumption DEF TInv, Served, Orders
    <3>2. Splits(Heap, found, order, heap_free_list[found])
      BY <3>1, SplitSteps
    <3>3. order \in order .. found
      BY <3>1, HeapAssumption DEF Orders
    <3> QED BY <3>2, <3>3 DEF Splits
  <2>2. heap_alloc_block(h, order, size) /\ size + HEADER < heap_order_to_size(order)
    BY <1>2 DEF Served
  <2> HIDE DEF h
  <2>3. \/ \E how \in Kernels : Stop(how)
        \/ s \in Heaps /\ b \in Starts /\ PagesOf(b, order) \subseteq HeapPages
           /\ Handed(s, b, order, size)
    BY <2>1, <2>2, Branches
  <2> HIDE DEF s, b
  <2>4. ASSUME NEW how \in Kernels, Stop(how) PROVE TInv' /\ memory_map \subseteq memory_map'
    <3>1. TInv' /\ memory_map' = memory_map
      BY <2>4, StopTyped
    <3> QED BY <3>1
  <2>5. ASSUME s \in Heaps, b \in Starts, PagesOf(b, order) \subseteq HeapPages,
               Handed(s, b, order, size)
        PROVE  TInv' /\ memory_map \subseteq memory_map'
    <3>1. TInv'
      BY <2>2, <2>5, HandedTyped
    <3>2. Fresh(b, order)
      BY <2>5, HandedFresh
    <3> QED BY <3>1, <3>2 DEF Fresh
  <2> QED BY <2>3, <2>4, <2>5
<1> QED BY <1>1, <1>2, Choice

-----------------------------------------------------------------------------
(* The pieces a block is cut into lie in it.                               *)
LEMMA PieceInBlock ==
    ASSUME NEW b \in Nat, Aligned(b), NEW from \in Orders, NEW to \in 0 .. from,
           NEW x \in CutInto(b, from, to)
    PROVE  \E a \in Nat, o \in Orders :
              /\ x = <<a, o>> /\ Aligned(a) /\ to <= o /\ b <= a
              /\ a + heap_order_to_size(o) <= b + heap_order_to_size(from)
<1>1. /\ from \in Nat /\ to \in Nat /\ to <= from /\ to \in Orders /\ from <= HEAP_MAX_ORDER
      /\ \A o \in Nat : heap_order_to_size(o) \in Nat
  BY Doubling, HeapAssumption DEF Orders
<1>2. CASE x = <<b, to>>
  <2>1. heap_order_to_size(to) <= heap_order_to_size(from)
    <3>1. to = from \/ to < from
      BY <1>1
    <3>2. ASSUME to < from PROVE heap_order_to_size(to) <= heap_order_to_size(from)
      <4>1. 2 * heap_order_to_size(to) <= heap_order_to_size(from)
        BY <1>1, <3>2, LargerOrders
      <4>2. heap_order_to_size(to) \in Nat /\ heap_order_to_size(from) \in Nat
        BY <1>1
      <4> QED BY <4>1, <4>2
    <3>3. heap_order_to_size(from) \in Nat
      BY <1>1
    <3> QED BY <3>1, <3>2, <3>3
  <2>2. heap_order_to_size(to) \in Nat /\ heap_order_to_size(from) \in Nat
    BY <1>1
  <2>3. b + heap_order_to_size(to) <= b + heap_order_to_size(from) /\ b <= b /\ to <= to
    BY <1>1, <2>1, <2>2
  <2> QED BY <1>1, <1>2, <2>3
<1>3. ASSUME NEW o \in to .. from - 1, x = <<b + heap_order_to_size(o), o>>
      PROVE  \E a \in Nat, p \in Orders :
                /\ x = <<a, p>> /\ Aligned(a) /\ to <= p /\ b <= a
                /\ a + heap_order_to_size(p) <= b + heap_order_to_size(from)
  <2>1. o \in Nat /\ o \in Orders /\ o < from /\ to <= o
    BY <1>1, HeapAssumption DEF Orders
  <2> DEFINE s == heap_order_to_size(o)
             t == heap_order_to_size(from)
  <2>2. s \in Nat /\ t \in Nat /\ 2 * s <= t
    BY <1>1, <2>1, LargerOrders
  <2>3. Aligned(b + s)
    <3>1. PICK k \in Nat, m \in Nat : b = k * BLOCK_SIZE /\ s = m * BLOCK_SIZE
      BY <2>1, WholePages DEF Aligned
    <3>2. b + s = (k + m) * BLOCK_SIZE /\ k + m \in Nat
      BY <3>1, SizesAssumption
    <3> HIDE DEF s
    <3> QED BY <3>2 DEF Aligned
  <2>4. x = <<b + s, o>>
    BY <1>3
  <2> HIDE DEF s, t
  <2>5. b + s \in Nat /\ b <= b + s /\ (b + s) + s <= b + t
    BY <2>2
  <2> QED BY <2>1, <2>3, <2>4, <2>5 DEF s, t
<1> QED BY <1>2, <1>3 DEF CutInto, Uppers

(* Where a free block lies, no other block starts.                         *)
LEMMA NothingInside ==
    ASSUME Buddies!IInv, TInv, NEW list, Memory(Heap, list, DOMAIN live),
           NEW o \in Orders, NEW b \in ToSet(list[o]),
           NEW e \in Nat, b <= e, e < b + heap_order_to_size(o)
    PROVE  e \notin DOMAIN live /\ (e \in OnLists(list) => e = b)
<1>1. /\ Free = FreeBlocks(list) /\ OnLists(list) \subseteq Starts
      /\ DOMAIN live \subseteq Starts /\ \A y \in DOMAIN live : live[y].order \in Orders
  <2>1. Free = FreeBlocks(list)
    BY ReadsOff DEF Reads
  <2> QED BY <2>1 DEF Memory, TInv, Headers
<1>2. <<b, o>> \in Free /\ b \in Nat
  <2>1. b \in OnLists(list)
    BY DEF OnLists
  <2> QED BY <1>1, <2>1, Listing, StartPages
<1>3. \A q \in Orders : heap_order_to_size(q) \in Nat \ {0}
  BY Doubling, HeapAssumption DEF Orders
<1>4. ASSUME NEW q \in Orders, <<e, q>> \in Free \cup LiveBlocks(live) PROVE <<e, q>> = <<b, o>>
  <2>1. e <= e /\ e < e + heap_order_to_size(q)
    BY <1>3
  <2> QED BY <1>2, <1>4, <2>1, CommonByte
<1>5. e \notin DOMAIN live
  <2>1. SUFFICES ASSUME e \in DOMAIN live PROVE FALSE
    OBVIOUS
  <2>2. <<e, live[e].order>> \in LiveBlocks(live)
    BY <2>1 DEF LiveBlocks
  <2>3. <<e, live[e].order>> = <<b, o>>
    BY <1>1, <1>4, <2>1, <2>2
  <2>4. Free \cap LiveBlocks(live) = {}
    BY DEF Buddies!IInv, Buddies!Disjoint
  <2> QED BY <1>2, <2>2, <2>3, <2>4
<1>6. ASSUME e \in OnLists(list) PROVE e = b
  <2>1. PICK q \in Orders : e \in ToSet(list[q])
    BY <1>6 DEF OnLists
  <2>2. <<e, q>> \in Free
    BY <1>1, <2>1, Listing
  <2>3. <<e, q>> = <<b, o>>
    BY <1>4, <2>2
  <2> QED BY <2>3
<1> QED BY <1>5, <1>6

(* A page of a piece is one of the block, and two pieces of one block have *)
(* no page in common.                                                      *)
LEMMA PiecePages ==
    ASSUME NEW b \in Starts, NEW from \in Orders, NEW to \in 0 .. from,
           NEW a \in Starts, NEW o \in Orders, <<a, o>> \in CutInto(b, from, to)
    PROVE  PagesOf(a, o) \subseteq PagesOf(b, from)
<1> SUFFICES ASSUME NEW p \in PagesOf(a, o) PROVE p \in PagesOf(b, from)
  OBVIOUS
<1> DEFINE e == p * BLOCK_SIZE
           s == heap_order_to_size(o)
           u == heap_order_to_size(from)
<1>1. p \in Nat /\ e \in Nat /\ a <= e /\ e < a + s
  BY BlockPages
<1>2. b \in Nat /\ Aligned(b) /\ a \in Nat
  BY StartPages
<1>3. s \in Nat /\ u \in Nat
  BY Doubling, HeapAssumption DEF Orders
<1>4. b <= a /\ a + s <= b + u
  <2>1. PICK x \in Nat, y \in Orders :
           /\ <<a, o>> = <<x, y>> /\ b <= x
           /\ x + heap_order_to_size(y) <= b + heap_order_to_size(from)
    BY <1>2, PieceInBlock
  <2> QED BY <2>1
<1>5. b <= e /\ e < b + u
  <2> HIDE DEF e, s, u
  <2> QED BY <1>1, <1>2, <1>3, <1>4
<1> QED BY <1>1, <1>5, BlockPages

Apart(b, from, to, a, o, c, q) ==
    <<a, o>> \in CutInto(b, from, to) /\ <<c, q>> \in CutInto(b, from, to) =>
        \A p \in PagesOf(a, o) : p \in PagesOf(c, q) => <<a, o>> = <<c, q>>

LEMMA PiecesApart ==
    ASSUME NEW b \in Starts, NEW from \in Orders, NEW to \in 0 .. from,
           NEW a \in Starts, NEW o \in Orders, NEW c \in Starts, NEW q \in Orders
    PROVE  Apart(b, from, to, a, o, c, q)
<1> SUFFICES ASSUME <<a, o>> \in CutInto(b, from, to), <<c, q>> \in CutInto(b, from, to),
                    NEW p \in PagesOf(a, o), p \in PagesOf(c, q)
             PROVE  <<a, o>> = <<c, q>>
  BY DEF Apart
<1> DEFINE e == p * BLOCK_SIZE
           s == heap_order_to_size(o)
           t == heap_order_to_size(q)
<1>1. p \in Nat /\ e \in Nat /\ a <= e /\ e < a + s /\ c <= e /\ e < c + t
  BY BlockPages
<1>2. b \in Nat /\ a \in Nat /\ c \in Nat /\ s \in Nat /\ t \in Nat
  <2>1. b \in Nat /\ a \in Nat /\ c \in Nat
    BY StartPages
  <2>2. s \in Nat /\ t \in Nat
    BY Doubling, HeapAssumption DEF Orders
  <2> QED BY <2>1, <2>2
<1>3. SUFFICES ASSUME <<a, o>> # <<c, q>> PROVE FALSE
  OBVIOUS
<1>4. /\ Buddies!Bytes(<<a, o>>) = a .. (a + s - 1)
      /\ Buddies!Bytes(<<c, q>>) = c .. (c + t - 1)
  BY SizeIs DEF Buddies!Bytes
<1>5. Buddies!Bytes(<<a, o>>) \cap Buddies!Bytes(<<c, q>>) = {}
  <2>1. CutInto(b, from, to) = Buddies!Pieces(<<b, from>>, to)
    BY PiecesAre DEF CutInto
  <2>2. from \in Buddies!Orders /\ to \in Buddies!Orders /\ to <= from
    BY HeapAssumption DEF Buddies!Orders, Orders
  <2> QED BY <1>2, <1>3, <2>1, <2>2, SizesDouble, HalvesThere, Buddies!PiecesDisjoint
<1>6. e \in a .. (a + s - 1) /\ e \in c .. (c + t - 1)
  <2> HIDE DEF e, s, t
  <2> QED BY <1>1, <1>2
<1> QED BY <1>4, <1>5, <1>6

(* What a request that is served does to the lists: the first block of the *)
(* list is cut, its pieces are put on their lists, and one of the order    *)
(* asked for is taken off again and handed out.                            *)
Cutting(order, found, b, n, size) ==
    \E K, s :
        /\ s \in Heaps /\ Memory(s, K, DOMAIN live)
        /\ n \in Starts /\ n \notin OnLists(K) /\ n \notin DOMAIN live
        /\ <<n, order>> \in CutInto(b, found, order)
        /\ FreeBlocks(K) = (Free \ {<<b, found>>}) \cup (CutInto(b, found, order) \ {<<n, order>>})
        /\ PagesOf(n, order) \subseteq HeapPages
        /\ Handed(s, n, order, size)

LEMMA ServedCuts ==
    ASSUME TInv, CInv, kernel = "runs", NEW size \in Nat,
           NEW order \in Orders, NEW found \in Orders, Served(order, found, size)
    PROVE  \E b \in Starts, n \in Starts :
              <<b, found>> \in Free /\ Cutting(order, found, b, n, size)
<1> DEFINE b == heap_free_list[found]
           D == DOMAIN live
           h == heap_split_block(Heap, found, order, b)
           n == h.head[order]
           s == heap_del_block(h, order, n)
           pieces == CutInto(b, found, order)
<1>1. PICK list : Memory(Heap, list, D)
  BY DEF CInv
<1>2. /\ InRange /\ Alone /\ Heap \in Heaps /\ Buddies!IInv
      /\ order \in 0 .. found /\ found \in Nat /\ order \in Nat
  <2>1. InRange /\ Alone
    BY FramesInRange, FramesAlone DEF CInv
  <2>2. order \in 0 .. found /\ found \in Nat /\ order \in Nat
    BY HeapAssumption DEF Served, Orders
  <2> QED BY <2>1, <2>2 DEF TInv, CInv
<1>3. Free = FreeBlocks(list) /\ OnLists(list) \subseteq Starts /\ list \in Lists /\ Once(list)
  <2>1. Free = FreeBlocks(list)
    BY <1>1, ReadsOff DEF Reads
  <2> QED BY <1>1, <2>1 DEF Memory
<1>4. /\ Len(list[found]) >= 1 /\ b = list[found][1] /\ b \in ToSet(list[found])
      /\ b \in Starts /\ <<b, found>> \in Free
  <2>1. /\ Len(list[found]) \in Nat
        /\ \A i \in 1 .. Len(list[found]) :
              list[found][i] \in ToSet(list[found]) /\ list[found][i] \in Starts
    BY <1>3, ListFacts
  <2>2. b = After(list[found], 0) /\ b # NULL
    BY <1>1 DEF Memory, Linked, Heap, Served
  <2>3. 0 < Len(list[found]) /\ b = list[found][1]
    BY <2>2 DEF After
  <2>4. Len(list[found]) >= 1 /\ b \in ToSet(list[found]) /\ b \in Starts
    BY <2>1, <2>3
  <2> QED BY <1>3, <2>3, <2>4, Listing
<1> HIDE DEF b
<1>5. /\ b \in Nat /\ Aligned(b)
      /\ \A o \in Orders : heap_order_to_size(o) \in Nat \ {0}
  <2>1. b \in Nat /\ Aligned(b)
    BY <1>4, StartPages
  <2>2. \A o \in Orders : heap_order_to_size(o) \in Nat \ {0}
    BY Doubling, HeapAssumption DEF Orders
  <2> QED BY <2>1, <2>2
<1>6. ASSUME NEW a, NEW o \in Orders, <<a, o>> \in pieces
      PROVE  a \in Starts /\ a \notin D /\ (a \in OnLists(list) => a = b)
  <2>1. PICK x \in Nat, y \in Orders :
           /\ <<a, o>> = <<x, y>> /\ Aligned(x) /\ b <= x
           /\ x + heap_order_to_size(y) <= b + heap_order_to_size(found)
    BY <1>2, <1>5, <1>6, PieceInBlock
  <2>2. a \in Nat /\ Aligned(a) /\ b <= a /\ a < b + heap_order_to_size(found)
    <3>1. /\ a = x /\ heap_order_to_size(y) \in Nat \ {0} /\ heap_order_to_size(found) \in Nat
          /\ x + heap_order_to_size(y) <= b + heap_order_to_size(found)
      BY <1>5, <2>1
    <3>2. x < b + heap_order_to_size(found)
      BY <1>5, <3>1
    <3> QED BY <2>1, <3>1, <3>2
  <2>3. HEAP_START <= a /\ a < HEAP_START + heap_order_to_size(HEAP_MAX_ORDER)
    BY <1>2, <1>4, <1>5, <2>2, BlockInHeap
  <2>4. a \in Starts
    BY <2>2, <2>3, InStarts
  <2>5. a \notin DOMAIN live /\ (a \in OnLists(list) => a = b)
    BY <1>1, <1>2, <1>4, <2>2, NothingInside
  <2> QED BY <2>4, <2>5
<1>7. \A o \in order .. found - 1 :
         /\ b + heap_order_to_size(o) \in Starts
         /\ b + heap_order_to_size(o) \notin OnLists(list)
         /\ b + heap_order_to_size(o) \notin D
  <2>1. SUFFICES ASSUME NEW o \in order .. found - 1
                 PROVE  /\ b + heap_order_to_size(o) \in Starts
                        /\ b + heap_order_to_size(o) \notin OnLists(list)
                        /\ b + heap_order_to_size(o) \notin D
    OBVIOUS
  <2>2. o \in Orders
    BY <1>2, HeapAssumption DEF Orders
  <2> DEFINE a == b + heap_order_to_size(o)
  <2>3. <<a, o>> \in pieces
    BY DEF CutInto, Uppers
  <2>4. a # b
    BY <1>5, <2>2
  <2> HIDE DEF a, pieces
  <2>5. a \in Starts /\ a \notin D /\ a \notin OnLists(list)
    BY <1>6, <2>2, <2>3, <2>4
  <2> QED BY <2>5 DEF a
<1> HIDE DEF D
<1>8. PICK K : /\ h \in Heaps /\ h.kernel = "runs" /\ Memory(h, K, D)
               /\ FreeBlocks(K) = (FreeBlocks(list) \ {<<b, found>>}) \cup pieces
               /\ Len(K[order]) \in Nat /\ Len(K[order]) >= 1
               /\ h.head[order] = K[order][1] /\ <<K[order][1], order>> \in pieces
  <2>1. Heap.kernel = "runs"
    BY DEF Heap
  <2>2. SplitOff(Heap, list, D, found, order, b)
    BY <1>1, <1>2, <1>4, <1>7, SplitKeeps
  <2> QED BY <2>1, <2>2 DEF SplitOff
<1>9. heap_alloc_block(h, order, size)
  BY DEF Served, b
<1> HIDE DEF h, pieces
<1>10. n = K[order][1] /\ <<n, order>> \in pieces /\ n \in Starts /\ n \notin D
       /\ (n \in OnLists(list) => n = b)
  <2>1. n = K[order][1] /\ <<n, order>> \in pieces
    BY <1>8
  <2> HIDE DEF n
  <2> QED BY <1>6, <2>1 DEF D
<1>11. Unlinked(h, K, D, order, n)
  <2>1. 1 \in {1, 2} /\ 1 <= Len(K[order])
    BY <1>8
  <2>2. n = K[order][1]
    BY <1>10
  <2> HIDE DEF n
  <2> QED BY <1>2, <1>8, <2>1, <2>2, DelKeeps
<1> DEFINE N == Drop(K, order, n)
<1>12. /\ s \in Heaps /\ s.kernel = "runs" /\ Memory(s, N, D)
       /\ FreeBlocks(N) = FreeBlocks(K) \ {<<n, order>>}
       /\ OnLists(N) = OnLists(K) \ {n}
  BY <1>8, <1>11 DEF Unlinked
<1>13. PagesOf(n, order) \subseteq HeapPages
  <2>1. PagesOf(n, order) \subseteq PagesOf(b, found)
    <3> HIDE DEF n
    <3>1. <<n, order>> \in CutInto(b, found, order)
      BY <1>10 DEF pieces
    <3> QED BY <1>2, <1>4, <1>10, <3>1, PiecePages
  <2>2. PagesOf(b, found) \subseteq HeapPages
    BY <1>2, <1>4, PagesInHeap
  <2> QED BY <2>1, <2>2
<1>14. Handed(s, n, order, size)
  BY <1>8, <1>9, <1>12, <1>13, Branches
<1>15. <<n, order>> \notin Free \ {<<b, found>>}
  <2>1. SUFFICES ASSUME <<n, order>> \in Free PROVE <<n, order>> = <<b, found>>
    OBVIOUS
  <2>2. n \in ToSet(list[order])
    BY <1>3, <2>1, Listing
  <2>3. n = b
    BY <1>10, <2>2 DEF OnLists
  <2>4. order = found
    BY <1>3, <1>4, <2>2, <2>3 DEF Once
  <2> QED BY <2>3, <2>4
<1> HIDE DEF n, s, N
<1>16. FreeBlocks(N) = (Free \ {<<b, found>>}) \cup (pieces \ {<<n, order>>})
  BY <1>3, <1>8, <1>12, <1>15
<1>17. Cutting(order, found, b, n, size)
  <2>1. n \notin OnLists(N)
    BY <1>12
  <2> QED BY <1>10, <1>12, <1>13, <1>14, <1>16, <2>1 DEF Cutting, D, pieces
<1> QED BY <1>4, <1>10, <1>17

(* Handing out a block that is on no list and not live keeps the lists and *)
(* the order bytes: the frames it gets are nobody else's, and the order of *)
(* the block is all that is written.                                       *)
LEMMA HandedClean ==
    ASSUME TInv, TInv', Intact, Untouched', NEW s \in Heaps, NEW K, Memory(s, K, DOMAIN live),
           NEW n \in Starts, n \notin OnLists(K), n \notin DOMAIN live,
           NEW order \in Orders, NEW size \in Nat,
           PagesOf(n, order) \subseteq HeapPages, Handed(s, n, order, size),
           \A x \in OnLists(K) \cup DOMAIN live : Page(x) \notin PagesOf(n, order)
    PROVE  Intact' /\ Memory(Heap, K, DOMAIN live)'
<1> DEFINE pages == PagesOf(n, order)
           D == DOMAIN live
<1>1. /\ memory_map \subseteq memory_map'
      /\ \A p \in pages : pte'[p] \in memory_map' /\ pte'[p] \notin memory_map
      /\ \A p, q \in pages : p # q => pte'[p] # pte'[q]
      /\ \A p \in HeapPages \ pages : pte'[p] = pte[p]
  <2>1. Fresh(n, order)
    BY HandedFresh
  <2>2. Window \cap memory_map' = {}
    BY DEF Untouched, Window, heap_order_to_size
  <2>3. \A p \in pages : pte'[p] # NULL
    BY <2>1, <2>2 DEF Fresh
  <2> QED BY <2>1, <2>3 DEF Fresh
<1>2. /\ DOMAIN live' = D \cup {n} /\ live'[n].order = order
      /\ \A x \in D : live'[x] = live[x]
  <2>1. /\ DOMAIN live' = DOMAIN live \cup {n} /\ live'[n] = [order |-> order, size |-> size]
        /\ \A x \in DOMAIN live : x # n => live'[x] = live[x]
    BY HandedPages
  <2> QED BY <2>1
<1>3. /\ heap_free_list' = s.head
      /\ word' = [s.word EXCEPT ![pte'[Page(n)]].order = order]
  BY DEF Handed
<1>4. Page(n) \in pages /\ pages \subseteq HeapPages
  BY BlockPages
<1> HIDE DEF pages
<1>5. \A p \in pages : \A q \in HeapPages \ pages : pte'[p] # pte[q]
  <2>1. SUFFICES ASSUME NEW p \in pages, NEW q \in HeapPages \ pages, pte'[p] = pte[q] PROVE FALSE
    OBVIOUS
  <2>2. pte[q] \in memory_map \cup Window
    BY DEF TInv, Backed
  <2>3. Window \cap memory_map' = {}
    BY DEF Untouched, Window, heap_order_to_size
  <2> QED BY <1>1, <2>1, <2>2, <2>3
<1>6. ASSUME NEW p \in HeapPages, NEW q \in HeapPages, pte'[p] = pte'[q] PROVE p = q
  <2>1. CASE p \in pages /\ q \in pages
    BY <1>1, <1>6, <2>1
  <2>2. CASE p \in pages /\ q \notin pages
    BY <1>1, <1>5, <1>6, <2>2
  <2>3. CASE p \notin pages /\ q \in pages
    BY <1>1, <1>5, <1>6, <2>3
  <2>4. CASE p \notin pages /\ q \notin pages
    BY <1>1, <1>6, <2>4 DEF Intact
  <2> QED BY <2>1, <2>2, <2>3, <2>4
<1>7. Intact'
  <2>1. HeapPages' = HeapPages
    BY DEF HeapPages, PagesOf, Page, heap_order_to_size
  <2> QED BY <1>6, <2>1 DEF Intact
<1>8. ASSUME NEW x \in OnLists(K) \cup D
      PROVE  pte'[Page(x)] = pte[Page(x)] /\ word'[pte'[Page(x)]] = s.word[pte[Page(x)]]
  <2>1. x \in Starts
    BY DEF Memory, TInv, Headers
  <2>2. Page(x) \in HeapPages /\ Page(x) \notin pages
    BY <2>1, StartPages DEF pages
  <2>3. pte'[Page(x)] = pte[Page(x)] /\ pte'[Page(n)] # pte[Page(x)]
    BY <1>1, <1>4, <1>5, <2>2
  <2> QED BY <1>3, <2>3
<1>9. word'[pte'[Page(n)]].order = order
  <2>1. s.word \in [0 .. Top - 1 -> Words]
    BY DEF Heaps
  <2>2. pte'[Page(n)] \in 0 .. Top - 1
    <3>1. pte'[Page(n)] \in memory_map'
      BY <1>1, <1>4
    <3>2. memory_map' \subseteq 0 .. Top - 1
      BY DEF TInv, Accounts, Top
    <3> QED BY <3>1, <3>2
  <2> DEFINE f == pte'[Page(n)]
  <2> HIDE DEF f
  <2>3. word' = [s.word EXCEPT ![f].order = order] /\ f \in 0 .. Top - 1
    BY <1>3, <2>2 DEF f
  <2>4. s.word[f] \in Words /\ word'[f] = [s.word[f] EXCEPT !.order = order]
    BY <2>1, <2>3
  <2>5. s.word[f] = [rest |-> s.word[f].rest, order |-> s.word[f].order]
    BY <2>4 DEF Words
  <2>6. word'[f].order = order
    BY <2>4, <2>5
  <2> QED BY <2>6 DEF f
<1>10. Linked(Heap, K)'
  <2>1. ASSUME NEW o \in Orders, NEW i \in 1 .. Len(K[o])
        PROVE  Link(Heap, K[o][i])' = Link(s, K[o][i])
    <3>1. K[o][i] \in OnLists(K)
      <4>1. K \in Lists /\ OnLists(K) \subseteq Starts
        BY DEF Memory
      <4>2. K[o][i] \in ToSet(K[o])
        BY <4>1, ListFacts
      <4> QED BY <4>2 DEF OnLists
    <3>2. word'[pte'[Page(K[o][i])]] = s.word[pte[Page(K[o][i])]]
      BY <1>8, <3>1
    <3> QED BY <3>2 DEF Link, Heap, Page
  <2>2. \A o \in Orders : Heap'.head[o] = s.head[o]
    BY <1>3 DEF Heap
  <2>3. /\ \A o \in Orders : s.head[o] = After(K[o], 0)
        /\ \A o \in Orders : \A i \in 1 .. Len(K[o]) : Link(s, K[o][i]) = After(K[o], i)
    BY DEF Memory, Linked
  <2>4. \A o \in Orders : Heap'.head[o] = After(K[o], 0)
    BY <2>2, <2>3
  <2>5. \A o \in Orders : \A i \in 1 .. Len(K[o]) : Link(Heap, K[o][i])' = After(K[o], i)
    BY <2>1, <2>3
  <2> QED BY <2>4, <2>5 DEF Linked, Orders
<1>11. Stamped(Heap, DOMAIN live)'
  <2>1. ASSUME NEW x \in D PROVE word'[pte'[Page(x)]].order = live'[x].order
    <3>1. s.word[pte[Page(x)]].order = live[x].order
      BY DEF Memory, Stamped, FrameOf
    <3> QED BY <1>2, <1>8, <3>1
  <2>2. \A x \in D \cup {n} : word'[pte'[Page(x)]].order = live'[x].order
    BY <1>2, <1>9, <2>1
  <2> QED BY <1>2, <2>2 DEF Stamped, FrameOf, Heap, Page
<1>12. /\ K \in Lists /\ Once(K) /\ OnLists(K) \subseteq Starts
       /\ DOMAIN live' \subseteq Starts \ OnLists(K)
  BY <1>2 DEF Memory
<1> QED BY <1>7, <1>10, <1>11, <1>12
        DEF Memory, Lists, Chains, Once, OnLists, Starts, HEAP_PAGES, Orders

(* The list that serves a request is the one of the smallest order.        *)
LEMMA SmallestServes ==
    ASSUME TInv, CInv, NEW size \in Nat, NEW order \in Orders, NEW found \in Orders,
           Served(order, found, size), NEW c \in Free, c[2] >= order
    PROVE  found <= c[2]
<1>1. PICK list : Memory(Heap, list, DOMAIN live)
  BY DEF CInv
<1>2. list \in Lists /\ OnLists(list) \subseteq Starts /\ Free = FreeBlocks(list)
  <2>1. Free = FreeBlocks(list)
    BY <1>1, ReadsOff DEF Reads
  <2> QED BY <1>1, <2>1 DEF Memory
<1>3. PICK o \in Orders : \E a \in ToSet(list[o]) : c = <<a, o>>
  BY <1>2, OnlyPairs
<1>4. PICK a \in ToSet(list[o]) : c = <<a, o>>
  BY <1>3
<1>5. c[2] = o /\ o \in Nat /\ order \in Nat /\ found \in Nat
  BY <1>4, HeapAssumption DEF Orders
<1>6. heap_free_list[o] # NULL
  <2>1. /\ Len(list[o]) \in Nat
        /\ \A i \in 1 .. Len(list[o]) : list[o][i] \in Starts
        /\ \E i \in 1 .. Len(list[o]) : list[o][i] = a
    BY <1>2, ListFacts
  <2>2. heap_free_list[o] = After(list[o], 0)
    BY <1>1 DEF Memory, Linked, Heap
  <2>3. 1 \in 1 .. Len(list[o]) /\ 0 < Len(list[o])
    BY <2>1
  <2>4. heap_free_list[o] = list[o][1] /\ list[o][1] \in Starts
    BY <2>1, <2>2, <2>3 DEF After
  <2> QED BY <2>4, StartPages
<1>7. ~ (order <= o /\ o < found)
  BY <1>6 DEF Served
<1> QED BY <1>5, <1>7

(* The pages handed out are not those on which another block starts.       *)
LEMMA NotOnItsPages ==
    ASSUME TInv, Buddies!IInv, NEW order \in Orders, NEW found \in Orders, order <= found,
           NEW b \in Starts, <<b, found>> \in Free, NEW n \in Starts,
           <<n, order>> \in CutInto(b, found, order),
           NEW K, K \in Lists, OnLists(K) \subseteq Starts, n \notin OnLists(K), n \notin DOMAIN live,
           FreeBlocks(K) = (Free \ {<<b, found>>}) \cup (CutInto(b, found, order) \ {<<n, order>>}),
           NEW x \in OnLists(K) \cup DOMAIN live
    PROVE  Page(x) \notin PagesOf(n, order)
<1>1. SUFFICES ASSUME Page(x) \in PagesOf(n, order) PROVE FALSE
  OBVIOUS
<1>2. order \in 0 .. found
  BY HeapAssumption DEF Orders
<1>3. x \in Starts /\ Page(x) \in PagesOf(b, found)
  <2>1. PagesOf(n, order) \subseteq PagesOf(b, found)
    BY <1>2, PiecePages
  <2> QED BY <1>1, <2>1 DEF TInv, Headers
<1>4. ASSUME NEW o \in Orders, <<x, o>> \in Free \cup LiveBlocks(live)
      PROVE  <<x, o>> = <<b, found>>
  <2>1. Page(x) \in PagesOf(x, o)
    BY <1>3, BlockPages
  <2> QED BY <1>3, <1>4, <2>1, CommonPage
<1>5. CASE x \in DOMAIN live
  <2>1. live[x].order \in Orders /\ <<x, live[x].order>> \in LiveBlocks(live)
    BY <1>5 DEF TInv, Headers, LiveBlocks
  <2>2. <<x, live[x].order>> = <<b, found>>
    BY <1>4, <2>1
  <2>3. Free \cap LiveBlocks(live) = {}
    BY DEF Buddies!IInv, Buddies!Disjoint
  <2> QED BY <2>1, <2>2, <2>3
<1>6. CASE x \in OnLists(K)
  <2>1. PICK o \in Orders : x \in ToSet(K[o])
    BY <1>6 DEF OnLists
  <2>2. <<x, o>> \in FreeBlocks(K)
    BY <2>1, Listing
  <2>3. CASE <<x, o>> \in Free \ {<<b, found>>}
    BY <1>4, <2>3
  <2>4. CASE <<x, o>> \in CutInto(b, found, order) \ {<<n, order>>}
    <3>1. Page(x) \in PagesOf(x, o)
      BY <1>3, BlockPages
    <3>2. <<x, o>> \in CutInto(b, found, order)
      BY <2>4
    <3>3. <<x, o>> = <<n, order>>
      <4> DEFINE p == Page(x)
      <4>1. /\ p \in PagesOf(x, o) /\ p \in PagesOf(n, order) /\ x \in Starts
            /\ order \in 0 .. found /\ <<x, o>> \in CutInto(b, found, order)
        BY <1>1, <1>2, <1>3, <3>1, <3>2
      <4> HIDE DEF p
      <4>2. \A a, c \in Starts : \A y, z \in Orders :
               Apart(b, found, order, a, y, c, z)
        BY <4>1, PiecesApart
      <4>3. Apart(b, found, order, x, o, n, order)
        BY <4>1, <4>2
      <4> QED BY <4>1, <4>3 DEF Apart
    <3> QED BY <2>4, <3>3
  <2> QED BY <2>2, <2>3, <2>4
<1> QED BY <1>5, <1>6

(* On lists, heap_alloc is Alloc of BuddyHeap, and leaves lists.           *)
LEMMA AllocClean ==
    ASSUME TInv, CInv, NEW size \in Nat, heap_alloc(size), Untouched'
    PROVE  CInv' /\ [Buddies!Next]_(Buddies!hvars)
<1>1. TInv' /\ kernel = "runs"
  BY AllocTyped, Choice
<1>2. CASE Stop("past_list")
  <2>1. "past_list" \in Kernels
    BY DEF Kernels
  <2>2. CInv' /\ UNCHANGED Buddies!hvars
    BY <1>2, <2>1, StopTyped
  <2> QED BY <2>2
<1>3. ASSUME NEW order \in Orders, NEW found \in Orders, Served(order, found, size)
      PROVE  CInv' /\ [Buddies!Next]_(Buddies!hvars)
  <2>1. PICK b \in Starts, n \in Starts : <<b, found>> \in Free /\ Cutting(order, found, b, n, size)
    BY <1>1, <1>3, ServedCuts
  <2>2. PICK K, s :
           /\ s \in Heaps /\ Memory(s, K, DOMAIN live)
           /\ n \in Starts /\ n \notin OnLists(K) /\ n \notin DOMAIN live
           /\ <<n, order>> \in CutInto(b, found, order)
           /\ FreeBlocks(K) = (Free \ {<<b, found>>}) \cup (CutInto(b, found, order) \ {<<n, order>>})
           /\ PagesOf(n, order) \subseteq HeapPages
           /\ Handed(s, n, order, size)
    BY <2>1 DEF Cutting
  <2>3. order <= found /\ Buddies!IInv /\ Intact
    BY <1>3 DEF Served, CInv
  <2>4. K \in Lists /\ OnLists(K) \subseteq Starts
    BY <2>2 DEF Memory
  <2>5. \A x \in OnLists(K) \cup DOMAIN live : Page(x) \notin PagesOf(n, order)
    BY <2>1, <2>2, <2>3, <2>4, NotOnItsPages
  <2>6. Intact' /\ Memory(Heap, K, DOMAIN live)'
    BY <1>1, <2>2, <2>3, <2>5, HandedClean
  <2>7. Free' = FreeBlocks(K)
    <3>1. Reads'
      BY ReadsOff, PTL
    <3> QED BY <1>1, <2>6, <3>1 DEF Reads, FreeBlocks, Orders
  <2>8. LiveBlocks(live)' = LiveBlocks(live) \cup {<<n, order>>}
    <3>1. /\ DOMAIN live' = DOMAIN live \cup {n} /\ live'[n] = [order |-> order, size |-> size]
          /\ \A x \in DOMAIN live : x # n => live'[x] = live[x]
      BY <2>2, HandedPages
    <3>2. \A x \in DOMAIN live : <<x, live'[x].order>> = <<x, live[x].order>>
      BY <2>2, <3>1
    <3>3. <<n, live'[n].order>> = <<n, order>>
      BY <3>1
    <3> QED BY <3>1, <3>2, <3>3 DEF LiveBlocks
  <2>9. Buddies!Alloc(order)
    <3>1. CutInto(b, found, order) = Buddies!Pieces(<<b, found>>, order)
      <4>1. order \in 0 .. found
        BY <2>3, HeapAssumption DEF Orders
      <4> QED BY <4>1, PiecesAre DEF CutInto
    <3>2. <<b, found>>[2] >= order /\ \A c \in Free : c[2] >= order => <<b, found>>[2] <= c[2]
      <4>1. \A c \in Free : c[2] >= order => found <= c[2]
        BY <1>3, SmallestServes
      <4>2. found >= order
        BY <2>3, HeapAssumption DEF Orders
      <4> QED BY <4>1, <4>2
    <3>3. \E new \in Buddies!Pieces(<<b, found>>, order) :
             /\ new[2] = order
             /\ Free' = (Free \ {<<b, found>>}) \cup (Buddies!Pieces(<<b, found>>, order) \ {new})
             /\ LiveBlocks(live)' = LiveBlocks(live) \cup {new}
      <4>1. <<n, order>>[2] = order
        OBVIOUS
      <4> QED BY <2>2, <2>7, <2>8, <3>1, <4>1
    <3>4. \E x \in Free :
             /\ x[2] >= order
             /\ \A c \in Free : c[2] >= order => x[2] <= c[2]
             /\ \E new \in Buddies!Pieces(x, order) :
                   /\ new[2] = order
                   /\ Free' = (Free \ {x}) \cup (Buddies!Pieces(x, order) \ {new})
                   /\ LiveBlocks(live)' = LiveBlocks(live) \cup {new}
      BY <2>1, <3>2, <3>3
    <3> QED BY <3>4 DEF Buddies!Alloc, LiveBlocks
  <2>10. Buddies!Next
    BY <2>9 DEF Buddies!Next, Buddies!Orders, Orders
  <2>11. Buddies!IInv'
    BY <2>3, <2>10, SizesDouble, HalvesThere, Buddies!NextPreserves
  <2>12. kernel' = "runs"
    BY <1>1, <2>2 DEF Handed
  <2> QED BY <2>6, <2>10, <2>11, <2>12 DEF CInv
<1> QED BY <1>2, <1>3, Choice

-----------------------------------------------------------------------------
(* heap_free, whatever order it finds: types, frames and sizes hold.       *)
FreedAs(b, order) ==
    LET h == heap_merge(heap_add_block(Heap, order, b), order, b)
    IN  /\ heap_free_list' = h.head /\ word' = h.word /\ kernel' = h.kernel
        /\ live' = [x \in DOMAIN live \ {b} |-> live[x]]
        /\ UNCHANGED <<pte, memory_map, used_blocks>>

LEMMA Freed ==
    ASSUME TInv, NEW b \in DOMAIN live, heap_free(b)
    PROVE  /\ kernel = "runs"
           /\ \E order \in 0 .. HEAP_MAX_ORDER + 1 :
                 /\ word[FrameOf(b)].order \in {UNKNOWN, order}
                 /\ FreedAs(b, order)
<1> DEFINE w == word[FrameOf(b)].order
<1>1. w \in Orders \cup {UNKNOWN}
  <2>1. FrameOf(b) \in 0 .. Top - 1
    BY FramesInRange DEF TInv, Headers, InRange
  <2>2. word \in [0 .. Top - 1 -> Words]
    BY DEF TInv, Heap, Heaps
  <2> QED BY <2>1, <2>2 DEF Words
<1>2. \E order \in IF w = UNKNOWN THEN 0 .. HEAP_MAX_ORDER + 1 ELSE {w} :
         kernel = "runs" /\ FreedAs(b, order)
  BY DEF heap_free, FreedAs, FrameOf
<1>3. Orders \subseteq 0 .. HEAP_MAX_ORDER + 1
  BY HeapAssumption DEF Orders
<1> HIDE DEF w
<1>4. CASE w = UNKNOWN
  BY <1>2, <1>4 DEF w
<1>5. CASE w # UNKNOWN
  BY <1>1, <1>2, <1>3, <1>5 DEF w
<1> QED BY <1>4, <1>5

LEMMA FreeTyped ==
    ASSUME TInv, NEW b \in DOMAIN live, NEW order \in 0 .. HEAP_MAX_ORDER + 1, FreedAs(b, order)
    PROVE  TInv'
<1> DEFINE g == heap_add_block(Heap, order, b)
           h == heap_merge(g, order, b)
<1>1. h \in Heaps
  <2>1. InRange /\ Heap \in Heaps
    BY FramesInRange DEF TInv
  <2>2. g \in Heaps
    <3>1. CASE order > HEAP_MAX_ORDER
      BY <2>1, <3>1 DEF heap_add_block
    <3>2. CASE ~ (order > HEAP_MAX_ORDER)
      <4>1. order \in Orders
        BY <3>2, HeapAssumption DEF Orders
      <4> QED BY <2>1, <4>1, AddTyped
    <3> QED BY <3>1, <3>2
  <2> HIDE DEF g
  <2> QED BY <2>1, <2>2, JoinTyped DEF heap_merge
<1>2. /\ heap_free_list' = h.head /\ word' = h.word /\ kernel' = h.kernel
      /\ live' = [x \in DOMAIN live \ {b} |-> live[x]]
      /\ pte' = pte /\ memory_map' = memory_map /\ used_blocks' = used_blocks
  BY DEF FreedAs
<1> HIDE DEF h
<1>3. DOMAIN live' = DOMAIN live \ {b} /\ \A x \in DOMAIN live \ {b} : live'[x] = live[x]
  BY <1>2
<1>4. HeapPages' = HeapPages /\ Window' = Window
  BY DEF HeapPages, PagesOf, Page, Window, heap_order_to_size
<1>5. LivePages' \subseteq LivePages
  <2>1. LivePages' = UNION {PagesOf(x, live'[x].order) : x \in DOMAIN live'}
    BY DEF LivePages, PagesOf, Page, heap_order_to_size
  <2> QED BY <1>3, <2>1 DEF LivePages
<1>6. (Heap \in Heaps)'
  <2>1. Heap' = [head |-> h.head, word |-> h.word, kernel |-> h.kernel]
    BY <1>2 DEF Heap
  <2>2. Heap' \in Heaps
    BY <1>1, <2>1 DEF Heaps
  <2> QED BY <2>2 DEF Heaps, Links, Words, Starts, HEAP_PAGES, Orders, Kernels, Top
<1>7. Headers'
  <2>1. DOMAIN live' \subseteq Starts
    BY <1>3 DEF TInv, Headers
  <2>2. \A x \in DOMAIN live' : live'[x] \in [order : Orders, size : Nat]
    BY <1>3 DEF TInv, Headers
  <2>3. live' = [x \in DOMAIN live' |-> live'[x]]
    BY <1>2, <1>3
  <2>4. live' \in [DOMAIN live' -> [order : Orders, size : Nat]]
    BY <2>2, <2>3
  <2>5. \A x \in DOMAIN live' : PagesOf(x, live'[x].order) \subseteq HeapPages
    BY <1>3 DEF TInv, Headers
  <2> QED BY <1>4, <2>1, <2>4, <2>5
          DEF Headers, PagesOf, Page, heap_order_to_size, Starts, HEAP_PAGES, Orders
<1>8. Accounts(memory_map, used_blocks)'
  BY <1>2 DEF TInv, Accounts
<1>9. Backed' /\ LiveBacked' /\ LivePagesDistinct'
  BY <1>2, <1>4, <1>5 DEF TInv, Backed, LiveBacked, LivePagesDistinct
<1>10. RequestFits'
  <2>1. \A x \in DOMAIN live' : live'[x].size + HEADER <= heap_order_to_size(live'[x].order)
    BY <1>3 DEF TInv, RequestFits
  <2> QED BY <2>1 DEF RequestFits, heap_order_to_size
<1> QED BY <1>6, <1>7, <1>8, <1>9, <1>10 DEF TInv

(* On lists, the order found is the right one, no buddy is found, and      *)
(* heap_free is FreeBlock of BuddyHeap.                                    *)
LEMMA FreeClean ==
    ASSUME TInv, CInv, NEW b \in DOMAIN live, heap_free(b)
    PROVE  CInv' /\ [Buddies!Next]_(Buddies!hvars)
<1> DEFINE order == live[b].order
           D == DOMAIN live \ {b}
<1>1. PICK list : Memory(Heap, list, DOMAIN live)
  BY DEF CInv
<1>2. /\ list \in Lists /\ Once(list) /\ OnLists(list) \subseteq Starts
      /\ DOMAIN live \subseteq Starts \ OnLists(list)
      /\ Linked(Heap, list) /\ Stamped(Heap, DOMAIN live)
  BY <1>1 DEF Memory
<1>3. /\ order \in Orders /\ order \in Nat /\ b \in Starts /\ b \notin OnLists(list)
      /\ InRange /\ Alone /\ Heap \in Heaps
  <2>1. order \in Orders
    BY DEF TInv, Headers
  <2>2. order \in Nat
    BY <2>1, HeapAssumption DEF Orders
  <2>3. InRange /\ Alone
    BY FramesInRange, FramesAlone DEF CInv
  <2> QED BY <1>2, <2>1, <2>2, <2>3 DEF TInv
<1> HIDE DEF order
<1>4. kernel = "runs" /\ FreedAs(b, order) /\ TInv'
  <2>1. word[FrameOf(b)].order = order
    BY <1>2 DEF Stamped, Heap, order
  <2>2. order # UNKNOWN
    BY <1>3 DEF UNKNOWN
  <2>3. kernel = "runs" /\ \E p \in 0 .. HEAP_MAX_ORDER + 1 :
           word[FrameOf(b)].order \in {UNKNOWN, p} /\ FreedAs(b, p)
    BY Freed
  <2>4. PICK p \in 0 .. HEAP_MAX_ORDER + 1 : p = order /\ FreedAs(b, p)
    BY <2>1, <2>2, <2>3
  <2>5. TInv'
    BY <2>4, FreeTyped
  <2> QED BY <2>3, <2>4, <2>5
<1> HIDE DEF D
<1>5. Memory(Heap, list, D)
  <2>1. D \subseteq DOMAIN live
    BY DEF D
  <2> QED BY <1>2, <2>1 DEF Memory, Stamped
<1>6. Added(Heap, list, D, order, b)
  <2>1. b \notin D
    BY DEF D
  <2> QED BY <1>3, <1>5, <2>1, AddKeeps
<1>7. PICK g, K :
         /\ g = heap_add_block(Heap, order, b)
         /\ g \in Heaps /\ g.kernel = "runs" /\ Memory(g, K, D)
         /\ FreeBlocks(K) = FreeBlocks(list) \cup {<<b, order>>}
  <2>1. Heap.kernel = "runs"
    BY <1>4 DEF Heap
  <2> QED BY <1>6, <2>1 DEF Added
<1>8. heap_merge(g, order, b) = g
  <2>1. K \in Lists /\ OnLists(K) \subseteq Starts /\ Linked(g, K)
    BY <1>7 DEF Memory
  <2>2. ASSUME NEW o \in Orders
        PROVE  Search(g, o, Buddy(b + HEADER, heap_order_to_size(o))) = "absent"
    <3> DEFINE c == Buddy(b + HEADER, heap_order_to_size(o))
    <3>1. \A a \in ToSet(K[o]) : a # c
      <4>1. SUFFICES ASSUME NEW a \in ToSet(K[o]) PROVE a # c
        OBVIOUS
      <4>2. a \in Starts
        BY <2>1 DEF OnLists
      <4>3. Aligned(a) /\ Aligned(b) /\ o \in Nat
        BY <1>3, <4>2, StartPages, HeapAssumption DEF Orders
      <4> QED BY <4>3, BuddyIsNoBlock
    <3> HIDE DEF c
    <3>2. c \notin ToSet(K[o])
      BY <3>1
    <3>3. Search(g, o, c) = "absent"
      BY <1>3, <1>7, <2>1, <3>2, SearchMeets
    <3> QED BY <3>3 DEF c
  <2>3. order \in 0 .. HEAP_MAX_ORDER + 1
    BY <1>3, HeapAssumption DEF Orders
  <2>4. Join(g, order, b + HEADER) = g
    BY <1>3, <1>7, <2>2, <2>3, JoinFindsNothing
  <2> QED BY <2>4 DEF heap_merge
<1>9. /\ heap_free_list' = g.head /\ word' = g.word /\ kernel' = "runs"
      /\ live' = [x \in DOMAIN live \ {b} |-> live[x]] /\ pte' = pte
  BY <1>4, <1>7, <1>8 DEF FreedAs
<1>10. DOMAIN live' = D /\ \A x \in D : live'[x] = live[x]
  BY <1>9 DEF D
<1>11. Memory(Heap, K, DOMAIN live)'
  <2>1. /\ K \in Lists /\ Once(K) /\ OnLists(K) \subseteq Starts /\ D \subseteq Starts \ OnLists(K)
        /\ \A o \in Orders : g.head[o] = After(K[o], 0)
        /\ \A o \in Orders : \A i \in 1 .. Len(K[o]) : Link(g, K[o][i]) = After(K[o], i)
        /\ \A x \in D : g.word[pte[Page(x)]].order = live[x].order
    BY <1>7 DEF Memory, Linked, Stamped, FrameOf
  <2>2. Linked(Heap, K)'
    <3>1. \A o \in Orders : Heap'.head[o] = After(K[o], 0)
      BY <1>9, <2>1 DEF Heap
    <3>2. ASSUME NEW o \in Orders, NEW i \in 1 .. Len(K[o])
          PROVE  Link(Heap, K[o][i])' = After(K[o], i)
      <4>1. Link(Heap, K[o][i])' = Link(g, K[o][i])
        BY <1>9 DEF Link, Heap, Page
      <4> QED BY <2>1, <4>1
    <3> QED BY <3>1, <3>2 DEF Linked, Orders
  <2>3. Stamped(Heap, DOMAIN live)'
    <3>1. \A x \in D : word'[pte'[Page(x)]].order = live'[x].order
      BY <1>9, <1>10, <2>1
    <3> QED BY <1>10, <3>1 DEF Stamped, FrameOf, Heap, Page
  <2> QED BY <1>10, <2>1, <2>2, <2>3
          DEF Memory, Lists, Chains, Once, OnLists, Starts, HEAP_PAGES, Orders
<1>12. Free = FreeBlocks(list) /\ Free' = FreeBlocks(K)
  <2>1. Reads /\ Reads'
    BY ReadsOff, PTL
  <2> QED BY <1>1, <1>4, <1>11, <2>1 DEF Reads, FreeBlocks, Orders
<1>13. <<b, order>> \in LiveBlocks(live) /\ LiveBlocks(live)' = LiveBlocks(live) \ {<<b, order>>}
  BY <1>10 DEF LiveBlocks, order, D
<1>14. Buddies!FreeBlock(<<b, order>>)
  BY <1>7, <1>12, <1>13 DEF Buddies!FreeBlock, LiveBlocks
<1>15. Buddies!Next
  BY <1>13, <1>14 DEF Buddies!Next
<1>16. Buddies!IInv'
  BY <1>15, SizesDouble, HalvesThere, Buddies!NextPreserves DEF CInv
<1>17. Intact'
  BY <1>9 DEF CInv, Intact, HeapPages, PagesOf, Page, heap_order_to_size
<1> QED BY <1>9, <1>11, <1>15, <1>16, <1>17 DEF CInv

-----------------------------------------------------------------------------
(* A caller writes into its block.                                         *)
LEMMA UseTyped ==
    ASSUME TInv, NEW b \in DOMAIN live, NEW p \in DOMAIN pte, Use(b, p)
    PROVE  TInv'
<1> DEFINE f == pte[p]
           w == [word EXCEPT ![f] = IF p = Page(b) THEN [word[f] EXCEPT !.rest = UNKNOWN] ELSE Junk]
<1>1. /\ heap_free_list' = heap_free_list /\ word' = w /\ pte' = pte /\ live' = live
      /\ memory_map' = memory_map /\ used_blocks' = used_blocks /\ kernel' = kernel
  BY DEF Use
<1>2. word \in [0 .. Top - 1 -> Words] /\ heap_free_list \in [Orders -> Links] /\ kernel \in Kernels
  BY DEF TInv, Heaps, Heap
<1>3. w \in [0 .. Top - 1 -> Words]
  <2> HIDE DEF f
  <2>1. UNKNOWN \in Links /\ Junk \in Words
    BY DEF Links, Junk, Words
  <2>2. ASSUME NEW x \in Words PROVE [x EXCEPT !.rest = UNKNOWN] \in Words
    <3>1. x.order \in Orders \cup {UNKNOWN} /\ x = [rest |-> x.rest, order |-> x.order]
      BY DEF Words
    <3>2. [x EXCEPT !.rest = UNKNOWN] = [rest |-> UNKNOWN, order |-> x.order]
      BY <3>1
    <3> QED BY <2>1, <3>1, <3>2 DEF Words
  <2> QED BY <1>2, <2>1, <2>2
<1> HIDE DEF w
<1>4. (Heap \in Heaps)'
  <2>1. Heap' = [head |-> heap_free_list, word |-> w, kernel |-> kernel]
    BY <1>1 DEF Heap
  <2>2. Heap' \in Heaps
    BY <1>2, <1>3, <2>1 DEF Heaps
  <2> QED BY <2>2 DEF Heaps, Links, Words, Starts, HEAP_PAGES, Orders, Kernels, Top
<1>5. HeapPages' = HeapPages /\ Window' = Window /\ LivePages' = LivePages
  BY <1>1 DEF HeapPages, PagesOf, Page, Window, LivePages, heap_order_to_size
<1>6. Headers'
  BY <1>1, <1>5 DEF TInv, Headers, PagesOf, Page, heap_order_to_size
<1>7. Accounts(memory_map, used_blocks)'
  BY <1>1 DEF TInv, Accounts
<1>8. Backed' /\ LiveBacked' /\ LivePagesDistinct'
  BY <1>1, <1>5 DEF TInv, Backed, LiveBacked, LivePagesDistinct
<1>9. RequestFits'
  BY <1>1 DEF TInv, RequestFits, heap_order_to_size
<1> QED BY <1>4, <1>6, <1>7, <1>8, <1>9 DEF TInv

(* What it asked for is in its block, header included.                     *)
LEMMA UseInside ==
    ASSUME TInv, NEW b \in DOMAIN live, NEW p \in DOMAIN pte, Use(b, p)
    PROVE  p \in PagesOf(b, live[b].order)
<1> DEFINE B == BLOCK_SIZE
           e == b + HEADER + live[b].size - 1
           s == heap_order_to_size(live[b].order)
           q == e \div B
<1>1. /\ b \in Starts /\ b \in Nat /\ b = Page(b) * B /\ live[b].order \in Orders
      /\ live[b].size \in Nat /\ HEADER \in Nat \ {0} /\ B \in Nat \ {0} /\ s \in Nat
  <2>1. b \in Starts /\ live[b].order \in Orders /\ live[b].size \in Nat
    BY DEF TInv, Headers
  <2>2. s \in Nat
    BY <2>1, Doubling, HeapAssumption DEF Orders
  <2> QED BY <2>1, <2>2, StartPages, HeapAssumption, SizesAssumption
<1>2. live[b].size + HEADER <= s
  BY DEF TInv, RequestFits
<1>3. p \in HeapPages /\ p \in Page(b) .. q
  BY DEF TInv, Backed, Use, Page
<1>4. p \in Nat /\ Page(b) \in Nat
  BY <1>1, <1>3, StartPages
<1>5. e \in Nat /\ e < b + s
  <2> HIDE DEF s
  <2> QED BY <1>1, <1>2
<1> HIDE DEF e, s
<1>6. q \in Nat /\ q * B <= e
  BY <1>1, <1>5, RoundedDown
<1> HIDE DEF q, B
<1>7. Page(b) <= p /\ p <= q
  BY <1>3, <1>4, <1>6
<1>8. Page(b) * B <= p * B /\ p * B <= q * B
  <2>1. \A x, y \in Nat : x <= y => x * B <= y * B
    BY <1>1
  <2> QED BY <1>4, <1>6, <1>7, <2>1
<1>9. b <= p * B /\ p * B < b + s
  <2>1. p * B \in Nat /\ q * B \in Nat
    BY <1>1, <1>4, <1>6
  <2> QED BY <1>1, <1>5, <1>6, <1>8, <2>1
<1> QED BY <1>1, <1>4, <1>9, BlockPages DEF s, B

(* On lists, the frame it writes to holds no link, and no order byte but   *)
(* its own, which is in front of what it was given.                        *)
LEMMA UseClean ==
    ASSUME TInv, CInv, NEW b \in DOMAIN live, NEW p \in DOMAIN pte, Use(b, p)
    PROVE  CInv' /\ UNCHANGED Buddies!hvars
<1> DEFINE f == pte[p]
           v == IF p = Page(b) THEN [word[f] EXCEPT !.rest = UNKNOWN] ELSE Junk
<1>1. /\ heap_free_list' = heap_free_list /\ word' = [word EXCEPT ![f] = v]
      /\ pte' = pte /\ live' = live /\ kernel' = kernel
  BY DEF Use
<1>2. PICK list : Memory(Heap, list, DOMAIN live)
  BY DEF CInv
<1>3. /\ list \in Lists /\ Once(list) /\ OnLists(list) \subseteq Starts
      /\ DOMAIN live \subseteq Starts \ OnLists(list)
      /\ Linked(Heap, list) /\ Stamped(Heap, DOMAIN live)
  BY <1>2 DEF Memory
<1>4. /\ p \in HeapPages
      /\ \A x \in OnLists(list) : Page(x) # p
      /\ \A y \in DOMAIN live : y # b => Page(y) # p
  <2>1. p \in PagesOf(b, live[b].order)
    BY UseInside
  <2> QED BY <1>2, <2>1, FreePage DEF CInv
<1>5. \A x \in Starts : Page(x) \in HeapPages
  BY StartPages
<1>6. \A x \in Starts : Page(x) # p => pte[Page(x)] # f
  BY <1>4, <1>5 DEF CInv, Intact
<1> HIDE DEF f, v
<1>7. \A x \in Starts : Page(x) # p => word'[pte'[Page(x)]] = word[pte[Page(x)]]
  BY <1>1, <1>6
<1>8. \A x \in OnLists(list) : word'[pte'[Page(x)]] = word[pte[Page(x)]]
  BY <1>3, <1>4, <1>7
<1>9. \A x \in DOMAIN live : word'[pte'[Page(x)]].order = word[pte[Page(x)]].order
  <2>1. SUFFICES ASSUME NEW x \in DOMAIN live
                 PROVE  word'[pte'[Page(x)]].order = word[pte[Page(x)]].order
    OBVIOUS
  <2>2. CASE Page(x) # p
    BY <1>3, <1>7, <2>2
  <2>3. CASE Page(x) = p
    <3>1. x = b /\ Page(x) = p /\ pte[Page(x)] = f /\ f \in 0 .. Top - 1
      <4>1. FrameOf(x) \in 0 .. Top - 1
        BY <1>3, FramesInRange DEF InRange
      <4> QED BY <1>4, <2>3, <4>1 DEF f, FrameOf
    <3>2. word \in [0 .. Top - 1 -> Words]
      BY DEF TInv, Heaps, Heap
    <3>3. word'[f] = v /\ word[f] \in Words
      BY <1>1, <3>1, <3>2
    <3>4. v = [word[f] EXCEPT !.rest = UNKNOWN]
      BY <3>1 DEF v
    <3>5. word[f] = [rest |-> word[f].rest, order |-> word[f].order]
      BY <3>3 DEF Words
    <3>6. v.order = word[f].order
      BY <3>4, <3>5
    <3> QED BY <1>1, <3>1, <3>3, <3>6
  <2> QED BY <2>2, <2>3
<1>10. Memory(Heap, list, DOMAIN live)'
  <2>1. Linked(Heap, list)'
    <3>1. ASSUME NEW o \in Orders, NEW i \in 1 .. Len(list[o])
          PROVE  Link(Heap, list[o][i])' = After(list[o], i)
      <4>1. list[o][i] \in OnLists(list)
        <5>1. list[o][i] \in ToSet(list[o])
          BY <1>3, ListFacts
        <5> QED BY <5>1 DEF OnLists
      <4>2. word'[pte'[Page(list[o][i])]] = word[pte[Page(list[o][i])]]
        BY <1>8, <4>1
      <4>3. Link(Heap, list[o][i])' = Link(Heap, list[o][i])
        BY <4>2 DEF Link, Heap, Page
      <4> QED BY <1>3, <4>3 DEF Linked
    <3>2. \A o \in Orders : Heap'.head[o] = After(list[o], 0)
      BY <1>1, <1>3 DEF Linked, Heap
    <3> QED BY <3>1, <3>2 DEF Linked, Orders
  <2>2. Stamped(Heap, DOMAIN live)'
    <3>1. \A x \in DOMAIN live : word[pte[Page(x)]].order = live[x].order
      BY <1>3 DEF Stamped, FrameOf, Heap
    <3>2. \A x \in DOMAIN live : word'[pte'[Page(x)]].order = live[x].order
      BY <1>9, <3>1
    <3> QED BY <1>1, <3>2 DEF Stamped, FrameOf, Heap, Page
  <2>3. DOMAIN live' = DOMAIN live
    BY <1>1
  <2> QED BY <1>3, <2>1, <2>2, <2>3
          DEF Memory, Lists, Chains, Once, OnLists, Starts, HEAP_PAGES, Orders
<1>11. Free' = Free
  <2>1. TInv'
    BY UseTyped
  <2>2. Reads /\ Reads'
    BY ReadsOff, PTL
  <2> QED BY <1>2, <1>10, <2>1, <2>2 DEF Reads, FreeBlocks, Orders
<1>12. UNCHANGED Buddies!hvars
  <2>1. LiveBlocks(live)' = LiveBlocks(live)
    BY <1>1 DEF LiveBlocks
  <2> QED BY <1>11, <2>1 DEF Buddies!hvars
<1>13. Buddies!IInv'
  BY <1>12, SizesDouble, HalvesThere, Buddies!NextPreserves DEF CInv
<1>14. Intact'
  BY <1>1 DEF CInv, Intact, HeapPages, PagesOf, Page, heap_order_to_size
<1> QED BY <1>1, <1>10, <1>12, <1>13, <1>14 DEF CInv

-----------------------------------------------------------------------------
(* heap_init leaves one block, the whole heap, and vmm_init has mapped     *)
(* every heap page to its own frame of the window.                         *)
LEMMA InitAccounts == Init => Accounts(memory_map, used_blocks)
<1> SUFFICES ASSUME Init PROVE Accounts(memory_map, used_blocks)
  OBVIOUS
<1> DEFINE bits == (MemsetBits \ Ram) \cup Kernel \cup Tables
<1>1. memory_map = bits /\ used_blocks = UsedAfterInit + Cardinality(Tables)
  BY DEF Init
<1>2. /\ Top \in Nat /\ RESERVED \in Nat \ {0} /\ Kernel \subseteq 0 .. Top - 1
      /\ MemsetBits \subseteq 0 .. Top - 1
      /\ IsFiniteSet(0 .. Top - 1)
  BY Machine
<1>3. /\ Tables \subseteq 0 .. Top - 1 /\ Tables \cap Kernel = {}
      /\ UsedAfterInit \in Nat
  BY WindowAssumption, HeapAssumption, SizesAssumption DEF Top
<1>4. bits \subseteq 0 .. Top - 1 /\ Kernel \cup Tables \subseteq bits
  BY <1>2, <1>3
<1> HIDE DEF bits
<1>5. /\ IsFiniteSet(Tables) /\ IsFiniteSet(Kernel) /\ IsFiniteSet(bits)
      /\ Cardinality(Tables) \in Nat /\ Cardinality(bits) \in Nat
  BY <1>2, <1>3, <1>4, FS_Subset, FS_CardinalityType
<1>6. Cardinality(Kernel) = RESERVED
  <2>1. /\ IsFiniteSet(0 .. RESERVED - 1)
        /\ Cardinality(0 .. RESERVED - 1)
             = IF 0 > RESERVED - 1 THEN 0 ELSE RESERVED - 1 - 0 + 1
    <3>1. 0 \in Int /\ RESERVED - 1 \in Int
      BY <1>2
    <3> QED BY <3>1, FS_Interval
  <2> QED BY <1>2, <2>1 DEF Kernel
<1>7. Cardinality(Kernel \cup Tables)
        = Cardinality(Kernel) + Cardinality(Tables) - Cardinality(Kernel \cap Tables)
  BY <1>5, FS_Union
<1>8. Cardinality(Kernel \cap Tables) = 0
  <2>1. Kernel \cap Tables = {}
    BY <1>3
  <2> QED BY <2>1, FS_EmptySet
<1>9. Cardinality(Kernel \cup Tables) <= Cardinality(bits)
  BY <1>4, <1>5, FS_Subset
<1>10. RESERVED + Cardinality(Tables) <= Cardinality(bits)
  BY <1>2, <1>5, <1>6, <1>7, <1>8, <1>9
<1>11. /\ UsedAfterInit + Cardinality(Tables) \in Nat
       /\ (UsedAfterInit + Cardinality(Tables)) + RESERVED <= UsedAfterInit + Cardinality(bits)
  BY <1>2, <1>3, <1>5, <1>10
<1> QED BY <1>1, <1>4, <1>11 DEF Accounts

LEMMA InitTyped == Init => TInv /\ Intact
<1> SUFFICES ASSUME Init PROVE TInv /\ Intact
  OBVIOUS
<1> DEFINE n == HEAP_PAGES
           first == Page(HEAP_START)
<1>1. /\ n \in Nat \ {0} /\ first \in Nat /\ HeapPages = first .. (first + n - 1)
      /\ PHYSMAP_FRAME \in Nat /\ HEAP_START \in Starts
  BY HeapOnPages, StartPages, WindowAssumption
<1>2. Window = PHYSMAP_FRAME .. (PHYSMAP_FRAME + n - 1)
  <2>1. heap_order_to_size(HEAP_MAX_ORDER) \div BLOCK_SIZE = n
    <3>1. BLOCK_SIZE \in Nat \ {0} /\ n \in Nat
      BY <1>1, SizesAssumption
    <3>2. heap_order_to_size(HEAP_MAX_ORDER) = n * BLOCK_SIZE
      BY DEF heap_order_to_size, HEAP_PAGES
    <3> HIDE DEF n
    <3> QED BY <3>1, <3>2
  <2> QED BY <2>1 DEF Window
<1>3. /\ DOMAIN pte = HeapPages
      /\ \A p \in HeapPages : pte[p] = PHYSMAP_FRAME + (p - first)
      /\ live = [b \in {} |-> 0] /\ DOMAIN live = {}
  BY DEF Init, HeapPages
<1> HIDE DEF n, first
<1>4. Intact
  BY <1>1, <1>3 DEF Intact
<1>5. Backed
  <2>1. \A p \in HeapPages : pte[p] \in Window
    BY <1>1, <1>2, <1>3
  <2> QED BY <1>3, <2>1 DEF Backed
<1>6. LiveBacked /\ LivePagesDistinct /\ RequestFits /\ Headers
  BY <1>3 DEF LivePages, LiveBacked, LivePagesDistinct, RequestFits, Headers
<1>7. Heap \in Heaps
  <2>1. NULL \in Links /\ HEAP_START \in Links /\ "runs" \in Kernels
    BY <1>1 DEF Links, Kernels
  <2>2. AsWord(NULL) \in Words /\ Junk \in Words
    BY <2>1, LinkWord DEF Junk, Words, Links
  <2>3. heap_free_list \in [Orders -> Links]
    BY <2>1 DEF Init
  <2>4. word \in [0 .. Top - 1 -> Words]
    BY <2>2 DEF Init, Top
  <2>5. kernel = "runs"
    BY DEF Init
  <2> QED BY <2>1, <2>3, <2>4, <2>5 DEF Heaps, Heap
<1> QED BY <1>4, <1>5, <1>6, <1>7, InitAccounts DEF TInv

LEMMA InitClean == Init => CInv /\ Buddies!Init
<1> SUFFICES ASSUME Init PROVE CInv /\ Buddies!Init
  OBVIOUS
<1> DEFINE M == HEAP_MAX_ORDER
           list == [o \in Orders |-> IF o = M THEN <<HEAP_START>> ELSE <<>>]
<1>1. /\ M \in Nat /\ M \in Orders /\ HEAP_START \in Nat /\ HEAP_START \in Starts
      /\ HEAP_START # NULL
  BY HeapAssumption, StartPages DEF Orders
<1>2. /\ <<HEAP_START>> \in Seq(Nat) /\ <<>> \in Seq(Nat)
      /\ Len(<<HEAP_START>>) = 1 /\ <<HEAP_START>>[1] = HEAP_START
      /\ Len(<<>>) = 0 /\ 1 .. Len(<<>>) = {}
  BY <1>1
<1>3. /\ list[M] = <<HEAP_START>>
      /\ \A o \in Orders : o # M => list[o] = <<>>
  BY <1>1
<1>4. ToSet(<<HEAP_START>>) = {HEAP_START} /\ ToSet(<<>>) = {}
  BY <1>2 DEF ToSet
<1>5. list \in Lists
  <2>1. NoTwice(<<HEAP_START>>) /\ NoTwice(<<>>)
    BY <1>2 DEF NoTwice
  <2>2. list \in Chains
    BY <1>1, <1>2 DEF Chains
  <2> QED BY <1>3, <2>1, <2>2 DEF Lists
<1> HIDE DEF list
<1>6. FreeBlocks(list) = {<<HEAP_START, M>>}
  <2>1. {<<HEAP_START, M>>} \subseteq Nat \X Orders
    BY <1>1
  <2>2. \A o \in Orders : \A a \in Nat :
           a \in ToSet(list[o]) <=> <<a, o>> \in {<<HEAP_START, M>>}
    BY <1>3, <1>4
  <2>3. list \in Chains
    BY <1>5 DEF Lists
  <2> QED BY <2>1, <2>2, <2>3, SameBlocks
<1>7. OnLists(list) \subseteq Starts /\ Once(list)
  <2>1. \A o \in Orders : \A a \in ToSet(list[o]) : a = HEAP_START /\ o = M
    BY <1>3, <1>4
  <2> QED BY <1>1, <2>1 DEF OnLists, Once
<1>8. DOMAIN live = {} /\ kernel = "runs"
  BY DEF Init
<1>9. Linked(Heap, list)
  <2>1. \A o \in Orders : Heap.head[o] = After(list[o], 0)
    <3>1. Heap.head = [o \in Orders |-> IF o = M THEN HEAP_START ELSE NULL]
      BY DEF Heap, Init
    <3>2. After(<<HEAP_START>>, 0) = HEAP_START /\ After(<<>>, 0) = NULL
      BY <1>2 DEF After
    <3> QED BY <1>3, <3>1, <3>2
  <2>2. Link(Heap, HEAP_START) = NULL
    <3>1. pte[Page(HEAP_START)] = PHYSMAP_FRAME
      <4>1. Page(HEAP_START) \in HeapPages /\ Page(HEAP_START) \in Nat
        BY <1>1, StartPages
      <4>2. pte = [p \in HeapPages |-> PHYSMAP_FRAME + (p - Page(HEAP_START))]
        BY DEF Init, HeapPages
      <4>3. PHYSMAP_FRAME \in Nat
        BY WindowAssumption
      <4> DEFINE k == Page(HEAP_START)
      <4> HIDE DEF k
      <4>4. k \in HeapPages /\ k \in Nat /\ pte = [p \in HeapPages |-> PHYSMAP_FRAME + (p - k)]
        BY <4>1, <4>2 DEF k
      <4>5. pte[k] = PHYSMAP_FRAME
        BY <4>3, <4>4
      <4> QED BY <4>5 DEF k
    <3>2. PHYSMAP_FRAME \in 0 .. (MaxBlocks - 1)
      <4>1. shifted[HEAP_MAX_ORDER] \in Nat \ {0}
        BY <1>1, ShiftDoubles
      <4> QED BY <4>1, WindowAssumption
    <3>3. word[PHYSMAP_FRAME] = AsWord(NULL)
      BY <3>2 DEF Init
    <3>4. AsWord(NULL) = [rest |-> NULL, order |-> 0]
      BY DEF AsWord, NULL, UNKNOWN
    <3> QED BY <3>1, <3>3, <3>4 DEF Link, Heap
  <2>3. \A o \in Orders : \A i \in 1 .. Len(list[o]) : Link(Heap, list[o][i]) = After(list[o], i)
    <3>1. SUFFICES ASSUME NEW o \in Orders, NEW i \in 1 .. Len(list[o])
                   PROVE  Link(Heap, list[o][i]) = After(list[o], i)
      OBVIOUS
    <3>2. o = M /\ i = 1
      <4>1. 1 .. Len(list[o]) # {}
        BY <3>1
      <4>2. o = M
        <5>1. SUFFICES ASSUME o # M PROVE FALSE
          OBVIOUS
        <5>2. list[o] = <<>>
          BY <1>3, <5>1
        <5> QED BY <1>2, <4>1, <5>2
      <4>3. Len(list[o]) = 1
        BY <1>2, <1>3, <4>2
      <4> QED BY <3>1, <4>2, <4>3
    <3>3. After(<<HEAP_START>>, 1) = NULL
      BY <1>2 DEF After
    <3> QED BY <1>2, <1>3, <2>2, <3>2, <3>3
  <2> QED BY <2>1, <2>3 DEF Linked
<1>10. Memory(Heap, list, DOMAIN live)
  BY <1>5, <1>7, <1>8, <1>9 DEF Memory, Stamped
<1>11. Free = {<<HEAP_START, M>>}
  BY <1>6, <1>10, InitTyped, ReadsOff DEF Reads
<1>12. Buddies!Init
  BY <1>8, <1>11 DEF Buddies!Init, LiveBlocks
<1>13. Buddies!IInv
  BY <1>12, SizesDouble, HalvesThere, Buddies!InitIInv
<1> QED BY <1>8, <1>10, <1>12, <1>13, InitTyped DEF CInv

-----------------------------------------------------------------------------
(* Every step keeps the invariant; and while the heap's frames are its own *)
(* it is a step of BuddyHeap, or none.                                     *)
LEMMA StepHolds ==
    ASSUME HInv, [Next]_hvars
    PROVE  HInv' /\ (Untouched' => [Buddies!Next]_(Buddies!hvars))
<1>1. TInv /\ (Untouched => CInv)
  BY DEF HInv
<1> DEFINE Good == /\ TInv' /\ memory_map \subseteq memory_map'
                   /\ CInv /\ Untouched' => CInv' /\ [Buddies!Next]_(Buddies!hvars)
<1>2. ASSUME NEW size \in Requests, heap_alloc(size) PROVE Good
  <2>1. size \in Nat
    BY HeapAssumption
  <2>2. TInv' /\ memory_map \subseteq memory_map'
    BY <1>1, <1>2, <2>1, AllocTyped
  <2>3. CInv /\ Untouched' => CInv' /\ [Buddies!Next]_(Buddies!hvars)
    BY <1>1, <1>2, <2>1, AllocClean
  <2> QED BY <2>2, <2>3
<1>3. ASSUME NEW b \in DOMAIN live, heap_free(b) PROVE Good
  <2>1. PICK order \in 0 .. HEAP_MAX_ORDER + 1 : FreedAs(b, order)
    BY <1>1, <1>3, Freed
  <2>2. TInv' /\ memory_map' = memory_map
    <3>1. TInv'
      BY <1>1, <2>1, FreeTyped
    <3> QED BY <2>1, <3>1 DEF FreedAs
  <2>3. CInv => CInv' /\ [Buddies!Next]_(Buddies!hvars)
    BY <1>1, <1>3, FreeClean
  <2> QED BY <2>2, <2>3
<1>4. ASSUME NEW b \in DOMAIN live, NEW p \in DOMAIN pte, Use(b, p) PROVE Good
  <2>1. TInv' /\ memory_map' = memory_map
    BY <1>1, <1>4, UseTyped DEF Use
  <2>2. CInv => CInv' /\ UNCHANGED Buddies!hvars
    BY <1>1, <1>4, UseClean
  <2> QED BY <2>1, <2>2
<1>5. ASSUME UNCHANGED hvars PROVE Good
  <2>1. Stop(kernel)
    BY <1>5 DEF hvars, Stop
  <2>2. kernel \in Kernels
    BY <1>1 DEF TInv, Heaps, Heap
  <2>3. TInv' /\ memory_map' = memory_map
    BY <1>1, <2>1, <2>2, StopTyped
  <2>4. CInv => CInv' /\ UNCHANGED Buddies!hvars
    BY <1>1, <2>1, <2>2, StopTyped DEF CInv
  <2> QED BY <2>3, <2>4
<1>6. Good
  BY <1>2, <1>3, <1>4, <1>5 DEF Next
<1>7. Untouched' => Untouched
  BY <1>6 DEF Untouched, Window, heap_order_to_size
<1> QED BY <1>1, <1>6, <1>7 DEF HInv

(* In every state that heap_init, heap_alloc, heap_free and callers reach: *)
(* no page of a live block shares a frame with another except by NULL, and *)
(* until a frame of the untouched heap is handed out, the memory of the    *)
(* heap holds lists and order bytes, and the blocks tile the heap.         *)
THEOREM Invariance == Spec => []HInv
<1>1. Init => HInv
  BY InitTyped, InitClean DEF HInv
<1>2. HInv /\ [Next]_hvars => HInv'
  BY StepHolds
<1> QED BY <1>1, <1>2, PTL DEF Spec

(* The instance of the run's property and that of the proofs are the same. *)
LEMMA SameInstance ==
    /\ Buddies!Init => Abstract!Init
    /\ [Buddies!Next]_(Buddies!hvars) => [Abstract!Next]_(Abstract!hvars)
<1>1. Buddies!Init => Abstract!Init
  BY DEF Buddies!Init, Abstract!Init, Free, LiveBlocks
<1>2. ASSUME NEW order PROVE Buddies!Alloc(order) => Abstract!Alloc(order)
  BY DEF Buddies!Alloc, Abstract!Alloc, Free, LiveBlocks, Size,
         Buddies!Pieces, Abstract!Pieces
<1>3. ASSUME NEW b PROVE Buddies!FreeBlock(b) => Abstract!FreeBlock(b)
  BY DEF Buddies!FreeBlock, Abstract!FreeBlock, Free, LiveBlocks
<1>4. Buddies!Next => Abstract!Next
  BY <1>2, <1>3 DEF Buddies!Next, Abstract!Next, Buddies!Orders, Abstract!Orders, LiveBlocks
<1>5. UNCHANGED Buddies!hvars => UNCHANGED Abstract!hvars
  BY DEF Buddies!hvars, Abstract!hvars, Free, LiveBlocks
<1> QED BY <1>1, <1>4, <1>5

(* Until a frame of the untouched heap is handed out, links in memory,     *)
(* order bytes and the merge loop of heap.c together implement the blocks  *)
(* of BuddyHeap, step for step: heap_alloc cuts a free block of the least  *)
(* sufficient order, and heap_free gives back the block it was called for, *)
(* whole and unmerged, whatever callers wrote into their blocks.           *)
THEOREM Refinement == Spec => ImplementsBuddyHeap
<1>1. Init => Abstract!Init
  BY InitClean, SameInstance
<1>2. HInv /\ [Next]_hvars => BuddyStep
  BY StepHolds, SameInstance DEF BuddyStep
<1>3. HInv /\ [Next]_hvars => [BuddyStep]_hvars
  BY <1>2
<1> QED BY <1>1, <1>3, Invariance, PTL DEF Spec, ImplementsBuddyHeap

(* A buffer never reaches past its block: heap_size_to_order counts the    *)
(* header, and the comparison is strict.                                   *)
THEOREM BuffersFit == Spec => []RequestFits
<1>1. HInv => RequestFits
  BY DEF HInv, TInv
<1> QED BY <1>1, Invariance, PTL

(* Two pages of live blocks share no frame, except frame 0, which is what  *)
(* every page gets once pmm_alloc_block returns NULL (heap_alloc_block).   *)
THEOREM PagesAreNotShared == Spec => []LivePagesDistinct
<1>1. HInv => LivePagesDistinct
  BY DEF HInv, TInv
<1> QED BY <1>1, Invariance, PTL

(* Until a frame of the untouched heap is handed out, every walk along a   *)
(* list comes to its end and follows no link that was not written as one.  *)
THEOREM WalksComeToAnEnd == Spec => []WalksEnd
<1>1. HInv => WalksEnd
  <2>1. SUFFICES ASSUME TInv, CInv PROVE WalksEnd
    BY DEF HInv, WalksEnd
  <2>2. PICK list : Memory(Heap, list, DOMAIN live)
    BY <2>1 DEF CInv
  <2>3. \A o \in Orders : Met(Heap, o)[HEAP_PAGES] = NULL
    BY <2>1, <2>2, ReadsOff DEF Reads
  <2> QED BY <2>1, <2>3 DEF CInv, WalksEnd
<1> QED BY <1>1, Invariance, PTL

(* Until then, the order byte in front of a live block is the order under  *)
(* which it was handed out, so heap_free puts it on the list it came from. *)
THEOREM OrdersAreKept == Spec => []HeadersKept
<1>1. HInv => HeadersKept
  <2>1. SUFFICES ASSUME TInv, CInv PROVE HeadersKept
    BY DEF HInv, HeadersKept
  <2>2. PICK list : Memory(Heap, list, DOMAIN live)
    BY <2>1 DEF CInv
  <2> QED BY <2>2 DEF Memory, Stamped, FrameOf, Heap, HeadersKept
<1> QED BY <1>1, Invariance, PTL

(* Until then, no page of a live block lies on a frame that holds the link *)
(* of a free block.                                                        *)
THEOREM LinksStayIntact == Spec => []LinksIntact
<1>1. HInv => LinksIntact
  <2>1. SUFFICES ASSUME TInv, CInv, NEW a \in FreeStarts, NEW p \in LivePages
                 PROVE  pte[Page(a)] # pte[p]
    BY DEF HInv, LinksIntact
  <2>2. PICK list : Memory(Heap, list, DOMAIN live)
    BY <2>1 DEF CInv
  <2>3. a \in OnLists(list) /\ a \in Starts
    <3>1. \A o \in Orders : Listed(o) = ToSet(list[o])
      BY <2>1, <2>2, ReadsOff DEF Reads
    <3>2. a \in OnLists(list)
      BY <2>1, <3>1 DEF FreeStarts, OnLists
    <3> QED BY <2>2, <3>2 DEF Memory
  <2>4. PICK b \in DOMAIN live : p \in PagesOf(b, live[b].order)
    BY <2>1 DEF LivePages
  <2>5. Buddies!IInv
    BY <2>1 DEF CInv
  <2>6. p \in HeapPages /\ Page(a) # p
    BY <2>1, <2>2, <2>3, <2>4, <2>5, FreePage
  <2> QED BY <2>1, <2>3, <2>6, StartPages DEF CInv, Intact
<1> QED BY <1>1, Invariance, PTL

=============================================================================

---------------------------- MODULE FilesProofs ----------------------------
(***************************************************************************)
(* Proofs about the contents of files, for blocks and tables of any size,  *)
(* any number of files and handles.                                        *)
(*                                                                         *)
(* Everything rests on no two table entries naming one block: a buffer     *)
(* that is written back, and a block that is loaded, then belong to the    *)
(* file of the handle and to no other, whatever the handle was used for.   *)
(***************************************************************************)
EXTENDS Files, SequenceTheorems, WellFoundedInduction, TLAPS

-----------------------------------------------------------------------------
(* A set of natural numbers has a least element: what replaces induction.  *)
LEMMA LeastElement ==
    ASSUME NEW T, T \subseteq Nat, T # {}
    PROVE  \E x \in T : \A y \in T : x <= y
<1> DEFINE R == OpToRel(<, Nat)
<1>1. IsWellFoundedOn(R, Nat)
  BY NatLessThanWellFounded
<1>2. \A x, y \in Nat : x < y => <<x, y>> \in R
  BY DEF OpToRel
<1> HIDE DEF R
<1>3. PICK x \in T : \A y \in T : ~ (<<y, x>> \in R)
  BY <1>1, WFMin
<1>4. ASSUME NEW y \in T PROVE x <= y
  <2>1. x \in Nat /\ y \in Nat
    OBVIOUS
  <2>2. ~ (y < x)
    BY <1>2, <1>3, <2>1
  <2> QED BY <2>1, <2>2
<1> QED BY <1>4

(* g starts at a and takes the steps F.                                    *)
Follows(g, a, F) == g[0] = a /\ \A n \in Nat : g[n + 1] = F[n][g[n]]

(* Recursion.  The steps are a function, so that there is one for every    *)
(* definition by recursion below: the initial parts of the function that   *)
(* is looked for agree with each other, and every one can be continued.    *)
LEMMA Recursion ==
    ASSUME NEW S, NEW a \in S, NEW F \in [Nat -> [S -> S]]
    PROVE  \E g \in [Nat -> S] : Follows(g, a, F)
<1> DEFINE Part(n) == {h \in [0 .. n -> S] :
                          h[0] = a /\ \A k \in 0 .. n - 1 : h[k + 1] = F[k][h[k]]}
<1>1. \A n \in Nat : \A h \in [0 .. n -> S] :
         h \in Part(n) <=> h[0] = a /\ \A k \in 0 .. n - 1 : h[k + 1] = F[k][h[k]]
  OBVIOUS
<1>2. \A n \in Nat : Part(n) \subseteq [0 .. n -> S]
  OBVIOUS
<1> HIDE DEF Part
<1>3. \A n \in Nat : Part(n) # {}
  <2> DEFINE T == {n \in Nat : Part(n) = {}}
  <2>1. SUFFICES ASSUME T # {} PROVE FALSE
    OBVIOUS
  <2>2. PICK n \in T : \A m \in T : n <= m
    BY <2>1, LeastElement
  <2>3. CASE n = 0
    <3> DEFINE h == [k \in 0 .. 0 |-> a]
    <3>1. h \in [0 .. 0 -> S] /\ h[0] = a /\ 0 .. 0 - 1 = {}
      OBVIOUS
    <3> HIDE DEF h
    <3>2. h \in Part(0)
      BY <1>1, <3>1
    <3> QED BY <2>3, <3>2
  <2>4. CASE n # 0
    <3>1. n - 1 \in Nat /\ n - 1 \notin T
      BY <2>2, <2>4
    <3>2. PICK h : h \in Part(n - 1)
      BY <3>1
    <3>3. /\ h \in [0 .. n - 1 -> S] /\ h[0] = a
          /\ \A k \in 0 .. n - 2 : h[k + 1] = F[k][h[k]]
      BY <1>1, <1>2, <3>1, <3>2
    <3> DEFINE c == [k \in 0 .. n |-> IF k = n THEN F[n - 1][h[n - 1]] ELSE h[k]]
    <3>4. c \in [0 .. n -> S]
      <4>1. n - 1 \in 0 .. n - 1
        BY <3>1
      <4>2. F[n - 1][h[n - 1]] \in S
        BY <3>1, <3>3, <4>1
      <4>3. \A k \in 0 .. n : k # n => h[k] \in S
        BY <3>3
      <4> QED BY <4>2, <4>3
    <3>5. c[0] = a
      BY <2>4, <3>3
    <3>6. \A k \in 0 .. n - 1 : c[k + 1] = F[k][c[k]]
      <4>1. SUFFICES ASSUME NEW k \in 0 .. n - 1 PROVE c[k + 1] = F[k][c[k]]
        OBVIOUS
      <4>2. c[k] = h[k]
        OBVIOUS
      <4>3. CASE k = n - 1
        BY <4>2, <4>3
      <4>4. CASE k # n - 1
        <5>1. k \in 0 .. n - 2 /\ k + 1 # n /\ k + 1 \in 0 .. n
          BY <4>4
        <5> QED BY <3>3, <4>2, <5>1
      <4> QED BY <4>3, <4>4
    <3> HIDE DEF c
    <3>7. c \in Part(n)
      BY <1>1, <3>4, <3>5, <3>6
    <3> QED BY <2>2, <3>7
  <2> QED BY <2>3, <2>4
<1>4. \A n \in Nat : \A m \in n .. n + 1 : \A h \in Part(n), c \in Part(m) : c[n] = h[n]
  <2>1. SUFFICES ASSUME NEW n \in Nat, NEW m \in n .. n + 1, NEW h \in Part(n), NEW c \in Part(m)
                 PROVE  c[n] = h[n]
    OBVIOUS
  <2>2. /\ m \in Nat /\ h[0] = a /\ c[0] = a
        /\ \A k \in 0 .. n - 1 : h[k + 1] = F[k][h[k]]
        /\ \A k \in 0 .. m - 1 : c[k + 1] = F[k][c[k]]
    BY <1>1, <1>2
  <2> DEFINE T == {k \in 0 .. n : c[k] # h[k]}
  <2>3. SUFFICES ASSUME T # {} PROVE FALSE
    OBVIOUS
  <2>4. PICK k \in T : \A j \in T : k <= j
    <3>1. T \subseteq Nat
      OBVIOUS
    <3> HIDE DEF T
    <3> QED BY <2>3, <3>1, LeastElement
  <2>5. k # 0
    BY <2>2, <2>4
  <2>6. k - 1 \in 0 .. n - 1 /\ k - 1 \in 0 .. m - 1 /\ k - 1 \notin T /\ (k - 1) + 1 = k
    BY <2>4, <2>5
  <2>7. c[k - 1] = h[k - 1]
    BY <2>6
  <2> QED BY <2>2, <2>4, <2>6, <2>7
<1> DEFINE part == [n \in Nat |-> CHOOSE h : h \in Part(n)]
           g == [n \in Nat |-> part[n][n]]
<1>5. \A n \in Nat : part[n] \in Part(n)
  BY <1>3
<1> HIDE DEF part
<1>6. g \in [Nat -> S]
  BY <1>2, <1>5
<1>7. g[0] = a
  <2>1. part[0] \in Part(0) /\ part[0] \in [0 .. 0 -> S]
    BY <1>2, <1>5
  <2>2. part[0][0] = a
    BY <1>1, <2>1
  <2> QED BY <2>2
<1>8. ASSUME NEW n \in Nat PROVE g[n + 1] = F[n][g[n]]
  <2>1. part[n + 1] \in Part(n + 1) /\ n + 1 \in Nat /\ n + 1 \in n .. n + 1 /\ n \in 0 .. n
    BY <1>5
  <2>2. part[n + 1][n] = part[n][n]
    BY <1>4, <1>5, <2>1
  <2>3. part[n + 1][n + 1] = F[n][part[n + 1][n]]
    <3>1. n \in 0 .. (n + 1) - 1 /\ part[n + 1] \in [0 .. n + 1 -> S]
      BY <1>2, <2>1
    <3> QED BY <1>1, <2>1, <3>1
  <2> QED BY <2>1, <2>2, <2>3
<1> HIDE DEF g
<1> QED BY <1>6, <1>7, <1>8 DEF Follows

(* Induction over the numbers up to n, for a set.                          *)
LEMMA UpTo ==
    ASSUME NEW n \in Nat, NEW T, 0 \in T, \A k \in 0 .. n - 1 : k \in T => k + 1 \in T
    PROVE  \A k \in 0 .. n : k \in T
<1> DEFINE B == {k \in 0 .. n : k \notin T}
<1>1. SUFFICES ASSUME B # {} PROVE FALSE
  OBVIOUS
<1>2. PICK k \in B : \A j \in B : k <= j
  <2>1. B \subseteq Nat
    OBVIOUS
  <2> HIDE DEF B
  <2> QED BY <1>1, <2>1, LeastElement
<1>3. k # 0
  BY <1>2
<1>4. k - 1 \in 0 .. n - 1 /\ (k - 1) + 1 = k /\ k - 1 \notin B
  BY <1>2, <1>3
<1>5. k - 1 \in T
  BY <1>4
<1> QED BY <1>2, <1>4, <1>5

(* What a definition by recursion up to n defines.                         *)
Iterates(t, a, F, n) == \A k \in 0 .. n : t[k] = IF k = 0 THEN a ELSE F[k - 1][t[k - 1]]

(* The same for a recursive function on 0 .. n.                            *)
LEMMA RecursionUpTo ==
    ASSUME NEW S, NEW a \in S, NEW F \in [Nat -> [S -> S]], NEW n \in Nat
    PROVE  \E t \in [0 .. n -> S] : Iterates(t, a, F, n)
<1>1. PICK g \in [Nat -> S] : Follows(g, a, F)
  BY Recursion
<1> DEFINE t == [k \in 0 .. n |-> g[k]]
<1>2. t \in [0 .. n -> S]
  OBVIOUS
<1>3. ASSUME NEW k \in 0 .. n PROVE t[k] = IF k = 0 THEN a ELSE F[k - 1][t[k - 1]]
  <2>1. CASE k # 0
    <3>1. k - 1 \in Nat /\ (k - 1) + 1 = k /\ k - 1 \in 0 .. n
      BY <2>1
    <3>2. t[k] = g[k] /\ t[k - 1] = g[k - 1]
      BY <3>1
    <3> HIDE DEF t
    <3> QED BY <1>1, <2>1, <3>1, <3>2 DEF Follows
  <2> QED BY <1>1, <2>1 DEF Follows
<1> HIDE DEF t
<1> QED BY <1>2, <1>3 DEF Iterates

-----------------------------------------------------------------------------
(* Division with remainder, in the forms the provers can use.              *)
LEMMA Quotient ==
    ASSUME NEW n \in Nat, NEW d \in Nat \ {0}
    PROVE  n = d * (n \div d) + (n % d)
  OBVIOUS

LEMMA Remainder ==
    ASSUME NEW n \in Nat, NEW d \in Nat \ {0}
    PROVE  n % d \in 0 .. d - 1
  OBVIOUS

LEMMA QuotientNat ==
    ASSUME NEW n \in Nat, NEW d \in Nat \ {0}
    PROVE  n \div d \in Nat
<1> DEFINE q == n \div d
           r == n % d
<1>1. n = d * q + r
  BY Quotient
<1>2. r \in 0 .. d - 1
  BY Remainder
<1>3. q \in Int
  OBVIOUS
<1> HIDE DEF q, r
<1>4. q < 0 => d * q <= - d
  BY <1>3
<1>5. q \in Nat
  BY <1>1, <1>2, <1>3, <1>4
<1> QED BY <1>5 DEF q

(* Multiplication keeps the order, and what is between.                    *)
LEMMA Product ==
    ASSUME NEW a \in Nat, NEW b \in Nat, NEW k \in Nat, NEW d \in Nat, a + k <= b
    PROVE  /\ a * d \in Nat /\ b * d \in Nat /\ k * d \in Nat
           /\ a * d + k * d <= b * d
<1>1. PICK m \in Nat : b = a + k + m
  <2>1. b - (a + k) \in Nat /\ b = a + k + (b - (a + k))
    OBVIOUS
  <2> QED BY <2>1
<1>2. b * d = a * d + k * d + m * d
  BY <1>1
<1>3. a * d \in Nat /\ k * d \in Nat /\ m * d \in Nat /\ b * d \in Nat
  BY <1>1
<1> QED BY <1>2, <1>3

(* A multiple is no less than the number.                                  *)
LEMMA AtLeastOnce ==
    ASSUME NEW a \in Nat, NEW d \in Nat \ {0}
    PROVE  a * d \in Nat /\ a <= a * d
<1>1. PICK e \in Nat : d = 1 + e
  <2>1. d - 1 \in Nat /\ d = 1 + (d - 1)
    OBVIOUS
  <2> QED BY <2>1
<1>2. a * d = a + a * e /\ a * e \in Nat
  BY <1>1
<1> QED BY <1>2

(* A number below m times d has a quotient below m.                        *)
LEMMA QuotientBelow ==
    ASSUME NEW n \in Nat, NEW d \in Nat \ {0}, NEW m \in Nat, n < m * d
    PROVE  n \div d < m
<1> DEFINE q == n \div d
           r == n % d
<1>1. n = d * q + r
  BY Quotient
<1>2. r \in 0 .. d - 1
  BY Remainder
<1>3. q \in Nat
  BY QuotientNat
<1> HIDE DEF q, r
<1>4. CASE q >= m
  <2>1. m * d + 0 * d <= q * d /\ q * d \in Nat /\ m * d \in Nat
    BY <1>3, <1>4, Product
  <2>2. q * d = d * q
    BY <1>3
  <2> QED BY <1>1, <1>2, <2>1, <2>2
<1>5. CASE ~ (q >= m)
  BY <1>3, <1>5 DEF q
<1> QED BY <1>4, <1>5

Up(n, unit) == (n + unit - 1) \div unit

(* Up(n, unit) units hold n, and no fewer do.                              *)
LEMMA UpHolds ==
    ASSUME NEW n \in Nat, NEW unit \in Nat \ {0}
    PROVE  /\ Up(n, unit) \in Nat
           /\ n <= Up(n, unit) * unit
           /\ n > 0 => Up(n, unit) > 0
<1> DEFINE m == n + unit - 1
           q == m \div unit
           r == m % unit
<1>1. m \in Nat
  OBVIOUS
<1>2. m = unit * q + r
  BY <1>1, Quotient
<1>3. r \in 0 .. unit - 1
  BY <1>1, Remainder
<1>4. q \in Nat
  BY <1>1, QuotientNat
<1>5. Up(n, unit) = q
  BY DEF Up
<1> HIDE DEF q, r
<1>6. n <= q * unit
  <2>1. unit * q = q * unit /\ q * unit \in Nat
    BY <1>4
  <2> QED BY <1>2, <1>3, <2>1
<1>7. n > 0 => q > 0
  <2>1. q = 0 => q * unit = 0
    OBVIOUS
  <2> QED BY <1>4, <1>6, <2>1
<1> QED BY <1>4, <1>5, <1>6, <1>7

(* No fewer units hold n.                                                  *)
LEMMA UpLeast ==
    ASSUME NEW n \in Nat, NEW unit \in Nat \ {0}, NEW k \in Nat, n <= k * unit
    PROVE  Up(n, unit) <= k
<1>1. (k + 1) * unit = k * unit + unit /\ k * unit \in Nat
  OBVIOUS
<1>2. n + unit - 1 < (k + 1) * unit /\ n + unit - 1 \in Nat
  BY <1>1
<1>3. (n + unit - 1) \div unit < k + 1
  BY <1>2, QuotientBelow
<1>4. (n + unit - 1) \div unit \in Nat
  BY <1>2, QuotientNat
<1> QED BY <1>3, <1>4 DEF Up

-----------------------------------------------------------------------------
Places == 0 .. CELLS - 1

(* How many blocks hold n cells.                                           *)
LEMMA BlocksHold ==
    ASSUME NEW n \in Nat
    PROVE  /\ InBlocks(n) \in Nat /\ n <= InBlocks(n) * CELLS
           /\ \A k \in Nat : n <= k * CELLS => InBlocks(n) <= k
<1>1. CELLS \in Nat \ {0}
  BY FilesAssumption
<1>2. InBlocks(n) = Up(n, CELLS)
  BY DEF InBlocks, Up
<1> QED BY <1>1, <1>2, UpHolds, UpLeast

LEMMA NoBlocks == InBlocks(0) = 0
<1>1. CELLS \in Nat /\ 0 <= 0 * CELLS
  BY FilesAssumption
<1> QED BY <1>1, BlocksHold

(* More cells need no fewer blocks.                                        *)
LEMMA MoreBlocks ==
    ASSUME NEW m \in Nat, NEW n \in Nat, m <= n
    PROVE  InBlocks(m) <= InBlocks(n)
<1>1. InBlocks(n) \in Nat /\ n <= InBlocks(n) * CELLS
  BY BlocksHold
<1>2. m <= InBlocks(n) * CELLS
  BY <1>1, FilesAssumption
<1> QED BY <1>1, <1>2, BlocksHold

(* Cells stored apart need at least as many blocks as together.            *)
LEMMA BlocksAdd ==
    ASSUME NEW m \in Nat, NEW n \in Nat
    PROVE  InBlocks(m + n) <= InBlocks(m) + InBlocks(n)
<1>1. /\ InBlocks(m) \in Nat /\ m <= InBlocks(m) * CELLS
      /\ InBlocks(n) \in Nat /\ n <= InBlocks(n) * CELLS
  BY BlocksHold
<1> DEFINE a == InBlocks(m)
           b == InBlocks(n)
<1>2. a * CELLS + b * CELLS = (a + b) * CELLS /\ a * CELLS \in Nat /\ b * CELLS \in Nat
  <2> HIDE DEF a, b
  <2>1. a \in Nat /\ b \in Nat
    BY <1>1 DEF a, b
  <2> QED BY <2>1, FilesAssumption
<1>3. m + n <= (a + b) * CELLS /\ a + b \in Nat /\ m + n \in Nat
  BY <1>1, <1>2
<1> HIDE DEF a, b
<1>4. InBlocks(m + n) <= a + b
  BY <1>3, BlocksHold
<1> QED BY <1>4 DEF a, b

(* The place of a cell: the number of its block and where it is in it.     *)
LEMMA CellPlace ==
    ASSUME NEW c \in Nat
    PROVE  /\ c \div CELLS \in Nat /\ c % CELLS \in Places
           /\ c = CELLS * (c \div CELLS) + (c % CELLS)
<1>1. CELLS \in Nat \ {0}
  BY FilesAssumption
<1>2. c \div CELLS \in Nat
  BY <1>1, QuotientNat
<1>3. c % CELLS \in Places
  BY <1>1, Remainder DEF Places
<1>4. c = CELLS * (c \div CELLS) + (c % CELLS)
  BY <1>1, Quotient
<1> QED BY <1>2, <1>3, <1>4

(* The block of a cell is the last one of the file that ends with it, and  *)
(* the next one after those before the cell if it is the first of a block. *)
LEMMA CellBlock ==
    ASSUME NEW c \in Nat
    PROVE  /\ InBlocks(c + 1) = c \div CELLS + 1
           /\ c % CELLS = 0 => InBlocks(c) = c \div CELLS
           /\ c % CELLS # 0 => InBlocks(c) = c \div CELLS + 1
<1> DEFINE q == c \div CELLS
           r == c % CELLS
<1>0. CELLS \in Nat \ {0}
  BY FilesAssumption
<1>1. q \in Nat /\ r \in 0 .. CELLS - 1 /\ c = CELLS * q + r
  <2>1. q \in Nat /\ r \in Places /\ c = CELLS * q + r
    BY CellPlace
  <2> HIDE DEF q, r
  <2> QED BY <2>1 DEF Places
<1> HIDE DEF q, r
<1>2. /\ CELLS * q = q * CELLS /\ q * CELLS \in Nat
      /\ (q + 1) * CELLS = q * CELLS + CELLS /\ q + 1 \in Nat
  BY <1>0, <1>1
<1>3. ASSUME NEW n \in Nat, q * CELLS < n PROVE InBlocks(n) > q
  <2>1. InBlocks(n) \in Nat /\ n <= InBlocks(n) * CELLS
    BY BlocksHold
  <2>2. CASE InBlocks(n) <= q
    <3>1. InBlocks(n) * CELLS + 0 * CELLS <= q * CELLS
      BY <1>0, <1>1, <2>1, <2>2, Product
    <3>2. InBlocks(n) * CELLS \in Nat /\ 0 * CELLS = 0
      BY <1>0, <2>1
    <3> QED BY <1>2, <1>3, <2>1, <3>1, <3>2
  <2> QED BY <1>1, <2>1, <2>2
<1>4. ASSUME NEW n \in Nat, n <= (q + 1) * CELLS PROVE InBlocks(n) \in Nat /\ InBlocks(n) <= q + 1
  BY <1>2, <1>4, BlocksHold
<1>5. ASSUME NEW n \in Nat, n = q * CELLS PROVE InBlocks(n) = q
  <2>1. InBlocks(n) \in Nat /\ InBlocks(n) <= q /\ n <= InBlocks(n) * CELLS
    BY <1>1, <1>5, BlocksHold
  <2>2. CASE InBlocks(n) < q
    <3>1. InBlocks(n) * CELLS + 1 * CELLS <= q * CELLS
      BY <1>0, <1>1, <2>1, <2>2, Product
    <3>2. InBlocks(n) * CELLS \in Nat /\ 1 * CELLS = CELLS
      BY <1>0, <2>1
    <3> QED BY <1>0, <1>2, <1>5, <2>1, <3>1, <3>2
  <2> QED BY <1>1, <2>1, <2>2
<1>6. InBlocks(c + 1) = q + 1
  <2>1. c + 1 \in Nat /\ q * CELLS < c + 1 /\ c + 1 <= (q + 1) * CELLS
    BY <1>0, <1>1, <1>2
  <2> QED BY <1>1, <1>3, <1>4, <2>1
<1>7. r = 0 => InBlocks(c) = q
  BY <1>1, <1>2, <1>5
<1>8. r # 0 => InBlocks(c) = q + 1
  <2>1. r # 0 => q * CELLS < c
    BY <1>1, <1>2
  <2>2. c <= (q + 1) * CELLS
    BY <1>0, <1>1, <1>2
  <2> QED BY <1>1, <1>3, <1>4, <2>1, <2>2
<1> QED BY <1>6, <1>7, <1>8 DEF q, r

(* Two cells of a file are in two blocks or at two places of one.          *)
LEMMA CellsDiffer ==
    ASSUME NEW c \in Nat, NEW d \in Nat, c \div CELLS = d \div CELLS, c % CELLS = d % CELLS
    PROVE  c = d
<1> DEFINE q == c \div CELLS
           r == c % CELLS
<1>1. c = CELLS * q + r
  BY CellPlace
<1>2. d = CELLS * (d \div CELLS) + (d % CELLS)
  BY CellPlace
<1>3. d \div CELLS = q /\ d % CELLS = r
  OBVIOUS
<1> HIDE DEF q, r
<1> QED BY <1>1, <1>2, <1>3

(* A cell below n lies in one of the blocks of n cells.                    *)
LEMMA CellIsIn ==
    ASSUME NEW n \in Nat, NEW c \in Nat, c < n
    PROVE  c \div CELLS < InBlocks(n)
<1>1. InBlocks(c + 1) <= InBlocks(n)
  BY MoreBlocks
<1>2. InBlocks(n) \in Nat /\ c \div CELLS \in Nat
  BY BlocksHold, CellPlace
<1> QED BY <1>1, <1>2, CellBlock

-----------------------------------------------------------------------------
(* The types.  A cell that is taken for a pointer is one that a block has. *)
Ids == DataBlocks \cup {FS_DATA_FAILURE}
Rows == [Places -> Ids]
Tables == [0 .. POINTERS -> Ids]
Inodes == [kind : {"free", "file", "dir"}, size : Nat, block_count : 0 .. POINTERS + CELLS,
           blocks : Tables]
States == [disk : [Ids -> Rows], used : SUBSET DataBlocks, inode : [Numbers -> Inodes]]
Opened == [open : {TRUE}, inode : Numbers, read : BOOLEAN, write : BOOLEAN, cursor : Nat,
           block_index : Nat \cup {FS_DATA_FAILURE}, block_id : Ids, block : Rows,
           dirty : BOOLEAN]

(* What the assumptions say of the constants.                              *)
LEMMA Bounds ==
    /\ CELLS \in Nat /\ CELLS > 0 /\ POINTERS \in Nat /\ POINTERS > 0 /\ BLOCKS \in Nat /\ BLOCKS > 1
    /\ MaxSize \in Nat /\ Numbers \subseteq Nat
    /\ FS_INODE_TABLE_CUTOFF = POINTERS + 1 /\ FS_DATA_FAILURE = -1
    /\ FS_DATA_FAILURE \notin DataBlocks /\ FS_DATA_FAILURE \in Ids /\ DataBlocks \subseteq Ids
    /\ DataBlocks \subseteq Nat
  BY FilesAssumption DEF FS_INODE_TABLE_CUTOFF, FS_DATA_FAILURE, DataBlocks, Ids

(* The fields of a state, and of an inode in it.                           *)
LEMMA StateFields ==
    ASSUME NEW s \in States
    PROVE  /\ s.disk \in [Ids -> Rows] /\ s.used \subseteq DataBlocks
           /\ s.inode \in [Numbers -> Inodes]
           /\ s = [disk |-> s.disk, used |-> s.used, inode |-> s.inode]
  BY DEF States

LEMMA InodeFields ==
    ASSUME NEW s \in States, NEW i \in Numbers
    PROVE  /\ s.inode[i] \in Inodes
           /\ s.inode[i].kind \in {"free", "file", "dir"} /\ s.inode[i].size \in Nat
           /\ s.inode[i].block_count \in Nat /\ s.inode[i].block_count <= POINTERS + CELLS
           /\ s.inode[i].blocks \in Tables
<1>1. s.inode[i] \in Inodes
  BY StateFields
<1> QED BY <1>1, Bounds DEF Inodes

(* The block of an index, of those the table can have.                     *)
LEMMA GetBlock ==
    ASSUME NEW s \in States, NEW i \in Numbers, NEW index \in Nat
    PROVE  /\ get_block(s, i, index) \in Ids
           /\ index >= s.inode[i].block_count => get_block(s, i, index) = FS_DATA_FAILURE
           /\ index < s.inode[i].block_count /\ index <= POINTERS
                 => get_block(s, i, index) = s.inode[i].blocks[index]
<1> DEFINE n == s.inode[i].block_count
           table == s.inode[i].blocks
           found == get_block(s, i, index)
<1>1. n \in Nat /\ n <= POINTERS + CELLS /\ table \in [0 .. POINTERS -> Ids]
  BY InodeFields DEF Tables
<1>2. index >= n => found = FS_DATA_FAILURE
  BY <1>1, Bounds DEF get_block
<1>3. index < n /\ index <= POINTERS => found = table[index]
  BY <1>1, Bounds DEF get_block
<1>4. index < n /\ index > POINTERS => found = s.disk[table[POINTERS]][index - POINTERS]
  BY <1>1, Bounds DEF get_block
<1> HIDE DEF n, table, found
<1>5. index < n /\ index <= POINTERS => found \in Ids
  BY <1>1, <1>3, Bounds
<1>6. index < n /\ index > POINTERS => found \in Ids
  <2>1. SUFFICES ASSUME index < n, index > POINTERS PROVE found \in Ids
    OBVIOUS
  <2>2. index - POINTERS \in Places /\ POINTERS \in 0 .. POINTERS
    BY <1>1, <2>1, Bounds DEF Places
  <2>3. table[POINTERS] \in Ids
    BY <1>1, <2>2
  <2>4. s.disk[table[POINTERS]] \in [Places -> Ids]
    BY <2>3, StateFields DEF Rows
  <2>5. s.disk[table[POINTERS]][index - POINTERS] \in Ids
    BY <2>2, <2>4
  <2> QED BY <1>4, <2>1, <2>5
<1>7. found \in Ids
  BY <1>1, <1>2, <1>5, <1>6, Bounds
<1> QED BY <1>2, <1>3, <1>7 DEF n, table, found

(* t is s with block at index of the table of i, which may be in the block *)
(* that is taken for the first indirect table.                             *)
Pointed(s, i, index, block, t) ==
    /\ \A j \in Numbers : j # i => t.inode[j] = s.inode[j]
    /\ t.inode[i].kind = s.inode[i].kind /\ t.inode[i].size = s.inode[i].size
    /\ t.inode[i].block_count = s.inode[i].block_count
    /\ index <= POINTERS =>
          /\ t.disk = s.disk /\ t.inode[i].blocks[index] = block
          /\ \A k \in 0 .. POINTERS : k # index => t.inode[i].blocks[k] = s.inode[i].blocks[k]
    /\ index > POINTERS =>
          /\ t.inode[i].blocks = s.inode[i].blocks
          /\ \A b \in Ids : b # s.inode[i].blocks[POINTERS] => t.disk[b] = s.disk[b]

(* set_block points the table of i to the block.                           *)
LEMMA SetBlock ==
    ASSUME NEW s \in States, NEW i \in Numbers, NEW index \in Nat, index < POINTERS + CELLS,
           NEW block \in DataBlocks
    PROVE  LET t == set_block(s, i, index, block)
           IN  t \in States /\ t.used = s.used /\ Pointed(s, i, index, block, t)
<1> DEFINE t == set_block(s, i, index, block)
           table == s.inode[i].blocks
           home == table[POINTERS]
<1>1. /\ s.inode[i] \in Inodes /\ table \in [0 .. POINTERS -> Ids] /\ s.inode \in [Numbers -> Inodes]
      /\ s.disk \in [Ids -> Rows] /\ s.used \subseteq DataBlocks
  BY InodeFields, StateFields DEF Tables
<1>2. block # FS_DATA_FAILURE /\ block \in Ids
  BY Bounds
<1>3. CASE index <= POINTERS
  <2> DEFINE new == [table EXCEPT ![index] = block]
             node == [s.inode[i] EXCEPT !.blocks = new]
  <2>1. t = [s EXCEPT !.inode[i].blocks[index] = block]
    BY <1>2, <1>3, Bounds DEF set_block
  <2>2. index \in 0 .. POINTERS
    BY <1>3, Bounds
  <2>3. /\ new \in Tables /\ new[index] = block
        /\ \A k \in 0 .. POINTERS : k # index => new[k] = table[k]
    BY <1>1, <1>2, <2>2 DEF Tables
  <2>4. t = [s EXCEPT !.inode = [s.inode EXCEPT ![i] = node]]
    BY <2>1
  <2> HIDE DEF new, t
  <2>5. /\ node \in Inodes /\ node.kind = s.inode[i].kind /\ node.size = s.inode[i].size
        /\ node.block_count = s.inode[i].block_count /\ node.blocks = new
    BY <1>1, <2>3 DEF Inodes
  <2> HIDE DEF node
  <2>6. /\ [s.inode EXCEPT ![i] = node] \in [Numbers -> Inodes]
        /\ [s.inode EXCEPT ![i] = node][i] = node
        /\ \A j \in Numbers : j # i => [s.inode EXCEPT ![i] = node][j] = s.inode[j]
    BY <1>1, <2>5
  <2>7. /\ t.disk = s.disk /\ t.used = s.used /\ t.inode = [s.inode EXCEPT ![i] = node]
        /\ t \in States
    BY <1>1, <2>4, <2>6 DEF States
  <2> QED BY <1>3, <2>3, <2>5, <2>6, <2>7, Bounds DEF t, Pointed
<1>4. CASE index > POINTERS
  <2> DEFINE row == [s.disk[home] EXCEPT ![index - POINTERS] = block]
  <2>1. t = [s EXCEPT !.disk[home][index - POINTERS] = block]
    BY <1>2, <1>4, Bounds DEF set_block
  <2>2. index - POINTERS \in Places /\ POINTERS \in 0 .. POINTERS
    BY <1>4, Bounds DEF Places
  <2>3. home \in Ids
    BY <1>1, <2>2
  <2>4. t = [s EXCEPT !.disk = [s.disk EXCEPT ![home] = row]]
    BY <2>1
  <2> HIDE DEF home, t
  <2>5. row \in Rows
    <3>1. s.disk[home] \in [Places -> Ids]
      BY <1>1, <2>3 DEF Rows
    <3> QED BY <1>2, <2>2, <3>1 DEF Rows
  <2> HIDE DEF row
  <2>6. /\ [s.disk EXCEPT ![home] = row] \in [Ids -> Rows]
        /\ \A b \in Ids : b # home => [s.disk EXCEPT ![home] = row][b] = s.disk[b]
    BY <1>1, <2>3, <2>5
  <2>7. /\ t.inode = s.inode /\ t.used = s.used /\ t.disk = [s.disk EXCEPT ![home] = row]
        /\ t \in States
    BY <1>1, <2>4, <2>6 DEF States
  <2> QED BY <1>4, <2>6, <2>7, Bounds DEF t, home, Pointed
<1> QED BY <1>3, <1>4, Bounds

-----------------------------------------------------------------------------
(* Of a set of numbers, the least one.                                     *)
LEMMA MinIsIn ==
    ASSUME NEW T, T \subseteq Int, NEW low \in Int, \A y \in T : low <= y, T # {}
    PROVE  Min(T) \in T /\ \A y \in T : Min(T) <= y
<1> DEFINE U == {y - low : y \in T}
<1>1. U \subseteq Nat /\ U # {}
  <2>1. \A y \in T : y - low \in Nat
    OBVIOUS
  <2> QED BY <2>1
<1> HIDE DEF U
<1>2. PICK u \in U : \A v \in U : u <= v
  BY <1>1, LeastElement
<1>3. PICK x \in T : u = x - low
  BY DEF U
<1>4. ASSUME NEW y \in T PROVE x <= y
  <2>1. y - low \in U
    BY DEF U
  <2> QED BY <1>2, <1>3, <2>1
<1> QED BY <1>4 DEF Min

(* The block that is found was free, and is marked.                        *)
LEMMA DataAlloc ==
    ASSUME NEW s \in States
    PROVE  LET a == data_alloc_block(s)
           IN  /\ a.block = FS_DATA_FAILURE => a.s = s
               /\ a.block # FS_DATA_FAILURE =>
                     /\ a.block \in DataBlocks \ s.used
                     /\ a.s \in States /\ a.s.used = s.used \cup {a.block}
                     /\ a.s.disk = s.disk /\ a.s.inode = s.inode
<1> DEFINE a == data_alloc_block(s)
           b == Min(DataBlocks \ s.used)
<1>1. CASE s.used = DataBlocks
  BY <1>1 DEF data_alloc_block
<1>2. CASE s.used # DataBlocks
  <2>1. a = [s |-> [s EXCEPT !.used = @ \cup {b}], block |-> b]
    BY <1>2 DEF data_alloc_block
  <2>2. b \in DataBlocks \ s.used
    <3>1. DataBlocks \ s.used # {}
      BY <1>2, StateFields
    <3>2. DataBlocks \subseteq Nat
      BY Bounds
    <3>3. DataBlocks \ s.used \subseteq Int /\ \A y \in DataBlocks \ s.used : 0 <= y
      <4>1. \A y \in DataBlocks : y \in Int /\ 0 <= y
        BY <3>2
      <4> QED BY <4>1, Zenon
    <3> QED BY <3>1, <3>3, MinIsIn
  <2> HIDE DEF a, b
  <2>3. a.block = b /\ a.s = [s EXCEPT !.used = s.used \cup {b}]
    BY <2>1
  <2>4. a.s.disk = s.disk /\ a.s.inode = s.inode /\ a.s.used = s.used \cup {b}
    BY <2>3, StateFields
  <2>5. a.s \in States
    BY <2>2, <2>3, StateFields DEF States
  <2> QED BY <2>2, <2>3, <2>4, <2>5, Bounds DEF a
<1> QED BY <1>1, <1>2

(* One more block for inode i, at index of its table.                      *)
Results == [s : States, ok : BOOLEAN]

TakeOne(i, index, x) ==
    IF ~ x.ok THEN x
    ELSE LET a == data_alloc_block(x.s)
         IN  IF a.block = FS_DATA_FAILURE THEN [s |-> a.s, ok |-> FALSE]
             ELSE [s |-> set_block(a.s, i, index, a.block), ok |-> TRUE]

(* The same with a block that was free.                                    *)
Placed(s, i, index, block, t) ==
    block \in DataBlocks \ s.used /\ t.used = s.used \cup {block} /\ Pointed(s, i, index, block, t)

(* Taking a block gives one that was free, or fails and changes nothing.   *)
LEMMA TakingOne ==
    ASSUME NEW x \in Results, NEW i \in Numbers, NEW index \in Nat, index < POINTERS + CELLS
    PROVE  LET y == TakeOne(i, index, x)
           IN  /\ y \in Results
               /\ ~ x.ok => y = x
               /\ ~ y.ok => y.s = x.s
               /\ y.ok => x.ok /\ \E block \in DataBlocks : Placed(x.s, i, index, block, y.s)
<1> DEFINE y == TakeOne(i, index, x)
           a == data_alloc_block(x.s)
<1>1. x.s \in States /\ x.ok \in BOOLEAN
  BY DEF Results
<1>2. CASE ~ x.ok
  BY <1>2 DEF TakeOne
<1>3. CASE x.ok /\ a.block = FS_DATA_FAILURE
  <2>1. a.s = x.s
    BY <1>1, <1>3, DataAlloc
  <2>2. y = [s |-> a.s, ok |-> FALSE]
    BY <1>3 DEF TakeOne
  <2> HIDE DEF y, a
  <2> QED BY <1>1, <1>3, <2>1, <2>2 DEF Results, y
<1>4. CASE x.ok /\ a.block # FS_DATA_FAILURE
  <2> DEFINE t == set_block(a.s, i, index, a.block)
             block == a.block
  <2>1. /\ block \in DataBlocks \ x.s.used /\ a.s \in States
        /\ a.s.used = x.s.used \cup {block} /\ a.s.disk = x.s.disk /\ a.s.inode = x.s.inode
    BY <1>1, <1>4, DataAlloc
  <2>2. y = [s |-> t, ok |-> TRUE]
    BY <1>4 DEF TakeOne
  <2> DEFINE u == a.s
  <2>3. t = set_block(u, i, index, block)
    OBVIOUS
  <2>4. /\ block \in DataBlocks \ x.s.used /\ u \in States
        /\ u.used = x.s.used \cup {block} /\ u.disk = x.s.disk /\ u.inode = x.s.inode
    BY <2>1
  <2> HIDE DEF y, t, u, block
  <2>5. t \in States /\ t.used = u.used /\ Pointed(u, i, index, block, t)
    <3>1. block \in DataBlocks
      BY <2>4
    <3> QED BY <2>3, <2>4, <3>1, SetBlock
  <2>5a. t \in States /\ Placed(x.s, i, index, block, t)
    BY <2>4, <2>5 DEF Placed, Pointed
  <2>6. y \in Results /\ y.ok /\ y.s = t
    BY <2>2, <2>5a DEF Results
  <2> QED BY <1>4, <2>4, <2>5a, <2>6 DEF y
<1> QED BY <1>1, <1>2, <1>3, <1>4

(* The state after each block of alloc_blocks.                             *)
LEMMA AllocSteps ==
    ASSUME NEW s \in States, NEW i \in Numbers, NEW count \in Nat,
           s.inode[i].block_count + count <= POINTERS + CELLS
    PROVE  \E t \in [0 .. count -> Results] :
              /\ t[0] = [s |-> s, ok |-> TRUE]
              /\ \A k \in 0 .. count - 1 : t[k + 1] = TakeOne(i, s.inode[i].block_count + k, t[k])
              /\ alloc_blocks(s, i, count) =
                    IF t[count].ok
                    THEN [s  |-> [t[count].s EXCEPT !.inode[i].block_count = @ + count],
                          ok |-> TRUE]
                    ELSE t[count]
<1> DEFINE n == s.inode[i].block_count
           start == [s |-> s, ok |-> TRUE]
           Good(t) == t = [k \in 0 .. count |->
                IF k = 0 THEN start
                ELSE IF ~ t[k - 1].ok THEN t[k - 1]
                ELSE LET a == data_alloc_block(t[k - 1].s)
                     IN  IF a.block = FS_DATA_FAILURE THEN [s |-> a.s, ok |-> FALSE]
                         ELSE [s |-> set_block(a.s, i, n + k - 1, a.block), ok |-> TRUE]]
           Steps(t) == t = [k \in 0 .. count |->
                               IF k = 0 THEN start ELSE TakeOne(i, n + k - 1, t[k - 1])]
           F == [k \in Nat |-> [x \in Results |-> IF k < count THEN TakeOne(i, n + k, x) ELSE x]]
           c == CHOOSE t : Good(t)
<1>1. alloc_blocks(s, i, count) =
         IF c[count].ok THEN [s  |-> [c[count].s EXCEPT !.inode[i].block_count = @ + count],
                              ok |-> TRUE]
         ELSE c[count]
  BY DEF alloc_blocks
<1>2. \A t : Steps(t) <=> Good(t)
  BY DEF TakeOne
<1> HIDE DEF Good, c
<1>3. n \in Nat /\ start \in Results
  BY InodeFields DEF Results
<1> HIDE DEF n, start
<1>4. n + count <= POINTERS + CELLS
  BY DEF n
<1>5. F \in [Nat -> [Results -> Results]]
  <2>1. ASSUME NEW k \in Nat, NEW x \in Results, k < count PROVE TakeOne(i, n + k, x) \in Results
    <3>1. n + k \in Nat /\ n + k < POINTERS + CELLS
      BY <1>3, <1>4, <2>1, Bounds
    <3> QED BY <3>1, TakingOne
  <2> QED BY <2>1
<1>6. PICK t \in [0 .. count -> Results] : Iterates(t, start, F, count)
  <2> HIDE DEF F
  <2> QED BY <1>3, <1>5, RecursionUpTo
<1>7. \A k \in 0 .. count : k # 0 => F[k - 1][t[k - 1]] = TakeOne(i, n + k - 1, t[k - 1])
  <2>1. SUFFICES ASSUME NEW k \in 0 .. count, k # 0
                 PROVE  F[k - 1][t[k - 1]] = TakeOne(i, n + k - 1, t[k - 1])
    OBVIOUS
  <2>2. k - 1 \in Nat /\ k - 1 < count /\ t[k - 1] \in Results /\ n + (k - 1) = n + k - 1
    BY <1>3, <2>1
  <2> QED BY <2>2
<1> HIDE DEF F
<1>8. \A k \in 0 .. count : t[k] = IF k = 0 THEN start ELSE TakeOne(i, n + k - 1, t[k - 1])
  BY <1>6, <1>7 DEF Iterates
<1>9. Steps(t)
  <2>1. t = [k \in 0 .. count |-> t[k]]
    OBVIOUS
  <2> QED BY <1>8, <2>1
<1>10. Steps(c)
  <2>1. Good(t)
    BY <1>2, <1>9
  <2>2. Good(c)
    BY <2>1 DEF c
  <2> QED BY <1>2, <2>2
<1>11. /\ c = [k \in 0 .. count |-> c[k]]
       /\ \A k \in 0 .. count : c[k] = IF k = 0 THEN start ELSE TakeOne(i, n + k - 1, c[k - 1])
  BY <1>10
<1> HIDE DEF Steps
<1>12. \A k \in 0 .. count - 1 : c[k + 1] = TakeOne(i, n + k, c[k])
  <2>1. SUFFICES ASSUME NEW k \in 0 .. count - 1 PROVE c[k + 1] = TakeOne(i, n + k, c[k])
    OBVIOUS
  <2>2. k + 1 \in 0 .. count /\ k + 1 # 0 /\ (k + 1) - 1 = k /\ n + (k + 1) - 1 = n + k
    BY <1>3
  <2> QED BY <1>11, <2>2
<1>12a. c[0] = start
  <2>1. 0 \in 0 .. count
    OBVIOUS
  <2> QED BY <1>11, <2>1
<1> DEFINE T == {k \in 0 .. count : c[k] \in Results}
<1>13. 0 \in T
  BY <1>3, <1>12a
<1>14. ASSUME NEW k \in 0 .. count - 1, k \in T PROVE k + 1 \in T
  <2>1. k + 1 \in 0 .. count /\ n + k \in Nat /\ n + k < POINTERS + CELLS
    BY <1>3, <1>4, Bounds
  <2> QED BY <1>12, <1>14, <2>1, TakingOne
<1>15. \A k \in 0 .. count : c[k] \in Results
  <2>1. \A k \in 0 .. count : k \in T
    <3> HIDE DEF T
    <3> QED BY <1>13, <1>14, UpTo
  <2> QED BY <2>1
<1>16. c \in [0 .. count -> Results] /\ c[0] = start
  BY <1>11, <1>12a, <1>15
<1> QED BY <1>1, <1>12, <1>16 DEF n, start

(* The entries inode i has in its table, and the blocks they name.         *)
Has(s, i) == {k \in 0 .. POINTERS : k < s.inode[i].block_count}
OwnRows(s, i) == {s.inode[i].blocks[k] : k \in Has(s, i)}

(* Every block of a table is marked, and no other entry names it.          *)
Apart(s) ==
    \A i, j \in Numbers : \A k \in Has(s, i), l \in Has(s, j) :
        /\ s.inode[i].blocks[k] \in s.used
        /\ s.inode[i].blocks[k] = s.inode[j].blocks[l] => i = j /\ k = l

(* What k blocks more leave as it was: everything that has a block, other  *)
(* than the one taken for the first indirect table of i, which is its own. *)
Kept(s, i, t) ==
    /\ t \in States /\ s.used \subseteq t.used
    /\ \A j \in Numbers : j # i => t.inode[j] = s.inode[j]
    /\ t.inode[i].kind = s.inode[i].kind /\ t.inode[i].size = s.inode[i].size
    /\ \A m \in 0 .. POINTERS :
          m < s.inode[i].block_count => t.inode[i].blocks[m] = s.inode[i].blocks[m]
    /\ \A b \in s.used : b \notin OwnRows(s, i) => t.disk[b] = s.disk[b]

Fresh(s, i, k, t) ==
    \A m \in 0 .. POINTERS : \A l \in 0 .. POINTERS :
        s.inode[i].block_count <= m /\ m < s.inode[i].block_count + k =>
            /\ t.inode[i].blocks[m] \in t.used /\ t.inode[i].blocks[m] \notin s.used
            /\ s.inode[i].block_count <= l /\ l < s.inode[i].block_count + k
               /\ t.inode[i].blocks[m] = t.inode[i].blocks[l] => m = l

Grown(s, i, k, x) ==
    /\ x \in Results /\ Kept(s, i, x.s)
    /\ x.s.inode[i].block_count = s.inode[i].block_count
    /\ s.inode[i].block_count + k <= POINTERS + 1 => x.s.disk = s.disk
    /\ x.ok => Fresh(s, i, k, x.s)
    /\ k = 0 \/ (~ x.ok /\ k = 1) => x.s = s

(* With k blocks more, one more leaves everything as it was as well.       *)
LEMMA GrownByOne ==
    ASSUME NEW s \in States, NEW i \in Numbers, NEW k \in Nat, NEW x, Grown(s, i, k, x),
           s.inode[i].block_count + k < POINTERS + CELLS
    PROVE  Grown(s, i, k + 1, TakeOne(i, s.inode[i].block_count + k, x))
<1> DEFINE n == s.inode[i].block_count
           y == TakeOne(i, n + k, x)
<1>1. n \in Nat /\ n + k \in Nat /\ n + k < POINTERS + CELLS
  BY InodeFields
<1>2. /\ y \in Results /\ (~ x.ok => y = x) /\ (~ y.ok => y.s = x.s)
      /\ y.ok => x.ok /\ \E block \in DataBlocks : Placed(x.s, i, n + k, block, y.s)
  <2> DEFINE index == n + k
  <2>1. index \in Nat /\ index < POINTERS + CELLS /\ x \in Results
    BY <1>1 DEF Grown
  <2>2. y = TakeOne(i, index, x)
    OBVIOUS
  <2> HIDE DEF index, y
  <2>3. /\ y \in Results /\ (~ x.ok => y = x) /\ (~ y.ok => y.s = x.s)
        /\ y.ok => x.ok /\ \E block \in DataBlocks : Placed(x.s, i, index, block, y.s)
    BY <2>1, <2>2, TakingOne
  <2> QED BY <2>3 DEF index
<1> SUFFICES Grown(s, i, k + 1, y)
  OBVIOUS
<1> HIDE DEF y
<1>3. CASE ~ y.ok
  <2>1. y.s = x.s
    BY <1>2, <1>3
  <2>2. n + (k + 1) <= POINTERS + 1 => n + k <= POINTERS + 1
    BY <1>1, Bounds
  <2>3. k + 1 = 1 => k = 0
    OBVIOUS
  <2>4. ~ x.ok \/ x.ok
    OBVIOUS
  <2>5. k + 1 = 0 \/ (~ y.ok /\ k + 1 = 1) => k = 0
    OBVIOUS
  <2>6. k + 1 = 0 \/ (~ y.ok /\ k + 1 = 1) => y.s = s
    BY <2>1, <2>5 DEF Grown
  <2>7. Kept(s, i, y.s) /\ y.s.inode[i].block_count = n
    BY <2>1 DEF Grown
  <2>8. n + (k + 1) <= POINTERS + 1 => y.s.disk = s.disk
    BY <2>1, <2>2 DEF Grown
  <2> HIDE DEF n
  <2> QED BY <1>2, <1>3, <2>6, <2>7, <2>8 DEF Grown, n
<1>4. CASE y.ok
  <2>1. PICK block \in DataBlocks : Placed(x.s, i, n + k, block, y.s)
    BY <1>2, <1>4
  <2> DEFINE u == x.s
             t == y.s
             index == n + k
  <2>2. /\ u \in States /\ t \in States /\ Kept(s, i, u) /\ Fresh(s, i, k, u)
        /\ u.inode[i].block_count = n /\ (index <= POINTERS + 1 => u.disk = s.disk)
    BY <1>2, <1>4 DEF Grown, Results
  <2>3. /\ block \notin u.used /\ t.used = u.used \cup {block} /\ index \in Nat
        /\ Pointed(u, i, index, block, t)
    BY <1>1, <2>1 DEF Placed
  <2> HIDE DEF u, t, index
  <2>4. \A m \in 0 .. POINTERS : m < n => t.inode[i].blocks[m] = s.inode[i].blocks[m]
    <3>1. SUFFICES ASSUME NEW m \in 0 .. POINTERS, m < n
                   PROVE  t.inode[i].blocks[m] = s.inode[i].blocks[m]
      OBVIOUS
    <3>2. u.inode[i].blocks[m] = s.inode[i].blocks[m] /\ m # index
      BY <1>1, <2>2, <3>1 DEF Kept, index
    <3> QED BY <2>3, <3>2, Bounds DEF Pointed
  <2>5. \A b \in s.used : b \notin OwnRows(s, i) => t.disk[b] = s.disk[b]
    <3>1. SUFFICES ASSUME NEW b \in s.used, b \notin OwnRows(s, i) PROVE t.disk[b] = s.disk[b]
      OBVIOUS
    <3>2. u.disk[b] = s.disk[b] /\ b \in u.used
      BY <2>2, <3>1 DEF Kept
    <3>3. CASE index <= POINTERS
      BY <2>3, <3>2, <3>3 DEF Pointed
    <3>4. CASE index > POINTERS
      <4>1. POINTERS \in 0 .. POINTERS
        BY Bounds
      <4>2. b # u.inode[i].blocks[POINTERS]
        <5>1. CASE POINTERS < n
          <6>1. s.inode[i].blocks[POINTERS] \in OwnRows(s, i)
            BY <4>1, <5>1 DEF OwnRows, Has
          <6>2. u.inode[i].blocks[POINTERS] = s.inode[i].blocks[POINTERS]
            BY <2>2, <4>1, <5>1 DEF Kept
          <6> QED BY <3>1, <6>1, <6>2
        <5>2. CASE ~ (POINTERS < n)
          <6>1. n <= POINTERS /\ POINTERS < n + k
            BY <1>1, <3>4, <5>2, Bounds DEF index
          <6> HIDE DEF n
          <6>2. u.inode[i].blocks[POINTERS] \notin s.used
            BY <2>2, <4>1, <6>1 DEF Fresh, n
          <6> QED BY <3>1, <6>2
        <5> QED BY <5>1, <5>2
      <4>3. b \in Ids
        BY Bounds, StateFields
      <4>4. t.disk[b] = u.disk[b]
        BY <2>3, <3>4, <4>2, <4>3 DEF Pointed
      <4> QED BY <3>2, <4>4
    <3> QED BY <2>3, <3>3, <3>4, Bounds
  <2>6. Kept(s, i, t) /\ t.inode[i].block_count = n
    <3>1. /\ s.used \subseteq t.used /\ \A j \in Numbers : j # i => t.inode[j] = s.inode[j]
          /\ t.inode[i].kind = s.inode[i].kind /\ t.inode[i].size = s.inode[i].size
          /\ t.inode[i].block_count = n
      BY <2>2, <2>3 DEF Kept, Pointed
    <3> QED BY <2>2, <2>4, <2>5, <3>1 DEF Kept
  <2>7. n + (k + 1) <= POINTERS + 1 => t.disk = s.disk
    <3>1. n + (k + 1) <= POINTERS + 1 => index <= POINTERS /\ index <= POINTERS + 1
      BY <1>1, Bounds DEF index
    <3> QED BY <2>2, <2>3, <3>1 DEF Pointed
  <2>8. Fresh(s, i, k + 1, t)
    <3>1. \A m \in 0 .. POINTERS : n <= m /\ m < n + (k + 1) =>
             \/ m = index /\ t.inode[i].blocks[m] = block
             \/ m # index /\ n <= m /\ m < n + k /\ t.inode[i].blocks[m] = u.inode[i].blocks[m]
      <4>1. SUFFICES ASSUME NEW m \in 0 .. POINTERS, n <= m, m < n + (k + 1)
                     PROVE \/ m = index /\ t.inode[i].blocks[m] = block
                           \/ m # index /\ n <= m /\ m < n + k
                              /\ t.inode[i].blocks[m] = u.inode[i].blocks[m]
        OBVIOUS
      <4>2. CASE m = index
        <5>1. index <= POINTERS
          BY <4>2, Bounds
        <5> QED BY <2>3, <4>2, <5>1 DEF Pointed
      <4>3. CASE m # index
        <5>1. m < n + k /\ n <= m
          BY <1>1, <4>1, <4>3, Bounds DEF index
        <5>2. t.inode[i].blocks[m] = u.inode[i].blocks[m]
          <6>1. index <= POINTERS \/ index > POINTERS
            BY <2>3, Bounds
          <6> QED BY <2>3, <4>3, <6>1 DEF Pointed
        <5> QED BY <4>3, <5>1, <5>2
      <4> QED BY <4>2, <4>3
    <3>2. block \in t.used /\ block \notin s.used
      BY <2>2, <2>3 DEF Kept
    <3>3. u.used \subseteq t.used
      BY <2>3
    <3> HIDE DEF n
    <3>4. \A m \in 0 .. POINTERS : \A l \in 0 .. POINTERS : n <= m /\ m < n + k =>
             /\ u.inode[i].blocks[m] \in u.used /\ u.inode[i].blocks[m] \notin s.used
             /\ n <= l /\ l < n + k /\ u.inode[i].blocks[m] = u.inode[i].blocks[l] => m = l
      BY <2>2 DEF Fresh, n
    <3>5. ASSUME NEW m \in 0 .. POINTERS, NEW l \in 0 .. POINTERS, n <= m, m < n + (k + 1)
          PROVE  /\ t.inode[i].blocks[m] \in t.used /\ t.inode[i].blocks[m] \notin s.used
                 /\ n <= l /\ l < n + (k + 1) /\ t.inode[i].blocks[m] = t.inode[i].blocks[l] => m = l
      <4> DEFINE tm == t.inode[i].blocks[m]
                 tl == t.inode[i].blocks[l]
                 um == u.inode[i].blocks[m]
                 ul == u.inode[i].blocks[l]
      <4>1. \/ m = index /\ tm = block
            \/ m # index /\ n <= m /\ m < n + k /\ tm = um
        BY <3>1, <3>5
      <4>2. n <= l /\ l < n + (k + 1) =>
               \/ l = index /\ tl = block
               \/ l # index /\ n <= l /\ l < n + k /\ tl = ul
        BY <3>1
      <4>3. n <= m /\ m < n + k =>
               /\ um \in u.used /\ um \notin s.used
               /\ n <= l /\ l < n + k /\ um = ul => m = l
        BY <3>4
      <4>4. n <= l /\ l < n + k => ul \in u.used
        BY <3>4
      <4> HIDE DEF tm, tl, um, ul
      <4>5. /\ tm \in t.used /\ tm \notin s.used
            /\ n <= l /\ l < n + (k + 1) /\ tm = tl => m = l
        BY <2>3, <3>2, <3>3, <4>1, <4>2, <4>3, <4>4
      <4> QED BY <4>5 DEF tm, tl
    <3> QED BY <3>5 DEF Fresh, n
  <2>9. ~ (k + 1 = 0) /\ y.s = t
    BY DEF t
  <2>10. ~ (k + 1 = 0 \/ (~ y.ok /\ k + 1 = 1))
    BY <1>4
  <2>11. Kept(s, i, y.s) /\ Fresh(s, i, k + 1, y.s) /\ y.s.inode[i].block_count = n
         /\ (n + (k + 1) <= POINTERS + 1 => y.s.disk = s.disk)
    BY <2>6, <2>7, <2>8, <2>9
  <2> HIDE DEF n
  <2> QED BY <1>2, <2>10, <2>11 DEF Grown, n
<1> QED BY <1>3, <1>4

(* What a holds, after count more blocks for inode i, all or none counted. *)
Allocated(s, i, count, a) ==
    /\ a \in Results /\ Kept(s, i, a.s)
    /\ a.ok => a.s.inode[i].block_count = s.inode[i].block_count + count
    /\ ~ a.ok => a.s.inode[i].block_count = s.inode[i].block_count
    /\ s.inode[i].block_count + count <= POINTERS + 1 => a.s.disk = s.disk
    /\ ~ a.ok /\ count <= 1 => a.s = s
    /\ Apart(s) => Apart(a.s)

(* fs_inode_alloc_blocks keeps all blocks apart, whether it succeeds or    *)
(* fails half-way.                                                         *)
LEMMA AllocBlocks ==
    ASSUME NEW s \in States, NEW i \in Numbers, NEW count \in Nat,
           s.inode[i].block_count + count <= POINTERS + CELLS
    PROVE  Allocated(s, i, count, alloc_blocks(s, i, count))
<1> DEFINE n == s.inode[i].block_count
           a == alloc_blocks(s, i, count)
<1>1. n \in Nat /\ s.inode \in [Numbers -> Inodes]
  BY InodeFields, StateFields
<1>2. PICK t \in [0 .. count -> Results] :
         /\ t[0] = [s |-> s, ok |-> TRUE]
         /\ \A k \in 0 .. count - 1 : t[k + 1] = TakeOne(i, n + k, t[k])
         /\ a = IF t[count].ok
                THEN [s  |-> [t[count].s EXCEPT !.inode[i].block_count = @ + count], ok |-> TRUE]
                ELSE t[count]
  BY AllocSteps
<1> SUFFICES Allocated(s, i, count, a)
  OBVIOUS
<1> HIDE DEF a
<1> DEFINE T == {k \in 0 .. count : Grown(s, i, k, t[k])}
<1>3. 0 \in T
  <2> DEFINE x == t[0]
  <2>0. x = [s |-> s, ok |-> TRUE]
    BY <1>2
  <2> HIDE DEF x
  <2>1. x.s = s /\ x.ok /\ x \in Results
    BY <2>0 DEF Results
  <2>2. Kept(s, i, x.s) /\ Fresh(s, i, 0, x.s)
    BY <1>1, <2>1, Bounds DEF Kept, Fresh
  <2>3. Grown(s, i, 0, x)
    BY <2>1, <2>2 DEF Grown
  <2> QED BY <2>3 DEF x
<1>4. ASSUME NEW k \in 0 .. count - 1, k \in T PROVE k + 1 \in T
  <2>1. k \in Nat /\ k + 1 \in 0 .. count /\ n + k < POINTERS + CELLS
    BY <1>1, Bounds
  <2>2. Grown(s, i, k, t[k])
    BY <1>4
  <2>3. Grown(s, i, k + 1, TakeOne(i, n + k, t[k]))
    BY <2>1, <2>2, GrownByOne
  <2>4. t[k + 1] = TakeOne(i, n + k, t[k])
    BY <1>2
  <2> QED BY <2>1, <2>3, <2>4
<1>5. Grown(s, i, count, t[count])
  <2>1. \A k \in 0 .. count : k \in T
    <3> HIDE DEF T
    <3> QED BY <1>3, <1>4, UpTo
  <2>2. count \in 0 .. count
    OBVIOUS
  <2> QED BY <2>1, <2>2
<1> DEFINE x == t[count]
           u == x.s
<1>6. /\ x \in Results /\ u \in States /\ Kept(s, i, u) /\ u.inode[i].block_count = n
      /\ (n + count <= POINTERS + 1 => u.disk = s.disk) /\ (x.ok => Fresh(s, i, count, u))
      /\ (count = 0 \/ (~ x.ok /\ count = 1) => u = s)
  BY <1>5 DEF Grown, Results
<1>7. a = IF x.ok THEN [s |-> [u EXCEPT !.inode[i].block_count = @ + count], ok |-> TRUE] ELSE x
  BY <1>2
<1> HIDE DEF x, n
<1>8. n + count \in 0 .. POINTERS + CELLS
  BY <1>1, Bounds DEF n
<1>9. CASE ~ x.ok
  <2>1. a = x /\ a.s = u /\ ~ a.ok
    BY <1>7, <1>9
  <2>2. count <= 1 => count = 0 \/ count = 1
    OBVIOUS
  <2>3. Apart(s) => Apart(u)
    <3>1. SUFFICES ASSUME Apart(s) PROVE Apart(u)
      OBVIOUS
    <3>2. \A j \in Numbers : Has(u, j) = Has(s, j)
      <4>1. \A j \in Numbers : u.inode[j].block_count = s.inode[j].block_count
        BY <1>6 DEF Kept, n
      <4> QED BY <4>1 DEF Has
    <3>3. \A j \in Numbers : \A k \in Has(s, j) : u.inode[j].blocks[k] = s.inode[j].blocks[k]
      BY <1>6 DEF Kept, Has, n
    <3>4. s.used \subseteq u.used
      BY <1>6 DEF Kept
    <3> HIDE DEF u
    <3> QED BY <3>1, <3>2, <3>3, <3>4 DEF Apart
  <2>4. count <= 1 => a.s = s
    BY <1>6, <1>9, <2>1, <2>2
  <2> HIDE DEF u
  <2> QED BY <1>6, <2>1, <2>3, <2>4 DEF Allocated, n
<1>10. CASE x.ok
  <2> DEFINE v == [u EXCEPT !.inode[i].block_count = @ + count]
             node == [u.inode[i] EXCEPT !.block_count = n + count]
  <2>1. a = [s |-> v, ok |-> TRUE]
    BY <1>7, <1>10
  <2>2. v = [u EXCEPT !.inode = [u.inode EXCEPT ![i] = node]]
    BY <1>6
  <2> HIDE DEF v
  <2>3. a.s = v /\ a.ok
    BY <2>1
  <2> HIDE DEF u
  <2>4. u.inode[i] \in Inodes /\ u.inode \in [Numbers -> Inodes]
    BY <1>6, StateFields
  <2>5. /\ node \in Inodes /\ node.kind = u.inode[i].kind /\ node.size = u.inode[i].size
        /\ node.block_count = n + count /\ node.blocks = u.inode[i].blocks
    BY <1>8, <2>4 DEF Inodes
  <2> HIDE DEF node
  <2>6. /\ [u.inode EXCEPT ![i] = node] \in [Numbers -> Inodes]
        /\ [u.inode EXCEPT ![i] = node][i] = node
        /\ \A j \in Numbers : j # i => [u.inode EXCEPT ![i] = node][j] = u.inode[j]
    BY <2>4, <2>5
  <2>7. /\ v \in States /\ v.disk = u.disk /\ v.used = u.used
        /\ v.inode[i] = node /\ \A j \in Numbers : j # i => v.inode[j] = u.inode[j]
    BY <1>6, <2>2, <2>6, StateFields DEF States
  <2>8. Kept(s, i, v)
    BY <1>6, <2>5, <2>7 DEF Kept
  <2>9. a \in Results
    BY <2>1, <2>7 DEF Results
  <2>10. Apart(s) => Apart(v)
    <3>1. SUFFICES ASSUME Apart(s) PROVE Apart(v)
      OBVIOUS
    <3>2. \A j \in Numbers : j # i => Has(v, j) = Has(s, j)
      BY <2>8 DEF Has, Kept
    <3>3. \A k \in Has(v, i) : k \in Has(s, i) \/ (k \in 0 .. POINTERS /\ n <= k /\ k < n + count)
      BY <1>1, <2>5, <2>7, Bounds DEF Has, n
    <3>4. \A j \in Numbers : \A k \in Has(s, j) : v.inode[j].blocks[k] = s.inode[j].blocks[k]
      BY <2>8 DEF Kept, Has
    <3>5. s.used \subseteq v.used
      BY <2>8 DEF Kept
    <3>6. \A m \in 0 .. POINTERS : \A l \in 0 .. POINTERS : n <= m /\ m < n + count =>
             /\ v.inode[i].blocks[m] \in v.used /\ v.inode[i].blocks[m] \notin s.used
             /\ n <= l /\ l < n + count /\ v.inode[i].blocks[m] = v.inode[i].blocks[l] => m = l
      BY <1>6, <1>10, <2>5, <2>7 DEF Fresh, n
    <3> DEFINE Old(j, k) == k \in Has(s, j)
               New(j, k) == j = i /\ k \in 0 .. POINTERS /\ n <= k /\ k < n + count
    <3>7. \A j \in Numbers : \A k \in Has(v, j) : Old(j, k) \/ New(j, k)
      BY <3>2, <3>3
    <3>8. \A j \in Numbers : \A k : Old(j, k) => v.inode[j].blocks[k] \in s.used
      BY <3>1, <3>4 DEF Apart
    <3>9. \A j \in Numbers : \A k : New(j, k) =>
             v.inode[j].blocks[k] \in v.used /\ v.inode[j].blocks[k] \notin s.used
      BY <3>6
    <3>10. \A j, m \in Numbers : \A k, l : Old(j, k) /\ Old(m, l)
              /\ v.inode[j].blocks[k] = v.inode[m].blocks[l] => j = m /\ k = l
      BY <3>1, <3>4 DEF Apart
    <3>11. \A j, m \in Numbers : \A k, l : New(j, k) /\ New(m, l)
              /\ v.inode[j].blocks[k] = v.inode[m].blocks[l] => j = m /\ k = l
      BY <3>6
    <3> HIDE DEF Old, New
    <3>12. SUFFICES ASSUME NEW j \in Numbers, NEW m \in Numbers, NEW k \in Has(v, j), NEW l \in Has(v, m)
                    PROVE  /\ v.inode[j].blocks[k] \in v.used
                           /\ v.inode[j].blocks[k] = v.inode[m].blocks[l] => j = m /\ k = l
      BY DEF Apart
    <3>13. (Old(j, k) \/ New(j, k)) /\ (Old(m, l) \/ New(m, l))
      BY <3>7
    <3> QED BY <3>5, <3>8, <3>9, <3>10, <3>11, <3>13
  <2>11. /\ v.inode[i].block_count = n + count
         /\ (n + count <= POINTERS + 1 => v.disk = s.disk)
    BY <1>6, <2>5, <2>7
  <2> QED BY <2>3, <2>8, <2>9, <2>10, <2>11 DEF Allocated, n
<1> QED BY <1>6, <1>9, <1>10 DEF Results

(* Destroying an inode clears no bit and touches no block.                 *)
LEMMA Freed ==
    ASSUME NEW s \in States, NEW i \in Numbers
    PROVE  LET t == free_blocks(s, i, s.inode[i].block_count)
               d == [t EXCEPT !.inode[i] = Unused]
           IN  /\ d \in States /\ d.disk = s.disk /\ d.used = s.used
               /\ d.inode = [s.inode EXCEPT ![i] = Unused] /\ Unused \in Inodes
<1> DEFINE n == s.inode[i].block_count
           lowered == [s EXCEPT !.inode[i].block_count = @ - n]
           node == [s.inode[i] EXCEPT !.block_count = n - n]
           freed == {get_block(lowered, i, lowered.inode[i].block_count + k) : k \in 0 .. n - 1}
           t == free_blocks(s, i, n)
           d == [t EXCEPT !.inode[i] = Unused]
<1>1. t = [lowered EXCEPT !.used = @ \ freed]
  BY DEF free_blocks
<1>2. /\ n \in Nat /\ n - n = 0 /\ s.inode[i] \in Inodes /\ s.inode \in [Numbers -> Inodes]
      /\ s.used \subseteq DataBlocks /\ s.disk \in [Ids -> Rows]
  BY InodeFields, StateFields
<1>3. lowered = [s EXCEPT !.inode = [s.inode EXCEPT ![i] = node]]
  OBVIOUS
<1>4. node.block_count = 0
  <2>1. node.block_count = n - n
    BY <1>2 DEF Inodes
  <2> QED BY <1>2, <2>1
<1> HIDE DEF n, node, lowered
<1>5. /\ lowered.disk = s.disk /\ lowered.used = s.used /\ lowered.inode[i].block_count = 0
      /\ lowered.inode = [s.inode EXCEPT ![i] = node]
  BY <1>2, <1>3, <1>4, StateFields
<1>6. freed \subseteq {FS_DATA_FAILURE}
  <2>1. ASSUME NEW k \in 0 .. n - 1
        PROVE  get_block(lowered, i, lowered.inode[i].block_count + k) = FS_DATA_FAILURE
    <3>1. 0 + k >= 0
      BY <1>2
    <3> QED BY <1>5, <3>1 DEF get_block
  <2> QED BY <2>1
<1> HIDE DEF freed
<1>7. s.used \ freed = s.used
  BY <1>2, <1>6, Bounds
<1>8. t = [lowered EXCEPT !.used = s.used]
  BY <1>1, <1>5, <1>7
<1>9. t.disk = s.disk /\ t.used = s.used /\ t.inode = [s.inode EXCEPT ![i] = node]
      /\ DOMAIN t = {"disk", "used", "inode"}
  <2>1. lowered = [disk |-> s.disk, used |-> s.used, inode |-> [s.inode EXCEPT ![i] = node]]
    BY <1>3, StateFields
  <2>2. t = [disk |-> s.disk, used |-> s.used, inode |-> [s.inode EXCEPT ![i] = node]]
    BY <1>8, <2>1
  <2> HIDE DEF t
  <2> QED BY <2>2
<1>10. t = [disk |-> s.disk, used |-> s.used, inode |-> [s.inode EXCEPT ![i] = node]]
  <2>1. lowered = [disk |-> s.disk, used |-> s.used, inode |-> [s.inode EXCEPT ![i] = node]]
    BY <1>3, StateFields
  <2> HIDE DEF t
  <2> QED BY <1>8, <2>1
<1> HIDE DEF t
<1>11. d = [disk |-> s.disk, used |-> s.used, inode |-> [s.inode EXCEPT ![i] = Unused]]
  <2>1. d = [disk |-> s.disk, used |-> s.used,
             inode |-> [[s.inode EXCEPT ![i] = node] EXCEPT ![i] = Unused]]
    BY <1>10
  <2>2. [[s.inode EXCEPT ![i] = node] EXCEPT ![i] = Unused] = [s.inode EXCEPT ![i] = Unused]
    BY <1>2
  <2> HIDE DEF d
  <2> QED BY <2>1, <2>2
<1>12. Unused \in Inodes
  <2>1. [k \in 0 .. POINTERS |-> FS_DATA_FAILURE] \in Tables
    BY Bounds DEF Tables
  <2>2. 0 \in 0 .. POINTERS + CELLS /\ 0 \in Nat
    BY Bounds
  <2> QED BY <2>1, <2>2 DEF Unused, Inodes
<1> HIDE DEF d
<1>13. d \in States /\ d.disk = s.disk /\ d.used = s.used
       /\ d.inode = [s.inode EXCEPT ![i] = Unused]
  <2>1. [s.inode EXCEPT ![i] = Unused] \in [Numbers -> Inodes]
    BY <1>2, <1>12
  <2> QED BY <1>2, <1>11, <2>1 DEF States
<1> QED BY <1>12, <1>13 DEF d, t, n

-----------------------------------------------------------------------------
(* The steps of a read and of a write, on a state and an open file.        *)
Machines == [s : States, f : Opened]
Readers == [s : States, f : Opened, read : Seq(Ids)]

Saved(s, f) == IF f.dirty THEN [s EXCEPT !.disk = [s.disk EXCEPT ![f.block_id] = f.block]] ELSE s
NextId(s, f) == get_block(Saved(s, f), f.inode, f.block_index + 1)
Loaded(s, f) == [f EXCEPT !.block_index = f.block_index + 1, !.block_id = NextId(s, f),
                          !.block = Saved(s, f).disk[NextId(s, f)]]

(* Writing the buffer back changes one block.                              *)
LEMMA SavedState ==
    ASSUME NEW s \in States, NEW f \in Opened
    PROVE  /\ Saved(s, f) \in States /\ Saved(s, f).used = s.used /\ Saved(s, f).inode = s.inode
           /\ ~ f.dirty => Saved(s, f) = s
           /\ f.dirty => Saved(s, f).disk[f.block_id] = f.block
           /\ \A b \in Ids : b # f.block_id => Saved(s, f).disk[b] = s.disk[b]
<1>1. f.block_id \in Ids /\ f.block \in Rows /\ f.dirty \in BOOLEAN
  BY DEF Opened
<1> DEFINE d == [s.disk EXCEPT ![f.block_id] = f.block]
<1>2. s.disk \in [Ids -> Rows]
  BY StateFields
<1>3. /\ d \in [Ids -> Rows] /\ d[f.block_id] = f.block
      /\ \A b \in Ids : b # f.block_id => d[b] = s.disk[b]
  BY <1>1, <1>2
<1> HIDE DEF d
<1>4. CASE f.dirty
  <2>1. Saved(s, f) = [s EXCEPT !.disk = d]
    BY <1>4 DEF Saved, d
  <2>2. Saved(s, f) = [disk |-> d, used |-> s.used, inode |-> s.inode]
    BY <2>1, StateFields
  <2>3. Saved(s, f) \in States
    BY <1>3, <2>2, StateFields DEF States
  <2> QED BY <1>3, <1>4, <2>2, <2>3
<1>5. CASE ~ f.dirty
  BY <1>5 DEF Saved
<1> QED BY <1>4, <1>5

(* Loading a block leaves an open file.                                    *)
LEMMA LoadedFile ==
    ASSUME NEW s \in States, NEW f \in Opened
    PROVE  /\ NextId(s, f) \in Ids /\ Saved(s, f).disk[NextId(s, f)] \in Rows
           /\ Loaded(s, f) \in Opened
           /\ Loaded(s, f).inode = f.inode /\ Loaded(s, f).cursor = f.cursor
           /\ Loaded(s, f).dirty = f.dirty /\ Loaded(s, f).read = f.read
           /\ Loaded(s, f).write = f.write /\ Loaded(s, f).block_index = f.block_index + 1
           /\ Loaded(s, f).block_id = NextId(s, f)
           /\ Loaded(s, f).block = Saved(s, f).disk[NextId(s, f)]
<1>1. f.block_index + 1 \in Nat /\ f.inode \in Numbers
  <2>1. f.block_index \in Nat \cup {FS_DATA_FAILURE} /\ f.inode \in Numbers
    BY DEF Opened
  <2> QED BY <2>1 DEF FS_DATA_FAILURE
<1>2. Saved(s, f) \in States
  BY SavedState
<1>3. NextId(s, f) \in Ids
  BY <1>1, <1>2, GetBlock DEF NextId
<1>4. Saved(s, f).disk[NextId(s, f)] \in Rows
  BY <1>2, <1>3, StateFields
<1> DEFINE id == NextId(s, f)
           row == Saved(s, f).disk[NextId(s, f)]
           place == f.block_index + 1
<1>5. Loaded(s, f) = [f EXCEPT !.block_index = place, !.block_id = id, !.block = row]
  BY DEF Loaded
<1> HIDE DEF id, row, place
<1>6. place \in Nat /\ id \in Ids /\ row \in Rows
  BY <1>1, <1>3, <1>4 DEF place, id, row
<1>7. f = [open |-> f.open, inode |-> f.inode, read |-> f.read, write |-> f.write,
           cursor |-> f.cursor, block_index |-> f.block_index, block_id |-> f.block_id,
           block |-> f.block, dirty |-> f.dirty]
      /\ f.open \in {TRUE} /\ f.read \in BOOLEAN /\ f.write \in BOOLEAN /\ f.cursor \in Nat
      /\ f.dirty \in BOOLEAN
  BY DEF Opened
<1>8. Loaded(s, f) = [open |-> f.open, inode |-> f.inode, read |-> f.read, write |-> f.write,
                      cursor |-> f.cursor, block_index |-> place, block_id |-> id,
                      block |-> row, dirty |-> f.dirty]
  BY <1>5, <1>7
<1>9. Loaded(s, f) \in Opened
  <2> DEFINE o == f.open
             r == f.read
             w == f.write
             c == f.cursor
             d == f.dirty
  <2>1. /\ o \in {TRUE} /\ r \in BOOLEAN /\ w \in BOOLEAN /\ c \in Nat /\ d \in BOOLEAN
        /\ place \in Nat \cup {FS_DATA_FAILURE}
    BY <1>6, <1>7
  <2>2. Loaded(s, f) = [open |-> o, inode |-> f.inode, read |-> r, write |-> w, cursor |-> c,
                        block_index |-> place, block_id |-> id, block |-> row, dirty |-> d]
    BY <1>8
  <2> HIDE DEF o, r, w, c, d
  <2> QED BY <1>1, <1>6, <2>1, <2>2 DEF Opened
<1> QED BY <1>3, <1>4, <1>8, <1>9 DEF place, id, row

(* What load does, to a state and a file that may have something read.     *)
LEMMA Loading ==
    ASSUME NEW t \in Machines \cup Readers
    PROVE  /\ load(t).s = Saved(t.s, t.f) /\ load(t).f = Loaded(t.s, t.f)
           /\ t \in Machines => load(t) \in Machines
           /\ t \in Readers => load(t) \in Readers /\ load(t).read = t.read
<1> DEFINE s == t.s
           f == t.f
           saved == Saved(s, f)
           loaded == Loaded(s, f)
<1>1. s \in States /\ f \in Opened
  BY DEF Machines, Readers
<1>2. saved \in States /\ loaded \in Opened
  BY <1>1, SavedState, LoadedFile
<1>3. load(t) = [t EXCEPT !.s = saved, !.f = loaded]
  <2>1. (IF f.dirty THEN [s EXCEPT !.disk[f.block_id] = f.block] ELSE s) = saved
    BY DEF Saved
  <2> DEFINE id == NextId(s, f)
             row == saved.disk[NextId(s, f)]
  <2>2. load(t) = [t EXCEPT !.s = saved, !.f.block_index = @ + 1, !.f.block_id = id, !.f.block = row]
    BY <2>1 DEF load, NextId
  <2>3. loaded = [f EXCEPT !.block_index = f.block_index + 1, !.block_id = id, !.block = row]
    BY DEF Loaded
  <2> HIDE DEF saved, id, row, loaded
  <2> QED BY <2>2, <2>3 DEF Machines, Readers, Opened
<1> HIDE DEF saved, loaded
<1>4. CASE t \in Machines
  <2>1. load(t) = [s |-> saved, f |-> loaded]
    BY <1>3, <1>4 DEF Machines
  <2> QED BY <1>2, <1>4, <2>1 DEF Machines, Readers, saved, loaded
<1>5. CASE t \in Readers
  <2>1. load(t) = [s |-> saved, f |-> loaded, read |-> t.read] /\ t.read \in Seq(Ids)
    BY <1>3, <1>5 DEF Readers
  <2> QED BY <1>2, <1>5, <2>1 DEF Machines, Readers, saved, loaded
<1> QED BY <1>4, <1>5

(* While the table of an inode fits its array, a file_t holds one of its   *)
(* blocks, or block FS_DATA_FAILURE.                                       *)
Small(s, i) == s.inode[i].block_count <= POINTERS + 1
Home(s, f) == Small(s, f.inode) => f.block_id \in OwnRows(s, f.inode) \cup {FS_DATA_FAILURE}

(* From s and f, a step of the same file_t: on the disk it reaches nothing *)
(* but the blocks of its file.                                             *)
Within(s, f, u, g) ==
    /\ u \in States /\ g \in Opened
    /\ u.used = s.used /\ u.inode = s.inode /\ g.inode = f.inode
    /\ g.read = f.read /\ g.write = f.write
    /\ Home(s, f) => Home(u, g)
    /\ Small(s, f.inode) /\ Home(s, f) =>
          \A b \in Ids : b \notin OwnRows(s, f.inode) \cup {FS_DATA_FAILURE} => u.disk[b] = s.disk[b]

LEMMA WithinSelf ==
    ASSUME NEW s \in States, NEW f \in Opened
    PROVE  Within(s, f, s, f)
  BY DEF Within

LEMMA StillApart ==
    ASSUME NEW s, NEW u, u.inode = s.inode, s.used \subseteq u.used, Apart(s)
    PROVE  Apart(u)
<1>1. SUFFICES ASSUME NEW i \in Numbers, NEW j \in Numbers, NEW k \in Has(u, i), NEW l \in Has(u, j)
               PROVE  /\ u.inode[i].blocks[k] \in u.used
                      /\ u.inode[i].blocks[k] = u.inode[j].blocks[l] => i = j /\ k = l
  BY DEF Apart
<1>2. k \in Has(s, i) /\ l \in Has(s, j)
  BY DEF Has
<1>3. /\ s.inode[i].blocks[k] \in s.used
      /\ s.inode[i].blocks[k] = s.inode[j].blocks[l] => i = j /\ k = l
  BY <1>2 DEF Apart
<1> QED BY <1>3

LEMMA SameTables ==
    ASSUME NEW s, NEW u, u.inode = s.inode, NEW i
    PROVE  /\ Has(u, i) = Has(s, i) /\ OwnRows(u, i) = OwnRows(s, i) /\ (Small(u, i) <=> Small(s, i))
           /\ u.used = s.used => (Apart(u) <=> Apart(s))
<1>1. \A j : Has(u, j) = Has(s, j)
  BY DEF Has
<1>2. OwnRows(u, i) = OwnRows(s, i) /\ (Small(u, i) <=> Small(s, i))
  BY <1>1 DEF OwnRows, Small
<1>3. u.used = s.used => (Apart(u) <=> Apart(s))
  <2>1. u.used = s.used /\ Apart(s) => Apart(u)
    BY StillApart
  <2>2. u.used = s.used /\ Apart(u) => Apart(s)
    BY StillApart
  <2> QED BY <2>1, <2>2
<1> QED BY <1>1, <1>2, <1>3

(* Two such steps are one.                                                 *)
LEMMA WithinTwice ==
    ASSUME NEW s, NEW f, NEW u, NEW g, NEW v, NEW e, Within(s, f, u, g), Within(u, g, v, e)
    PROVE  Within(s, f, v, e)
<1> DEFINE i == f.inode
           own == OwnRows(s, i) \cup {FS_DATA_FAILURE}
<1>1. /\ u.inode = s.inode /\ g.inode = i /\ v.inode = s.inode /\ e.inode = i
      /\ v.used = s.used /\ v \in States /\ e \in Opened /\ e.read = f.read /\ e.write = f.write
      /\ (Home(s, f) => Home(u, g)) /\ (Home(u, g) => Home(v, e))
  BY DEF Within
<1>2. OwnRows(u, i) = OwnRows(s, i) /\ (Small(u, i) <=> Small(s, i))
  BY <1>1, SameTables
<1>3. Small(s, i) /\ Home(s, f) => \A b \in Ids : b \notin own => u.disk[b] = s.disk[b]
  BY DEF Within
<1>4. Small(u, i) /\ Home(u, g) =>
         \A b \in Ids : b \notin OwnRows(u, i) \cup {FS_DATA_FAILURE} => v.disk[b] = u.disk[b]
  BY <1>1 DEF Within
<1> HIDE DEF i
<1>5. Small(s, i) /\ Home(s, f) => \A b \in Ids : b \notin own => v.disk[b] = s.disk[b]
  BY <1>1, <1>2, <1>3, <1>4
<1> QED BY <1>1, <1>5 DEF Within, i

(* A change of the buffer and the cursor is one.                           *)
LEMMA WithinBuffer ==
    ASSUME NEW s \in States, NEW f \in Opened, NEW g \in Opened, g.inode = f.inode,
           g.read = f.read, g.write = f.write, g.block_id = f.block_id
    PROVE  Within(s, f, s, g)
  BY DEF Within, Home

(* Loading the next block is one: the block that is written back is the    *)
(* file's own.                                                             *)
LEMMA LoadWithin ==
    ASSUME NEW s \in States, NEW f \in Opened
    PROVE  Within(s, f, Saved(s, f), Loaded(s, f))
<1> DEFINE u == Saved(s, f)
           g == Loaded(s, f)
           i == f.inode
           id == NextId(s, f)
           next == f.block_index + 1
<1>1. /\ u \in States /\ u.used = s.used /\ u.inode = s.inode
      /\ \A b \in Ids : b # f.block_id => u.disk[b] = s.disk[b]
  BY SavedState
<1>2. g \in Opened /\ g.inode = i /\ g.read = f.read /\ g.write = f.write /\ g.block_id = id
  BY LoadedFile
<1>3. i \in Numbers /\ next \in Nat /\ f.block_id \in Ids
  <2>1. f.block_index \in Nat \cup {FS_DATA_FAILURE} /\ i \in Numbers /\ f.block_id \in Ids
    BY DEF Opened
  <2> QED BY <2>1 DEF FS_DATA_FAILURE
<1>4. id = get_block(u, i, next)
  BY DEF NextId
<1> HIDE DEF u, g, i, id, next
<1>5. OwnRows(u, i) = OwnRows(s, i) /\ (Small(u, i) <=> Small(s, i))
  BY <1>1, SameTables
<1>6. Small(u, i) => id \in OwnRows(u, i) \cup {FS_DATA_FAILURE}
  <2> DEFINE n == u.inode[i].block_count
  <2>1. n \in Nat /\ (next >= n => id = FS_DATA_FAILURE)
        /\ (next < n /\ next <= POINTERS => id = u.inode[i].blocks[next])
    BY <1>1, <1>3, <1>4, GetBlock, InodeFields
  <2>2. Small(u, i) /\ next < n => next \in 0 .. POINTERS
    BY <1>3, <2>1, Bounds DEF Small
  <2>3. next \in 0 .. POINTERS /\ next < n => u.inode[i].blocks[next] \in OwnRows(u, i)
    BY DEF OwnRows, Has
  <2>4. next < n \/ next >= n
    BY <1>3, <2>1
  <2>5. next \in 0 .. POINTERS => next <= POINTERS
    BY Bounds
  <2> HIDE DEF n
  <2> QED BY <2>1, <2>2, <2>3, <2>4, <2>5 DEF n
<1>7. Home(u, g)
  BY <1>2, <1>6 DEF Home
<1>8. Small(s, i) /\ Home(s, f) =>
         \A b \in Ids : b \notin OwnRows(s, i) \cup {FS_DATA_FAILURE} => u.disk[b] = s.disk[b]
  BY <1>1 DEF Home, i
<1> QED BY <1>1, <1>2, <1>7, <1>8 DEF Within, u, g, i

(* So is what comes before a cell is read or written.                      *)
LEMMA Readied ==
    ASSUME NEW t \in Machines \cup Readers
    PROVE  /\ Ready(t).s \in States /\ Ready(t).f \in Opened
           /\ t \in Machines => Ready(t) \in Machines
           /\ t \in Readers => Ready(t) \in Readers /\ Ready(t).read = t.read
           /\ Within(t.s, t.f, Ready(t).s, Ready(t).f)
           /\ t.f.cursor % CELLS = 0 => Ready(t).s = Saved(t.s, t.f) /\ Ready(t).f = Loaded(t.s, t.f)
           /\ t.f.cursor % CELLS # 0 => Ready(t).s = t.s /\ Ready(t).f = t.f
<1>1. t.s \in States /\ t.f \in Opened
  BY DEF Machines, Readers
<1>2. CASE t.f.cursor % CELLS = 0
  <2>1. Ready(t) = load(t)
    BY <1>2 DEF Ready
  <2>2. Within(t.s, t.f, Saved(t.s, t.f), Loaded(t.s, t.f))
    BY <1>1, LoadWithin
  <2>3. Saved(t.s, t.f) \in States /\ Loaded(t.s, t.f) \in Opened
    BY <2>2 DEF Within
  <2> QED BY <1>2, <2>1, <2>2, <2>3, Loading
<1>3. CASE t.f.cursor % CELLS # 0
  <2>1. Ready(t) = t
    BY <1>3 DEF Ready
  <2>2. Within(t.s, t.f, t.s, t.f)
    BY <1>1, WithinSelf
  <2> QED BY <1>1, <1>3, <2>1, <2>2
<1> QED BY <1>2, <1>3

-----------------------------------------------------------------------------
(* The block at place x of the table of i, where the buffer row stands for *)
(* the one at place at.                                                    *)
Row(s, i, at, row, x) == IF x = at THEN row ELSE s.disk[s.inode[i].blocks[x]]

(* The first cells of file i are c.                                        *)
Holding(s, i, at, row, c) ==
    \A k \in 1 .. Len(c) : Row(s, i, at, row, (k - 1) \div CELLS)[(k - 1) % CELLS] = c[k]

(* The buffer of f is the block at place at of its file, or newer.         *)
Stands(s, f, at) ==
    /\ f.block_index = at /\ at \in Has(s, f.inode)
    /\ f.block_id = s.inode[f.inode].blocks[at]
    /\ ~ f.dirty => f.block = s.disk[f.block_id]

(* The file_t has not been sought: its buffer is the block of the cell     *)
(* before the cursor.                                                      *)
Tracks(s, f) ==
    /\ f.block_index = InBlocks(f.cursor) - 1
    /\ f.block_index = FS_DATA_FAILURE => ~ f.dirty
    /\ f.block_index # FS_DATA_FAILURE => Stands(s, f, f.block_index)

(* When a cell is read or written its block is in the buffer, and nothing  *)
(* of the file has changed.                                                *)
LEMMA ReadyHolds ==
    ASSUME NEW t \in Machines \cup Readers, Apart(t.s), Small(t.s, t.f.inode), Tracks(t.s, t.f),
           t.f.cursor \div CELLS < t.s.inode[t.f.inode].block_count
    PROVE  /\ Stands(Ready(t).s, Ready(t).f, t.f.cursor \div CELLS)
           /\ Ready(t).f.cursor = t.f.cursor
           /\ \A x \in Has(t.s, t.f.inode) :
                 Row(Ready(t).s, t.f.inode, Ready(t).f.block_index, Ready(t).f.block, x)
                 = Row(t.s, t.f.inode, t.f.block_index, t.f.block, x)
<1> DEFINE s == t.s
           f == t.f
           i == f.inode
           q == f.cursor \div CELLS
           u == Ready(t).s
           g == Ready(t).f
           table == s.inode[i].blocks
<1>1. s \in States /\ f \in Opened
  BY DEF Machines, Readers
<1>2. i \in Numbers /\ f.cursor \in Nat /\ f.block_id \in Ids /\ q \in Nat
  <2>1. i \in Numbers /\ f.cursor \in Nat /\ f.block_id \in Ids
    BY <1>1 DEF Opened
  <2> QED BY <2>1, CellPlace
<1>3. q < s.inode[i].block_count /\ s.inode[i].block_count \in Nat /\ q \in 0 .. POINTERS
      /\ q \in Has(s, i) /\ q <= POINTERS
  <2>1. q < s.inode[i].block_count /\ s.inode[i].block_count \in Nat
        /\ s.inode[i].block_count <= POINTERS + 1
    BY <1>1, <1>2, InodeFields DEF Small
  <2>2. q \in 0 .. POINTERS /\ q <= POINTERS
    BY <1>2, <2>1, Bounds
  <2> QED BY <2>1, <2>2 DEF Has
<1>4. table \in [0 .. POINTERS -> Ids]
  BY <1>1, <1>2, InodeFields DEF Tables
<1>5. Tracks(s, f) /\ Apart(s)
  OBVIOUS
<1>6. /\ f.cursor % CELLS = 0 => u = Saved(s, f) /\ g = Loaded(s, f)
      /\ f.cursor % CELLS # 0 => u = s /\ g = f
  BY Readied
<1> SUFFICES /\ Stands(u, g, q) /\ g.cursor = f.cursor
             /\ \A x \in Has(s, i) : Row(u, i, g.block_index, g.block, x)
                                     = Row(s, i, f.block_index, f.block, x)
  OBVIOUS
<1>7. f.cursor % CELLS \in Nat
  BY <1>2, CellPlace, Bounds DEF Places
<1> HIDE DEF q, u, g, s, f
<1>8. CASE f.cursor % CELLS # 0
  <2>1. InBlocks(f.cursor) = q + 1
    BY <1>2, <1>8, CellBlock DEF q
  <2>2. f.block_index = q /\ f.block_index # FS_DATA_FAILURE
    BY <1>2, <1>5, <2>1 DEF Tracks, FS_DATA_FAILURE
  <2> QED BY <1>5, <1>6, <1>8, <2>2 DEF Tracks
<1>9. CASE f.cursor % CELLS = 0
  <2>1. InBlocks(f.cursor) = q
    BY <1>2, <1>9, CellBlock DEF q
  <2>2. f.block_index = q - 1 /\ f.block_index + 1 = q
    BY <1>2, <1>5, <2>1 DEF Tracks
  <2>3. u = Saved(s, f) /\ g = Loaded(s, f)
    BY <1>6, <1>9
  <2>4. /\ u \in States /\ u.inode = s.inode
        /\ ~ f.dirty => u = s
        /\ f.dirty => u.disk[f.block_id] = f.block
        /\ \A b \in Ids : b # f.block_id => u.disk[b] = s.disk[b]
    BY <1>1, <2>3, SavedState
  <2>5. /\ g.inode = i /\ g.cursor = f.cursor /\ g.block_index = q /\ g.dirty = f.dirty
        /\ g.block_id = NextId(s, f) /\ g.block = u.disk[g.block_id]
    BY <1>1, <2>2, <2>3, LoadedFile
  <2>6. g.block_id = table[q]
    <3>1. NextId(s, f) = get_block(u, i, q)
      BY <2>2, <2>3 DEF NextId
    <3>2. get_block(u, i, q) = u.inode[i].blocks[q]
      BY <1>2, <1>3, <2>4, GetBlock
    <3> QED BY <2>4, <2>5, <3>1, <3>2
  <2>7. Has(u, i) = Has(s, i)
    BY <2>4, SameTables
  <2>8. Stands(u, g, q)
    BY <1>3, <2>4, <2>5, <2>6, <2>7 DEF Stands
  <2>9. ASSUME NEW x \in Has(s, i)
        PROVE  Row(u, i, q, g.block, x) = Row(s, i, f.block_index, f.block, x)
    <3>1. x \in 0 .. POINTERS /\ x \in Int /\ table[x] \in Ids
      BY <1>4, Bounds DEF Has
    <3>2. u.inode[i].blocks = table
      BY <2>4
    <3>3. f.block_index # FS_DATA_FAILURE =>
             /\ f.block_index \in Has(s, i) /\ f.block_id = table[f.block_index]
             /\ ~ f.dirty => f.block = s.disk[f.block_id]
      BY <1>5 DEF Tracks, Stands
    <3>4. f.block_index = FS_DATA_FAILURE => ~ f.dirty
      BY <1>5 DEF Tracks
    <3>5. \A y \in Has(s, i) : table[x] = table[y] => x = y
      BY <1>2, <1>5 DEF Apart
    <3>6. CASE x = f.block_index
      <4>1. x # q /\ x # FS_DATA_FAILURE
        BY <1>2, <2>2, <3>1, <3>6 DEF FS_DATA_FAILURE, Has
      <4>2. Row(u, i, q, g.block, x) = u.disk[table[x]]
        BY <3>2, <4>1 DEF Row
      <4>3. u.disk[table[x]] = f.block
        BY <2>4, <3>3, <3>6, <4>1
      <4> QED BY <3>6, <4>2, <4>3 DEF Row
    <3>7. CASE x # f.block_index
      <4>1. u.disk[table[x]] = s.disk[table[x]]
        <5>1. CASE f.dirty
          <6>1. f.block_index \in Has(s, i) /\ f.block_id = table[f.block_index]
            BY <3>3, <3>4, <5>1
          <6>2. table[x] # f.block_id
            BY <3>5, <3>7, <6>1
          <6> QED BY <2>4, <3>1, <6>2
        <5>2. CASE ~ f.dirty
          BY <2>4, <5>2
        <5> QED BY <5>1, <5>2
      <4>2. Row(u, i, q, g.block, x) = u.disk[table[x]]
        BY <2>5, <2>6, <3>2 DEF Row
      <4>3. Row(s, i, f.block_index, f.block, x) = s.disk[table[x]]
        BY <3>7 DEF Row
      <4> QED BY <4>1, <4>2, <4>3
    <3> QED BY <3>6, <3>7
  <2> QED BY <2>5, <2>8, <2>9
<1> QED BY <1>8, <1>9

(* A file_t with its cursor elsewhere, and with another buffer.            *)
LEMMA MovedTo ==
    ASSUME NEW f \in Opened, NEW cursor \in Nat, NEW g, g = [f EXCEPT !.cursor = cursor]
    PROVE  /\ g \in Opened /\ g.inode = f.inode /\ g.read = f.read /\ g.write = f.write
           /\ g.block_id = f.block_id /\ g.block = f.block /\ g.dirty = f.dirty
           /\ g.block_index = f.block_index /\ g.cursor = cursor
<1> DEFINE o == f.open
           r == f.read
           w == f.write
           d == f.dirty
<1>1. f = [open |-> o, inode |-> f.inode, read |-> r, write |-> w,
           cursor |-> f.cursor, block_index |-> f.block_index, block_id |-> f.block_id,
           block |-> f.block, dirty |-> d]
  BY DEF Opened
<1>2. /\ o \in {TRUE} /\ r \in BOOLEAN /\ w \in BOOLEAN /\ d \in BOOLEAN /\ f.inode \in Numbers
      /\ f.block_index \in Nat \cup {FS_DATA_FAILURE} /\ f.block_id \in Ids /\ f.block \in Rows
  BY DEF Opened
<1> HIDE DEF o, r, w, d
<1>3. g = [open |-> o, inode |-> f.inode, read |-> r, write |-> w,
           cursor |-> cursor, block_index |-> f.block_index, block_id |-> f.block_id,
           block |-> f.block, dirty |-> d]
  BY <1>1
<1>4. g \in Opened
  BY <1>2, <1>3 DEF Opened
<1> QED BY <1>3, <1>4 DEF r, w, d

LEMMA Replaced ==
    ASSUME NEW f \in Opened, NEW row, NEW cursor, NEW flag, NEW g,
           g = [f EXCEPT !.block = row, !.dirty = flag, !.cursor = cursor]
    PROVE  g = [open |-> f.open, inode |-> f.inode, read |-> f.read, write |-> f.write,
                cursor |-> cursor, block_index |-> f.block_index, block_id |-> f.block_id,
                block |-> row, dirty |-> flag]
<1> DEFINE o == f.open
           r == f.read
           w == f.write
           d == f.dirty
<1>1. f = [open |-> o, inode |-> f.inode, read |-> r, write |-> w,
           cursor |-> f.cursor, block_index |-> f.block_index, block_id |-> f.block_id,
           block |-> f.block, dirty |-> d]
  BY DEF Opened
<1> HIDE DEF o, r, w, d
<1> DEFINE e == [f EXCEPT !.block = row]
           h == [e EXCEPT !.dirty = flag]
<1>2. g = [h EXCEPT !.cursor = cursor]
  OBVIOUS
<1>3. e = [open |-> o, inode |-> f.inode, read |-> r, write |-> w,
           cursor |-> f.cursor, block_index |-> f.block_index, block_id |-> f.block_id,
           block |-> row, dirty |-> d]
  BY <1>1
<1> HIDE DEF e
<1>4. h = [open |-> o, inode |-> f.inode, read |-> r, write |-> w,
           cursor |-> f.cursor, block_index |-> f.block_index, block_id |-> f.block_id,
           block |-> row, dirty |-> flag]
  BY <1>3
<1> HIDE DEF h
<1>5. g = [open |-> o, inode |-> f.inode, read |-> r, write |-> w,
           cursor |-> cursor, block_index |-> f.block_index, block_id |-> f.block_id,
           block |-> row, dirty |-> flag]
  BY <1>2, <1>4
<1> QED BY <1>5 DEF o, r, w

LEMMA OpenedRecord ==
    ASSUME NEW o, o \in {TRUE}, NEW i, i \in Numbers, NEW r, r \in BOOLEAN, NEW w, w \in BOOLEAN,
           NEW cursor, cursor \in Nat, NEW at, at \in Nat \cup {FS_DATA_FAILURE},
           NEW id, id \in Ids, NEW row, row \in Rows, NEW d, d \in BOOLEAN
    PROVE  [open |-> o, inode |-> i, read |-> r, write |-> w, cursor |-> cursor,
            block_index |-> at, block_id |-> id, block |-> row, dirty |-> d] \in Opened
  BY DEF Opened

Filled(f, row, cursor) == [f EXCEPT !.block = row, !.dirty = TRUE, !.cursor = cursor]

LEMMA Rewritten ==
    ASSUME NEW f \in Opened, NEW row \in Rows, NEW cursor \in Nat
    PROVE  LET g == Filled(f, row, cursor)
           IN  /\ g \in Opened /\ g.inode = f.inode /\ g.read = f.read /\ g.write = f.write
               /\ g.block_id = f.block_id /\ g.block = row /\ g.dirty
               /\ g.block_index = f.block_index /\ g.cursor = cursor
<1> DEFINE o == f.open
           i == f.inode
           r == f.read
           w == f.write
           at == f.block_index
           id == f.block_id
           flag == TRUE
           g == Filled(f, row, cursor)
           new == [open |-> o, inode |-> i, read |-> r, write |-> w, cursor |-> cursor,
                   block_index |-> at, block_id |-> id, block |-> row, dirty |-> flag]
<1>1. g = [f EXCEPT !.block = row, !.dirty = flag, !.cursor = cursor]
  BY DEF Filled
<1> HIDE DEF g, flag
<1>2. g = new
  BY <1>1, Replaced
<1>3. o \in {TRUE} /\ r \in BOOLEAN /\ w \in BOOLEAN /\ i \in Numbers
      /\ at \in Nat \cup {FS_DATA_FAILURE} /\ id \in Ids
  BY DEF Opened
<1>4. flag \in BOOLEAN
  BY DEF flag
<1> HIDE DEF o, i, r, w, at, id
<1>5. new \in Opened
  BY <1>3, <1>4, OpenedRecord
<1>6. /\ new.inode = i /\ new.read = r /\ new.write = w
      /\ new.block_id = id /\ new.block = row /\ new.dirty = flag
      /\ new.block_index = at /\ new.cursor = cursor
  OBVIOUS
<1> HIDE DEF new
<1> QED BY <1>2, <1>5, <1>6 DEF g, i, r, w, at, id, flag

(* The file of f holds c, in its buffer and on the disk.                   *)
Intact(s, f, c) ==
    /\ Apart(s) /\ Small(s, f.inode) /\ Tracks(s, f) /\ c \in Seq(Ids)
    /\ InBlocks(Len(c)) <= s.inode[f.inode].block_count
    /\ Holding(s, f.inode, f.block_index, f.block, c)

(* Where the cells of a file are: in blocks it has.                        *)
LEMMA CellsInTable ==
    ASSUME NEW s \in States, NEW i \in Numbers, Small(s, i), NEW c \in Seq(Ids),
           InBlocks(Len(c)) <= s.inode[i].block_count, NEW k \in 1 .. Len(c)
    PROVE  (k - 1) \div CELLS \in Has(s, i) /\ k - 1 \in Nat
<1>1. Len(c) \in Nat /\ k - 1 \in Nat /\ k - 1 < Len(c)
  OBVIOUS
<1> DEFINE q == (k - 1) \div CELLS
<1>2. q < InBlocks(Len(c)) /\ InBlocks(Len(c)) \in Nat
  BY <1>1, CellIsIn, BlocksHold
<1>3. q \in Nat
  BY <1>1, CellPlace
<1> HIDE DEF q
<1>4. s.inode[i].block_count \in Nat /\ s.inode[i].block_count <= POINTERS + 1
  BY InodeFields DEF Small
<1>5. q \in 0 .. POINTERS /\ q < s.inode[i].block_count
  BY <1>2, <1>3, <1>4, Bounds
<1> QED BY <1>1, <1>5 DEF Has, q

(* The same for the contents of the file.                                  *)
LEMMA ReadyIntact ==
    ASSUME NEW t \in Machines \cup Readers, NEW c, Intact(t.s, t.f, c),
           t.f.cursor \div CELLS < t.s.inode[t.f.inode].block_count
    PROVE  LET r == Ready(t)
           IN  /\ Apart(r.s) /\ Small(r.s, t.f.inode) /\ r.f.inode = t.f.inode
               /\ r.s.inode = t.s.inode /\ r.f.cursor = t.f.cursor
               /\ Stands(r.s, r.f, t.f.cursor \div CELLS)
               /\ Holding(r.s, t.f.inode, r.f.block_index, r.f.block, c)
<1> DEFINE r == Ready(t)
           i == t.f.inode
<1>1. t.s \in States /\ t.f \in Opened /\ i \in Numbers
  BY DEF Machines, Readers, Opened
<1>2. r.s.inode = t.s.inode /\ r.s.used = t.s.used /\ r.f.inode = i
  BY Readied DEF Within
<1>3. /\ Apart(t.s) /\ Small(t.s, i) /\ Tracks(t.s, t.f) /\ c \in Seq(Ids)
      /\ InBlocks(Len(c)) <= t.s.inode[i].block_count
      /\ Holding(t.s, i, t.f.block_index, t.f.block, c)
  BY DEF Intact
<1>4. Apart(r.s) /\ Small(r.s, i)
  BY <1>2, <1>3, SameTables
<1>5. /\ Stands(r.s, r.f, t.f.cursor \div CELLS) /\ r.f.cursor = t.f.cursor
      /\ \A x \in Has(t.s, i) : Row(r.s, i, r.f.block_index, r.f.block, x)
                                = Row(t.s, i, t.f.block_index, t.f.block, x)
  BY <1>3, ReadyHolds
<1> HIDE DEF r, i
<1>6. Holding(r.s, i, r.f.block_index, r.f.block, c)
  <2>1. SUFFICES ASSUME NEW k \in 1 .. Len(c)
                 PROVE  Row(r.s, i, r.f.block_index, r.f.block, (k - 1) \div CELLS)[(k - 1) % CELLS]
                        = c[k]
    BY DEF Holding
  <2>2. (k - 1) \div CELLS \in Has(t.s, i)
    BY <1>1, <1>3, CellsInTable
  <2>3. Row(t.s, i, t.f.block_index, t.f.block, (k - 1) \div CELLS)[(k - 1) % CELLS] = c[k]
    BY <1>3 DEF Holding
  <2> QED BY <1>5, <2>2, <2>3
<1> QED BY <1>2, <1>4, <1>5, <1>6 DEF r, i

(* A file_t at its place whose cursor moves past the cell there.           *)
LEMMA StillTracks ==
    ASSUME NEW s \in States, NEW f, NEW g, NEW cursor \in Nat, Stands(s, g, cursor \div CELLS),
           g.cursor = cursor + 1
    PROVE  Tracks(s, g)
<1>1. InBlocks(cursor + 1) = cursor \div CELLS + 1 /\ cursor \div CELLS \in Nat
  BY CellBlock, CellPlace
<1>2. g.block_index = cursor \div CELLS
  BY DEF Stands
<1>3. g.block_index = InBlocks(g.cursor) - 1 /\ g.block_index # FS_DATA_FAILURE
  BY <1>1, <1>2 DEF FS_DATA_FAILURE
<1> QED BY <1>2, <1>3 DEF Tracks

ReadCell(x) ==
    LET r == Ready(x)
    IN  [r EXCEPT !.read = Append(@, r.f.block[r.f.cursor % CELLS]), !.f.cursor = @ + 1]

(* Reading a cell of the file gives what the file should hold there.       *)
LEMMA ReadingOne ==
    ASSUME NEW x \in Readers
    PROVE  LET y == ReadCell(x)
           IN  /\ y \in Readers /\ Within(x.s, x.f, y.s, y.f) /\ y.f.cursor = x.f.cursor + 1
               /\ \A c : Intact(x.s, x.f, c) /\ x.f.cursor < Len(c) =>
                     Intact(y.s, y.f, c) /\ y.read = Append(x.read, c[x.f.cursor + 1])
<1> DEFINE y == ReadCell(x)
           r == Ready(x)
           cursor == x.f.cursor
           place == r.f.cursor % CELLS
           cell == r.f.block[place]
           g == [r.f EXCEPT !.cursor = r.f.cursor + 1]
<1>1. x.s \in States /\ x.f \in Opened /\ cursor \in Nat /\ x.read \in Seq(Ids)
  BY DEF Readers, Opened
<1>2. r \in Readers /\ r.read = x.read /\ Within(x.s, x.f, r.s, r.f)
  BY Readied
<1>3. /\ cursor % CELLS = 0 => r.f = Loaded(x.s, x.f)
      /\ cursor % CELLS # 0 => r.f = x.f
  BY Readied
<1>4. y = [r EXCEPT !.read = Append(@, cell), !.f.cursor = @ + 1]
  BY DEF ReadCell
<1> HIDE DEF r, y, cursor, cell, place
<1>5. r.f.cursor = cursor
  BY <1>1, <1>3, LoadedFile DEF cursor
<1>6. r.s \in States /\ r.f \in Opened /\ r.read \in Seq(Ids) /\ DOMAIN r = {"s", "f", "read"}
      /\ r = [s |-> r.s, f |-> r.f, read |-> r.read]
  BY <1>2 DEF Readers
<1>7. place \in Places
  BY <1>1, <1>5, CellPlace DEF place
<1>8. cell \in Ids
  <2>1. r.f.block \in [Places -> Ids]
    BY <1>6 DEF Opened, Rows
  <2> QED BY <1>7, <2>1 DEF cell
<1>9. /\ g \in Opened /\ g.inode = r.f.inode /\ g.read = r.f.read /\ g.write = r.f.write
      /\ g.block_id = r.f.block_id /\ g.block = r.f.block /\ g.dirty = r.f.dirty
      /\ g.block_index = r.f.block_index /\ g.cursor = cursor + 1
  <2>1. cursor + 1 \in Nat /\ g = [r.f EXCEPT !.cursor = cursor + 1]
    BY <1>1, <1>5
  <2> HIDE DEF g
  <2> QED BY <1>6, <2>1, MovedTo
<1>10. y = [s |-> r.s, f |-> g, read |-> Append(x.read, cell)]
  <2>1. y = [r EXCEPT !.read = Append(r.read, cell), !.f = g]
    BY <1>4, <1>6
  <2> HIDE DEF g
  <2> QED BY <1>2, <1>6, <2>1
<1> HIDE DEF g
<1>11. Append(x.read, cell) \in Seq(Ids)
  BY <1>1, <1>8
<1>12. y \in Readers /\ y.s = r.s /\ y.f = g /\ y.read = Append(x.read, cell)
  BY <1>6, <1>9, <1>10, <1>11 DEF Readers
<1>13. Within(x.s, x.f, y.s, y.f)
  <2>1. Within(r.s, r.f, r.s, g)
    BY <1>6, <1>9, WithinBuffer
  <2> QED BY <1>2, <1>12, <2>1, WithinTwice
<1>14. ASSUME NEW c, Intact(x.s, x.f, c), cursor < Len(c)
       PROVE  Intact(y.s, y.f, c) /\ y.read = Append(x.read, c[cursor + 1])
  <2> DEFINE i == x.f.inode
             q == cursor \div CELLS
  <2>1. i \in Numbers /\ c \in Seq(Ids) /\ InBlocks(Len(c)) <= x.s.inode[i].block_count
        /\ Len(c) \in Nat /\ x.s.inode[i].block_count \in Nat
    <3>1. i \in Numbers
      BY <1>1 DEF Opened
    <3>2. c \in Seq(Ids) /\ InBlocks(Len(c)) <= x.s.inode[i].block_count
      BY <1>14 DEF Intact
    <3>3. Len(c) \in Nat
      BY <3>2
    <3> QED BY <1>1, <3>1, <3>2, <3>3, InodeFields
  <2>2. q < InBlocks(Len(c)) /\ InBlocks(Len(c)) \in Nat /\ q \in Nat
    BY <1>1, <1>14, <2>1, CellIsIn, BlocksHold, CellPlace
  <2>3. q < x.s.inode[i].block_count
    <3> HIDE DEF q
    <3> QED BY <2>1, <2>2
  <2>4. /\ Apart(r.s) /\ Small(r.s, i) /\ r.f.inode = i /\ r.s.inode = x.s.inode
        /\ Stands(r.s, r.f, q) /\ Holding(r.s, i, r.f.block_index, r.f.block, c)
    BY <1>14, <2>3, ReadyIntact DEF r, cursor
  <2>5. Stands(r.s, g, q)
    BY <1>9, <2>4 DEF Stands
  <2>6. Tracks(r.s, g)
    BY <1>1, <1>6, <1>9, <2>5, StillTracks
  <2>7. Intact(r.s, g, c)
    BY <1>9, <2>1, <2>4, <2>6 DEF Intact
  <2>8. cell = c[cursor + 1]
    <3>1. cursor + 1 \in 1 .. Len(c) /\ (cursor + 1) - 1 = cursor
      BY <1>1, <1>14, <2>1
    <3>2. Row(r.s, i, r.f.block_index, r.f.block, q)[cursor % CELLS] = c[cursor + 1]
      BY <2>4, <3>1 DEF Holding
    <3>3. Row(r.s, i, r.f.block_index, r.f.block, q) = r.f.block
      BY <2>4 DEF Row, Stands
    <3> QED BY <1>5, <3>2, <3>3 DEF cell, place
  <2> QED BY <1>12, <2>7, <2>8
<1> QED BY <1>9, <1>12, <1>13, <1>14 DEF y, cursor

WriteCell(x, v) ==
    LET r == Ready(x)
    IN  [r EXCEPT !.f.block[r.f.cursor % CELLS] = v, !.f.dirty = TRUE, !.f.cursor = @ + 1]

(* Writing a cell at the end of the file appends it.                       *)
LEMMA WritingOne ==
    ASSUME NEW x \in Machines, NEW v \in Ids
    PROVE  LET y == WriteCell(x, v)
           IN  /\ y \in Machines /\ Within(x.s, x.f, y.s, y.f) /\ y.f.cursor = x.f.cursor + 1
               /\ \A c : /\ Intact(x.s, x.f, c) /\ x.f.cursor = Len(c)
                         /\ x.f.cursor \div CELLS < x.s.inode[x.f.inode].block_count
                         => Intact(y.s, y.f, Append(c, v))
<1> DEFINE y == WriteCell(x, v)
           r == Ready(x)
           cursor == x.f.cursor
           place == r.f.cursor % CELLS
           row == [r.f.block EXCEPT ![place] = v]
           g == [r.f EXCEPT !.block = row, !.dirty = TRUE, !.cursor = r.f.cursor + 1]
<1>1. x.s \in States /\ x.f \in Opened /\ cursor \in Nat
  BY DEF Machines, Opened
<1>2. r \in Machines /\ Within(x.s, x.f, r.s, r.f)
  BY Readied
<1>3. /\ cursor % CELLS = 0 => r.f = Loaded(x.s, x.f)
      /\ cursor % CELLS # 0 => r.f = x.f
  BY Readied
<1>4. y = [r EXCEPT !.f.block[place] = v, !.f.dirty = TRUE, !.f.cursor = @ + 1]
  BY DEF WriteCell
<1> HIDE DEF r, y, cursor, place
<1>5. r.f.cursor = cursor
  BY <1>1, <1>3, LoadedFile DEF cursor
<1>6. r.s \in States /\ r.f \in Opened /\ r = [s |-> r.s, f |-> r.f]
  BY <1>2 DEF Machines
<1>7. place \in Places /\ place = cursor % CELLS
  BY <1>1, <1>5, CellPlace DEF place
<1>8. /\ row \in Rows /\ row[place] = v
      /\ \A p \in Places : p # place => row[p] = r.f.block[p]
  <2>1. r.f.block \in [Places -> Ids]
    BY <1>6 DEF Opened, Rows
  <2> QED BY <1>7, <2>1 DEF Rows
<1>9. y = [r EXCEPT !.f = [r.f EXCEPT !.block = row, !.dirty = TRUE, !.cursor = r.f.cursor + 1]]
  BY <1>4
<1> HIDE DEF row
<1>10. /\ g \in Opened /\ g.inode = r.f.inode /\ g.read = r.f.read /\ g.write = r.f.write
       /\ g.block_id = r.f.block_id /\ g.block = row /\ g.dirty
       /\ g.block_index = r.f.block_index /\ g.cursor = cursor + 1
  <2> DEFINE next == cursor + 1
             f == r.f
  <2>1. next \in Nat /\ f \in Opened /\ row \in Rows
    BY <1>1, <1>6, <1>8
  <2>2. g = Filled(f, row, next)
    BY <1>5 DEF Filled
  <2> HIDE DEF g, next, f
  <2>3. /\ g \in Opened /\ g.inode = f.inode /\ g.read = f.read /\ g.write = f.write
        /\ g.block_id = f.block_id /\ g.block = row /\ g.dirty
        /\ g.block_index = f.block_index /\ g.cursor = next
    BY <2>1, <2>2, Rewritten
  <2> QED BY <2>3 DEF next, f
<1>11. y = [s |-> r.s, f |-> g]
  <2>1. y = [r EXCEPT !.f = g]
    BY <1>9
  <2> HIDE DEF g
  <2> QED BY <1>6, <2>1
<1> HIDE DEF g
<1>12. y \in Machines /\ y.s = r.s /\ y.f = g
  BY <1>6, <1>10, <1>11 DEF Machines
<1>13. Within(x.s, x.f, y.s, y.f)
  <2>1. Within(r.s, r.f, r.s, g)
    BY <1>6, <1>10, WithinBuffer
  <2> QED BY <1>2, <1>12, <2>1, WithinTwice
<1>14. ASSUME NEW c, Intact(x.s, x.f, c), cursor = Len(c),
              cursor \div CELLS < x.s.inode[x.f.inode].block_count
       PROVE  Intact(y.s, y.f, Append(c, v))
  <2> DEFINE i == x.f.inode
             q == cursor \div CELLS
             d == Append(c, v)
  <2>1. i \in Numbers /\ c \in Seq(Ids) /\ x.s.inode[i].block_count \in Nat /\ q \in Nat
    BY <1>1, <1>14, InodeFields, CellPlace DEF Intact, Opened
  <2>2. /\ Apart(r.s) /\ Small(r.s, i) /\ r.f.inode = i /\ r.s.inode = x.s.inode
        /\ Stands(r.s, r.f, q) /\ Holding(r.s, i, r.f.block_index, r.f.block, c)
    BY <1>14, ReadyIntact DEF r, cursor
  <2>3. Stands(r.s, g, q)
    BY <1>10, <2>2 DEF Stands
  <2>4. Tracks(r.s, g)
    BY <1>1, <1>6, <1>10, <2>3, StillTracks
  <2>5. /\ d \in Seq(Ids) /\ Len(d) = cursor + 1 /\ d[cursor + 1] = v
        /\ \A k \in 1 .. cursor : d[k] = c[k]
    BY <1>14, <2>1
  <2>6. InBlocks(Len(d)) <= r.s.inode[i].block_count
    <3>1. InBlocks(cursor + 1) = q + 1
      BY <1>1, CellBlock
    <3> HIDE DEF q
    <3> QED BY <1>14, <2>1, <2>2, <2>5, <3>1 DEF q
  <2> HIDE DEF d
  <2>7. Holding(r.s, i, g.block_index, g.block, d)
    <3>1. SUFFICES ASSUME NEW k \in 1 .. cursor + 1
                   PROVE  Row(r.s, i, q, row, (k - 1) \div CELLS)[(k - 1) % CELLS] = d[k]
      <4>1. g.block_index = q /\ g.block = row
        BY <1>10, <2>2 DEF Stands
      <4> HIDE DEF q
      <4> QED BY <2>5, <4>1 DEF Holding
    <3>2. CASE k = cursor + 1
      <4>1. k - 1 = cursor
        BY <1>1, <3>2
      <4> QED BY <1>7, <1>8, <2>5, <3>2, <4>1 DEF Row
    <3>3. CASE k # cursor + 1
      <4>1. k \in 1 .. cursor /\ k - 1 \in Nat /\ k - 1 # cursor
        BY <1>1, <3>3
      <4>2. Row(r.s, i, q, r.f.block, (k - 1) \div CELLS)[(k - 1) % CELLS] = d[k]
        BY <1>14, <2>2, <2>5, <4>1 DEF Holding, Stands
      <4>3. (k - 1) % CELLS \in Places
        BY <4>1, CellPlace
      <4>4. CASE (k - 1) \div CELLS = q
        <5>1. (k - 1) % CELLS # place
          BY <1>1, <1>7, <4>1, <4>4, CellsDiffer
        <5> QED BY <1>8, <4>2, <4>3, <4>4, <5>1 DEF Row
      <4>5. CASE (k - 1) \div CELLS # q
        BY <4>2, <4>5 DEF Row
      <4> QED BY <4>4, <4>5
    <3> QED BY <3>2, <3>3
  <2>8. Intact(r.s, g, d)
    BY <1>10, <2>2, <2>4, <2>5, <2>6, <2>7 DEF Intact
  <2> QED BY <1>12, <2>8 DEF d
<1> QED BY <1>10, <1>12, <1>13, <1>14 DEF y, cursor

-----------------------------------------------------------------------------
(* The cells of a read, one after the other.                               *)
LEMMA ReadSteps ==
    ASSUME NEW s \in States, NEW f \in Opened, NEW count \in Nat
    PROVE  \E t \in [0 .. count -> Readers] :
              /\ t[0] = [s |-> s, f |-> f, read |-> <<>>]
              /\ \A k \in 0 .. count - 1 : t[k + 1] = ReadCell(t[k])
              /\ read_cells(s, f, count) = t[count]
<1> DEFINE start == [s |-> s, f |-> f, read |-> <<>>]
           Good(t) == t = [k \in 0 .. count |->
                IF k = 0 THEN start
                ELSE LET r == Ready(t[k - 1])
                     IN  [r EXCEPT !.read = Append(@, r.f.block[r.f.cursor % CELLS]),
                                   !.f.cursor = @ + 1]]
           Steps(t) == t = [k \in 0 .. count |-> IF k = 0 THEN start ELSE ReadCell(t[k - 1])]
           F == [k \in Nat |-> [x \in Readers |-> ReadCell(x)]]
           c == CHOOSE t : Good(t)
<1>1. read_cells(s, f, count) = c[count]
  BY DEF read_cells
<1>2. \A t : Steps(t) <=> Good(t)
  BY DEF ReadCell
<1> HIDE DEF Good, c
<1>3. start \in Readers
  <2>1. <<>> \in Seq(Ids)
    OBVIOUS
  <2> QED BY <2>1 DEF Readers
<1> HIDE DEF start
<1>4. \A x \in Readers : ReadCell(x) \in Readers
  BY ReadingOne
<1>5. F \in [Nat -> [Readers -> Readers]]
  BY <1>4
<1>6. PICK t \in [0 .. count -> Readers] : Iterates(t, start, F, count)
  <2> HIDE DEF F
  <2> QED BY <1>3, <1>5, RecursionUpTo
<1>7. \A k \in 0 .. count : k # 0 => F[k - 1][t[k - 1]] = ReadCell(t[k - 1])
  <2>1. SUFFICES ASSUME NEW k \in 0 .. count, k # 0
                 PROVE  F[k - 1][t[k - 1]] = ReadCell(t[k - 1])
    OBVIOUS
  <2>2. k - 1 \in Nat /\ t[k - 1] \in Readers
    BY <2>1
  <2> QED BY <2>2
<1> HIDE DEF F
<1>8. \A k \in 0 .. count : t[k] = IF k = 0 THEN start ELSE ReadCell(t[k - 1])
  BY <1>6, <1>7 DEF Iterates
<1>9. Steps(t)
  <2>1. t = [k \in 0 .. count |-> t[k]]
    OBVIOUS
  <2> QED BY <1>8, <2>1
<1>10. Steps(c)
  <2>1. Good(t)
    BY <1>2, <1>9
  <2>2. Good(c)
    BY <2>1 DEF c
  <2> QED BY <1>2, <2>2
<1>11. /\ c = [k \in 0 .. count |-> c[k]]
       /\ \A k \in 0 .. count : c[k] = IF k = 0 THEN start ELSE ReadCell(c[k - 1])
  BY <1>10
<1> HIDE DEF Steps
<1>12. \A k \in 0 .. count - 1 : c[k + 1] = ReadCell(c[k])
  <2>1. SUFFICES ASSUME NEW k \in 0 .. count - 1 PROVE c[k + 1] = ReadCell(c[k])
    OBVIOUS
  <2>2. k + 1 \in 0 .. count /\ k + 1 # 0 /\ (k + 1) - 1 = k
    OBVIOUS
  <2> QED BY <1>11, <2>2
<1>13. c[0] = start
  <2>1. 0 \in 0 .. count
    OBVIOUS
  <2> QED BY <1>11, <2>1
<1> DEFINE T == {k \in 0 .. count : c[k] \in Readers}
<1>14. 0 \in T
  BY <1>3, <1>13
<1>15. ASSUME NEW k \in 0 .. count - 1, k \in T PROVE k + 1 \in T
  <2>1. k + 1 \in 0 .. count
    OBVIOUS
  <2> QED BY <1>4, <1>12, <1>15, <2>1
<1>16. \A k \in 0 .. count : c[k] \in Readers
  <2>1. \A k \in 0 .. count : k \in T
    <3> HIDE DEF T
    <3> QED BY <1>14, <1>15, UpTo
  <2> QED BY <2>1
<1>17. c \in [0 .. count -> Readers]
  BY <1>11, <1>16
<1> QED BY <1>1, <1>12, <1>13, <1>17 DEF start

(* What a read returns, and what it leaves as it was.                      *)
LEMMA ReadCells ==
    ASSUME NEW s \in States, NEW f \in Opened, NEW count \in Nat
    PROVE  LET t == read_cells(s, f, count)
           IN  /\ t \in Readers /\ Within(s, f, t.s, t.f) /\ t.f.cursor = f.cursor + count
               /\ \A c : Intact(s, f, c) /\ f.cursor + count <= Len(c) =>
                     /\ Intact(t.s, t.f, c)
                     /\ t.read = SubSeq(c, f.cursor + 1, f.cursor + count)
<1> DEFINE cursor == f.cursor
<1>1. cursor \in Nat
  BY DEF Opened
<1>2. PICK t \in [0 .. count -> Readers] :
         /\ t[0] = [s |-> s, f |-> f, read |-> <<>>]
         /\ \A k \in 0 .. count - 1 : t[k + 1] = ReadCell(t[k])
         /\ read_cells(s, f, count) = t[count]
  BY ReadSteps
<1> DEFINE Upto(k, x) == /\ x \in Readers /\ Within(s, f, x.s, x.f) /\ x.f.cursor = cursor + k
                          /\ \A c : Intact(s, f, c) /\ cursor + count <= Len(c) =>
                                /\ Intact(x.s, x.f, c)
                                /\ x.read = SubSeq(c, cursor + 1, cursor + k)
           T == {k \in 0 .. count : Upto(k, t[k])}
<1> HIDE DEF cursor
<1>3. 0 \in T
  <2> DEFINE x == t[0]
  <2>1. x = [s |-> s, f |-> f, read |-> <<>>] /\ x \in Readers
    BY <1>2
  <2> HIDE DEF x
  <2>2. x.s = s /\ x.f = f /\ x.read = <<>>
    BY <2>1
  <2>3. \A c : SubSeq(c, cursor + 1, cursor + 0) = <<>>
    <3>1. cursor + 1 \in Int /\ cursor + 0 \in Int /\ cursor + 0 < cursor + 1
      BY <1>1
    <3> QED BY <3>1, SubSeqEmpty
  <2>4. Within(s, f, x.s, x.f) /\ x.f.cursor = cursor + 0
    BY <1>1, <2>2, WithinSelf DEF cursor
  <2>5. Upto(0, x)
    BY <2>1, <2>2, <2>3, <2>4
  <2> HIDE DEF Upto
  <2> QED BY <2>5 DEF x
<1>4. ASSUME NEW k \in 0 .. count - 1, k \in T PROVE k + 1 \in T
  <2> DEFINE x == t[k]
             y == t[k + 1]
  <2>1. k + 1 \in 0 .. count /\ k \in Nat /\ y = ReadCell(x)
    BY <1>2
  <2>2. Upto(k, x)
    BY <1>4
  <2> HIDE DEF x, y
  <2>3. /\ y \in Readers /\ Within(x.s, x.f, y.s, y.f) /\ y.f.cursor = x.f.cursor + 1
        /\ \A c : Intact(x.s, x.f, c) /\ x.f.cursor < Len(c) =>
              Intact(y.s, y.f, c) /\ y.read = Append(x.read, c[x.f.cursor + 1])
    BY <2>1, <2>2, ReadingOne
  <2>4. Within(s, f, y.s, y.f)
    BY <2>2, <2>3, WithinTwice
  <2>5. y.f.cursor = cursor + (k + 1)
    BY <1>1, <2>1, <2>2, <2>3
  <2>6. ASSUME NEW c, Intact(s, f, c), cursor + count <= Len(c)
        PROVE  /\ Intact(y.s, y.f, c)
               /\ y.read = SubSeq(c, cursor + 1, cursor + (k + 1))
    <3>1. c \in Seq(Ids) /\ Len(c) \in Nat
      BY <2>6 DEF Intact
    <3>2. Intact(x.s, x.f, c) /\ x.read = SubSeq(c, cursor + 1, cursor + k) /\ x.f.cursor = cursor + k
      BY <2>2, <2>6
    <3>3. cursor + k < Len(c)
      BY <1>1, <2>6, <3>1
    <3>4. Intact(y.s, y.f, c) /\ y.read = Append(x.read, c[(cursor + k) + 1])
      BY <2>3, <3>2, <3>3
    <3> DEFINE m == cursor + 1
               n == cursor + k + 1
    <3>5. m \in 1 .. Len(c) /\ n \in m .. Len(c) /\ n - 1 = cursor + k /\ (cursor + k) + 1 = n
          /\ cursor + (k + 1) = n
      BY <1>1, <2>1, <3>1, <3>3
    <3> HIDE DEF m, n
    <3>6. SubSeq(c, m, n) = SubSeq(c, m, n - 1) \o <<c[n]>>
      BY <3>1, <3>5, SubSeqRecursiveSecond
    <3>7. x.read \in Seq(Ids) /\ c[n] \in Ids
      <4>1. n \in 1 .. Len(c)
        BY <3>1, <3>5
      <4> QED BY <2>2, <3>1, <4>1, ElementOfSeq DEF Readers
    <3>8. Append(x.read, c[n]) = x.read \o <<c[n]>>
      BY <3>7, AppendIsConcat
    <3> QED BY <3>2, <3>4, <3>5, <3>6, <3>8 DEF m
  <2>7. Upto(k + 1, y)
    BY <2>3, <2>4, <2>5, <2>6
  <2> HIDE DEF Upto
  <2> QED BY <2>1, <2>7 DEF y
<1>5. Upto(count, t[count])
  <2> HIDE DEF Upto
  <2>1. \A k \in 0 .. count : k \in T
    <3> HIDE DEF T
    <3> QED BY <1>3, <1>4, UpTo
  <2>2. count \in 0 .. count
    OBVIOUS
  <2> QED BY <2>1, <2>2
<1> QED BY <1>2, <1>5 DEF cursor

-----------------------------------------------------------------------------
(* The cells of a write, one after the other.                              *)
LEMMA WriteSteps ==
    ASSUME NEW s \in States, NEW f \in Opened, NEW data \in Seq(Ids)
    PROVE  \E t \in [0 .. Len(data) -> Machines] :
              /\ t[0] = [s |-> s, f |-> f]
              /\ \A k \in 0 .. Len(data) - 1 : t[k + 1] = WriteCell(t[k], data[k + 1])
              /\ write_cells(s, f, data) = t[Len(data)]
<1> DEFINE count == Len(data)
           start == [s |-> s, f |-> f]
           Good(t) == t = [k \in 0 .. count |->
                IF k = 0 THEN start
                ELSE LET r == Ready(t[k - 1])
                     IN  [r EXCEPT !.f.block[r.f.cursor % CELLS] = data[k],
                                   !.f.dirty = TRUE, !.f.cursor = @ + 1]]
           Steps(t) == t = [k \in 0 .. count |->
                               IF k = 0 THEN start ELSE WriteCell(t[k - 1], data[k])]
           F == [k \in Nat |-> [x \in Machines |-> IF k + 1 \in 1 .. count
                                                   THEN WriteCell(x, data[k + 1]) ELSE x]]
           c == CHOOSE t : Good(t)
<1>1. write_cells(s, f, data) = c[count]
  BY DEF write_cells
<1>2. \A t : Steps(t) <=> Good(t)
  BY DEF WriteCell
<1> HIDE DEF Good, c
<1>3. start \in Machines /\ count \in Nat /\ \A k \in 1 .. count : data[k] \in Ids
  <2>1. start \in Machines
    BY DEF Machines
  <2>2. count \in Nat /\ \A k \in 1 .. count : data[k] \in Ids
    OBVIOUS
  <2> QED BY <2>1, <2>2
<1> HIDE DEF start, count
<1>4. \A x \in Machines : \A k \in 1 .. count : WriteCell(x, data[k]) \in Machines
  BY <1>3, WritingOne
<1>5. F \in [Nat -> [Machines -> Machines]]
  BY <1>4
<1>6. PICK t \in [0 .. count -> Machines] : Iterates(t, start, F, count)
  <2> HIDE DEF F
  <2> QED BY <1>3, <1>5, RecursionUpTo
<1>7. \A k \in 0 .. count : k # 0 => F[k - 1][t[k - 1]] = WriteCell(t[k - 1], data[k])
  <2>1. SUFFICES ASSUME NEW k \in 0 .. count, k # 0
                 PROVE  F[k - 1][t[k - 1]] = WriteCell(t[k - 1], data[k])
    OBVIOUS
  <2>2. k - 1 \in Nat /\ k - 1 \in 0 .. count /\ (k - 1) + 1 = k /\ k \in 1 .. count
    BY <1>3, <2>1
  <2>3. t[k - 1] \in Machines
    BY <2>2
  <2> QED BY <2>2, <2>3
<1> HIDE DEF F
<1>8. \A k \in 0 .. count : t[k] = IF k = 0 THEN start ELSE WriteCell(t[k - 1], data[k])
  BY <1>6, <1>7 DEF Iterates
<1>9. Steps(t)
  <2>1. t = [k \in 0 .. count |-> t[k]]
    OBVIOUS
  <2> QED BY <1>8, <2>1
<1>10. Steps(c)
  <2>1. Good(t)
    BY <1>2, <1>9
  <2>2. Good(c)
    BY <2>1 DEF c
  <2> QED BY <1>2, <2>2
<1>11. /\ c = [k \in 0 .. count |-> c[k]]
       /\ \A k \in 0 .. count : c[k] = IF k = 0 THEN start ELSE WriteCell(c[k - 1], data[k])
  BY <1>10
<1> HIDE DEF Steps
<1>12. \A k \in 0 .. count - 1 : c[k + 1] = WriteCell(c[k], data[k + 1])
  <2>1. SUFFICES ASSUME NEW k \in 0 .. count - 1 PROVE c[k + 1] = WriteCell(c[k], data[k + 1])
    OBVIOUS
  <2>2. k + 1 \in 0 .. count /\ k + 1 # 0 /\ (k + 1) - 1 = k
    BY <1>3
  <2> QED BY <1>11, <2>2
<1>13. c[0] = start
  <2>1. 0 \in 0 .. count
    BY <1>3
  <2> QED BY <1>11, <2>1
<1> DEFINE T == {k \in 0 .. count : c[k] \in Machines}
<1>14. 0 \in T
  BY <1>3, <1>13
<1>15. ASSUME NEW k \in 0 .. count - 1, k \in T PROVE k + 1 \in T
  <2>1. k + 1 \in 0 .. count /\ k + 1 \in 1 .. count
    BY <1>3
  <2> QED BY <1>4, <1>12, <1>15, <2>1
<1>16. \A k \in 0 .. count : c[k] \in Machines
  <2>1. \A k \in 0 .. count : k \in T
    <3> HIDE DEF T
    <3> QED BY <1>3, <1>14, <1>15, UpTo
  <2> QED BY <2>1
<1>17. c \in [0 .. count -> Machines]
  BY <1>11, <1>16
<1> QED BY <1>1, <1>12, <1>13, <1>17 DEF start, count

(* One cell more of what is written.                                       *)
LEMMA WrittenByOne ==
    ASSUME NEW c \in Seq(Ids), NEW data \in Seq(Ids), NEW k \in 0 .. Len(data) - 1
    PROVE  Append(c \o SubSeq(data, 1, k), data[k + 1]) = c \o SubSeq(data, 1, k + 1)
<1> DEFINE n == k + 1
           d == SubSeq(data, 1, k)
<1>1. Len(data) \in Nat
  OBVIOUS
<1>2. 1 \in 1 .. Len(data) /\ n \in 1 .. Len(data) /\ n - 1 = k /\ 1 \in Int /\ k \in Int
  BY <1>1
<1>3. data[n] \in Ids /\ \A i \in 1 .. k : data[i] \in Ids
  BY <1>1, <1>2, ElementOfSeq
<1>4. d \in Seq(Ids)
  BY <1>2, <1>3, SubSeqProperties
<1> HIDE DEF n
<1>5. SubSeq(data, 1, n) = SubSeq(data, 1, n - 1) \o <<data[n]>>
  BY <1>2, SubSeqRecursiveSecond
<1>6. SubSeq(data, 1, n) = d \o <<data[n]>>
  BY <1>2, <1>5
<1> HIDE DEF d
<1>7. <<data[n]>> \in Seq(Ids)
  BY <1>3
<1>8. c \o (d \o <<data[n]>>) = (c \o d) \o <<data[n]>>
  BY <1>4, <1>7, ConcatAssociative
<1>9. Append(c \o d, data[n]) = (c \o d) \o <<data[n]>>
  <2>1. c \o d \in Seq(Ids)
    BY <1>4, ConcatProperties
  <2> QED BY <1>3, <2>1, AppendIsConcat
<1> QED BY <1>6, <1>8, <1>9 DEF n, d

(* What a write from the end of the file makes of it.                      *)
LEMMA WriteCells ==
    ASSUME NEW s \in States, NEW f \in Opened, NEW data \in Seq(Ids)
    PROVE  LET t == write_cells(s, f, data)
           IN  /\ t \in Machines /\ Within(s, f, t.s, t.f) /\ t.f.cursor = f.cursor + Len(data)
               /\ \A c : /\ Intact(s, f, c) /\ f.cursor = Len(c)
                         /\ InBlocks(Len(c) + Len(data)) <= s.inode[f.inode].block_count
                         => Intact(t.s, t.f, c \o data)
<1> DEFINE cursor == f.cursor
           count == Len(data)
           n == s.inode[f.inode].block_count
<1>1. cursor \in Nat /\ count \in Nat /\ \A k \in 1 .. count : data[k] \in Ids
  <2>1. cursor \in Nat
    BY DEF Opened
  <2>2. count \in Nat /\ \A k \in 1 .. count : data[k] \in Ids
    OBVIOUS
  <2> QED BY <2>1, <2>2
<1>1a. n \in Nat
  <2>1. f.inode \in Numbers
    BY DEF Opened
  <2> QED BY <2>1, InodeFields
<1>2. PICK t \in [0 .. count -> Machines] :
         /\ t[0] = [s |-> s, f |-> f]
         /\ \A k \in 0 .. count - 1 : t[k + 1] = WriteCell(t[k], data[k + 1])
         /\ write_cells(s, f, data) = t[count]
  BY WriteSteps
<1> DEFINE Fits(c) == Intact(s, f, c) /\ cursor = Len(c) /\ InBlocks(Len(c) + count) <= n
           Upto(k, x) == /\ x \in Machines /\ Within(s, f, x.s, x.f) /\ x.f.cursor = cursor + k
                         /\ \A c : Fits(c) => Intact(x.s, x.f, c \o SubSeq(data, 1, k))
           T == {k \in 0 .. count : Upto(k, t[k])}
<1> HIDE DEF cursor, count, n
<1>3. 0 \in T
  <2> DEFINE x == t[0]
  <2>1. x = [s |-> s, f |-> f] /\ x \in Machines
    BY <1>1, <1>2
  <2> HIDE DEF x
  <2>2. x.s = s /\ x.f = f
    BY <2>1
  <2>3. ASSUME NEW c, Fits(c) PROVE c \o SubSeq(data, 1, 0) = c
    <3>1. c \in Seq(Ids)
      BY <2>3 DEF Intact
    <3>2. SubSeq(data, 1, 0) = <<>>
      <4>1. 1 \in Int /\ 0 \in Int /\ 0 < 1
        OBVIOUS
      <4> QED BY <4>1, SubSeqEmpty
    <3> QED BY <3>1, <3>2, ConcatEmptySeq
  <2>4. Within(s, f, x.s, x.f) /\ x.f.cursor = cursor + 0
    BY <1>1, <2>2, WithinSelf DEF cursor
  <2>5. Upto(0, x)
    BY <2>1, <2>2, <2>3, <2>4
  <2> HIDE DEF Upto
  <2> QED BY <1>1, <2>5 DEF x
<1>4. ASSUME NEW k \in 0 .. count - 1, k \in T PROVE k + 1 \in T
  <2> DEFINE x == t[k]
             y == t[k + 1]
             v == data[k + 1]
  <2>1. k + 1 \in 0 .. count /\ k + 1 \in 1 .. count /\ k \in Nat
    BY <1>1
  <2>2. y = WriteCell(x, v) /\ v \in Ids
    BY <1>1, <1>2, <2>1
  <2>3. Upto(k, x)
    BY <1>4
  <2> HIDE DEF x, y, v
  <2>4. /\ y \in Machines /\ Within(x.s, x.f, y.s, y.f) /\ y.f.cursor = x.f.cursor + 1
        /\ \A c : /\ Intact(x.s, x.f, c) /\ x.f.cursor = Len(c)
                  /\ x.f.cursor \div CELLS < x.s.inode[x.f.inode].block_count
                  => Intact(y.s, y.f, Append(c, v))
    BY <2>2, <2>3, WritingOne
  <2>5. Within(s, f, y.s, y.f)
    BY <2>3, <2>4, WithinTwice
  <2>6. y.f.cursor = cursor + (k + 1)
    BY <1>1, <2>1, <2>3, <2>4
  <2>7. ASSUME NEW c, Fits(c) PROVE Intact(y.s, y.f, c \o SubSeq(data, 1, k + 1))
    <3> DEFINE d == c \o SubSeq(data, 1, k)
    <3>1. c \in Seq(Ids) /\ Len(c) = cursor
      BY <2>7 DEF Intact
    <3>2. Intact(x.s, x.f, d)
      BY <2>3, <2>7
    <3>3. Len(d) = cursor + k
      <4>1. 1 \in Int /\ k \in Int /\ \A i \in 1 .. k : data[i] \in Ids
        BY <1>1, <2>1
      <4>2. /\ SubSeq(data, 1, k) \in Seq(Ids)
            /\ Len(SubSeq(data, 1, k)) = IF 1 <= k THEN k - 1 + 1 ELSE 0
        BY <4>1, SubSeqProperties
      <4>3. Len(d) = Len(c) + Len(SubSeq(data, 1, k))
        BY <3>1, <4>2, ConcatProperties
      <4> HIDE DEF d
      <4> QED BY <1>1, <2>1, <3>1, <4>2, <4>3
    <3>4. Append(d, v) = c \o SubSeq(data, 1, k + 1)
      <4>1. k \in 0 .. Len(data) - 1
        BY DEF count
      <4> QED BY <3>1, <4>1, WrittenByOne DEF v
    <3> HIDE DEF d
    <3>5. x.f.cursor \div CELLS < n
      <4> DEFINE place == cursor + k
      <4>1. place \in Nat /\ place < cursor + count /\ cursor + count \in Nat /\ x.f.cursor = place
        BY <1>1, <2>1, <2>3
      <4> HIDE DEF place
      <4>2. place \div CELLS < InBlocks(cursor + count)
        BY <4>1, CellIsIn
      <4>3. InBlocks(cursor + count) \in Nat /\ place \div CELLS \in Nat
        BY <4>1, BlocksHold, CellPlace
      <4>4. InBlocks(cursor + count) <= n
        BY <2>7, <3>1
      <4> QED BY <1>1a, <4>1, <4>2, <4>3, <4>4
    <3>6. x.s.inode[x.f.inode].block_count = n
      BY <2>3 DEF Within, n
    <3>7. x.f.cursor = Len(d)
      BY <2>3, <3>3
    <3>8. Intact(y.s, y.f, Append(d, v))
      BY <2>4, <3>2, <3>5, <3>6, <3>7
    <3> QED BY <3>4, <3>8
  <2>8. Upto(k + 1, y)
    BY <2>4, <2>5, <2>6, <2>7
  <2> HIDE DEF Upto
  <2> QED BY <2>1, <2>8 DEF y
<1>5. Upto(count, t[count])
  <2> HIDE DEF Upto
  <2>1. \A k \in 0 .. count : k \in T
    <3> HIDE DEF T
    <3> QED BY <1>1, <1>3, <1>4, UpTo
  <2>2. count \in 0 .. count
    BY <1>1
  <2> QED BY <2>1, <2>2
<1>6. SubSeq(data, 1, count) = data
  BY SubSeqFull DEF count
<1>7. \A c : Fits(c) <=> /\ Intact(s, f, c) /\ f.cursor = Len(c)
                         /\ InBlocks(Len(c) + Len(data)) <= s.inode[f.inode].block_count
  BY DEF cursor, count, n
<1> DEFINE z == t[count]
<1>8. /\ z \in Machines /\ Within(s, f, z.s, z.f) /\ z.f.cursor = f.cursor + Len(data)
      /\ \A c : Fits(c) => Intact(z.s, z.f, c \o data)
  BY <1>5, <1>6 DEF cursor, count
<1>9. write_cells(s, f, data) = z
  BY <1>2
<1> HIDE DEF z, Fits
<1> QED BY <1>7, <1>8, <1>9

-----------------------------------------------------------------------------
(* A step on inode i leaves the blocks of all other inodes as they were.   *)
Beside(s, i, u) ==
    \A j \in Numbers : j # i =>
        u.inode[j] = s.inode[j] /\ \A b \in OwnRows(s, j) : u.disk[b] = s.disk[b]

(* The blocks of a table are in the data area, and of no other table.      *)
LEMMA OwnApart ==
    ASSUME NEW s \in States, Apart(s), NEW i \in Numbers
    PROVE  /\ OwnRows(s, i) \subseteq s.used /\ OwnRows(s, i) \subseteq Ids
           /\ FS_DATA_FAILURE \notin OwnRows(s, i)
           /\ \A j \in Numbers : j # i => OwnRows(s, i) \cap OwnRows(s, j) = {}
<1>1. OwnRows(s, i) \subseteq s.used
  BY DEF OwnRows, Apart
<1>2. s.used \subseteq DataBlocks
  BY StateFields
<1>3. \A j \in Numbers : j # i => OwnRows(s, i) \cap OwnRows(s, j) = {}
  <2>1. SUFFICES ASSUME NEW j \in Numbers, j # i, NEW b \in OwnRows(s, i), b \in OwnRows(s, j) PROVE FALSE
    OBVIOUS
  <2>2. PICK k \in Has(s, i) : b = s.inode[i].blocks[k]
    BY DEF OwnRows
  <2>3. PICK l \in Has(s, j) : b = s.inode[j].blocks[l]
    BY <2>1 DEF OwnRows
  <2> QED BY <2>1, <2>2, <2>3 DEF Apart
<1> QED BY <1>1, <1>2, <1>3, Bounds

(* Allocating blocks for i is such a step.                                 *)
LEMMA KeptBeside ==
    ASSUME NEW s \in States, Apart(s), NEW i \in Numbers, NEW u, Kept(s, i, u)
    PROVE  Beside(s, i, u)
<1>1. SUFFICES ASSUME NEW j \in Numbers, j # i
               PROVE  u.inode[j] = s.inode[j] /\ \A b \in OwnRows(s, j) : u.disk[b] = s.disk[b]
  BY DEF Beside
<1>2. OwnRows(s, j) \subseteq s.used /\ OwnRows(s, j) \cap OwnRows(s, i) = {}
  BY <1>1, OwnApart
<1> QED BY <1>1, <1>2 DEF Kept

(* So is what a file_t does to its file.                                   *)
LEMMA WithinBeside ==
    ASSUME NEW s \in States, Apart(s), NEW f \in Opened, NEW u, NEW g, Within(s, f, u, g),
           Small(s, f.inode), Home(s, f)
    PROVE  Beside(s, f.inode, u)
<1> DEFINE i == f.inode
<1>1. i \in Numbers
  BY DEF Opened
<1>2. u.inode = s.inode
      /\ \A b \in Ids : b \notin OwnRows(s, i) \cup {FS_DATA_FAILURE} => u.disk[b] = s.disk[b]
  BY DEF Within
<1> HIDE DEF i
<1>3. SUFFICES ASSUME NEW j \in Numbers, j # i
               PROVE  u.inode[j] = s.inode[j] /\ \A b \in OwnRows(s, j) : u.disk[b] = s.disk[b]
  BY DEF Beside, i
<1>4. /\ OwnRows(s, j) \subseteq Ids /\ FS_DATA_FAILURE \notin OwnRows(s, j)
      /\ OwnRows(s, j) \cap OwnRows(s, i) = {}
  BY <1>1, <1>3, OwnApart
<1> QED BY <1>2, <1>4

LEMMA BesideTwice ==
    ASSUME NEW s, NEW i, NEW u, NEW v, Beside(s, i, u), Beside(u, i, v)
    PROVE  Beside(s, i, v)
<1>1. SUFFICES ASSUME NEW j \in Numbers, j # i
               PROVE  v.inode[j] = s.inode[j] /\ \A b \in OwnRows(s, j) : v.disk[b] = s.disk[b]
  BY DEF Beside
<1>2. u.inode[j] = s.inode[j] /\ \A b \in OwnRows(s, j) : u.disk[b] = s.disk[b]
  BY <1>1 DEF Beside
<1>3. v.inode[j] = u.inode[j] /\ \A b \in OwnRows(u, j) : v.disk[b] = u.disk[b]
  BY <1>1 DEF Beside
<1>4. OwnRows(u, j) = OwnRows(s, j)
  BY <1>2 DEF OwnRows, Has
<1> QED BY <1>2, <1>3, <1>4

(* What is the same of an inode and its blocks.                            *)
SameFile(s, i, u) ==
    /\ u.inode[i].block_count = s.inode[i].block_count
    /\ \A k \in Has(s, i) : u.inode[i].blocks[k] = s.inode[i].blocks[k]
    /\ \A b \in OwnRows(s, i) : u.disk[b] = s.disk[b]

LEMMA BesideSame ==
    ASSUME NEW s, NEW i, NEW u, Beside(s, i, u), NEW j \in Numbers, j # i
    PROVE  SameFile(s, j, u) /\ u.inode[j] = s.inode[j]
  BY DEF Beside, SameFile

(* More blocks do no harm.                                                 *)
LEMMA StillHolding ==
    ASSUME NEW s \in States, NEW i \in Numbers, NEW u, Small(s, i), NEW c \in Seq(Ids),
           InBlocks(Len(c)) <= s.inode[i].block_count,
           \A k \in Has(s, i) : u.inode[i].blocks[k] = s.inode[i].blocks[k],
           \A b \in OwnRows(s, i) : u.disk[b] = s.disk[b],
           NEW at, NEW row, Holding(s, i, at, row, c)
    PROVE  Holding(u, i, at, row, c)
<1>1. SUFFICES ASSUME NEW k \in 1 .. Len(c)
               PROVE  Row(u, i, at, row, (k - 1) \div CELLS)[(k - 1) % CELLS] = c[k]
  BY DEF Holding
<1> DEFINE x == (k - 1) \div CELLS
<1>2. x \in Has(s, i)
  BY CellsInTable
<1>3. Row(s, i, at, row, x)[(k - 1) % CELLS] = c[k]
  BY DEF Holding
<1> HIDE DEF x
<1>4. s.inode[i].blocks[x] \in OwnRows(s, i)
  BY <1>2 DEF OwnRows
<1>5. Row(u, i, at, row, x) = Row(s, i, at, row, x)
  BY <1>2, <1>4 DEF Row
<1> QED BY <1>3, <1>5 DEF x

(* Nor do they move a file_t from its place.                               *)
LEMMA StillAtPlace ==
    ASSUME NEW s \in States, NEW f, NEW u, Tracks(s, f), Has(s, f.inode) \subseteq Has(u, f.inode),
           \A k \in Has(s, f.inode) : u.inode[f.inode].blocks[k] = s.inode[f.inode].blocks[k],
           \A b \in OwnRows(s, f.inode) : u.disk[b] = s.disk[b]
    PROVE  Tracks(u, f)
<1>1. ASSUME f.block_index # FS_DATA_FAILURE PROVE Stands(u, f, f.block_index)
  <2> DEFINE k == f.block_index
  <2>1. /\ k \in Has(s, f.inode) /\ f.block_id = s.inode[f.inode].blocks[k]
        /\ ~ f.dirty => f.block = s.disk[f.block_id]
    BY <1>1 DEF Tracks, Stands
  <2>2. f.block_id \in OwnRows(s, f.inode)
    BY <2>1 DEF OwnRows
  <2> QED BY <2>1, <2>2 DEF Stands
<1> QED BY <1>1 DEF Tracks

-----------------------------------------------------------------------------
(* The inductive invariant, of a state s, files fs, contents c and the set *)
(* p of those of which something is claimed.                               *)
Using(fs, i) == {h \in Handles : fs[h].open /\ fs[h].inode = i}

Typed(s, fs, c, p) ==
    s \in States /\ fs \in [Handles -> Opened \cup {Closed}] /\ c \in [Numbers -> Seq(Ids)]
    /\ p \subseteq Numbers

(* A directory has the blocks its entries need.                            *)
DirectoriesFit(s) ==
    \A i \in Numbers : s.inode[i].kind = "dir" =>
        s.inode[i].block_count = InBlocks(s.inode[i].size) /\ s.inode[i].size <= MaxSize

(* An open inode is in use, and each file_t holds a block of its own one.  *)
AtHome(s, fs) ==
    \A h \in Handles : fs[h].open => s.inode[fs[h].inode].kind # "free" /\ Home(s, fs[h])

AllSmall(s, p) == p # {} => \A i \in Numbers : Small(s, i)

(* A file of which something is claimed: the one file_t it may have open   *)
(* has not been sought, and buffer and disk together hold its contents.    *)
PlainFile(s, fs, c, i) ==
    /\ s.inode[i].size = Len(c) /\ InBlocks(Len(c)) <= s.inode[i].block_count
    /\ \A h, g \in Using(fs, i) : h = g
    /\ Using(fs, i) = {} => Holding(s, i, FS_DATA_FAILURE, <<>>, c)
    /\ \A h \in Using(fs, i) :
          /\ Tracks(s, fs[h]) /\ fs[h].cursor <= Len(c)
          /\ Holding(s, i, fs[h].block_index, fs[h].block, c)

Sound(s, fs, c, p) ==
    /\ Typed(s, fs, c, p) /\ Apart(s) /\ DirectoriesFit(s) /\ AtHome(s, fs) /\ AllSmall(s, p)
    /\ \A i \in p : PlainFile(s, fs, c[i], i)

IInv == Sound(State, file, contents, plain) /\ answer.is = answer.due

(* A step on inode i, its contents and file_t, after which all that the    *)
(* invariant says of i is so.                                              *)
OnlyOf(i, s, fs, c, p, u, gs, d, q) ==
    /\ Typed(u, gs, d, q) /\ q \subseteq p \cup {i}
    /\ \A j \in Numbers : j # i => u.inode[j] = s.inode[j] /\ d[j] = c[j]
    /\ \A h \in Handles : gs[h] = fs[h] \/ /\ gs[h].open => gs[h].inode = i
                                           /\ fs[h].open => fs[h].inode = i
    /\ q # {} => Beside(s, i, u)
    /\ Apart(u)
    /\ u.inode[i].kind = "dir" =>
          u.inode[i].block_count = InBlocks(u.inode[i].size) /\ u.inode[i].size <= MaxSize
    /\ \A h \in Using(gs, i) : u.inode[i].kind # "free" /\ Home(u, gs[h])
    /\ AllSmall(u, q)
    /\ i \in q => PlainFile(u, gs, d[i], i)

(* What holds of all others still does.                                    *)
LEMMA SoundStep ==
    ASSUME NEW s, NEW fs, NEW c, NEW p, Sound(s, fs, c, p), NEW i \in Numbers,
           NEW u, NEW gs, NEW d, NEW q, OnlyOf(i, s, fs, c, p, u, gs, d, q)
    PROVE  Sound(u, gs, d, q)
<1>0. /\ Typed(u, gs, d, q) /\ q \subseteq p \cup {i}
      /\ \A j \in Numbers : j # i => u.inode[j] = s.inode[j] /\ d[j] = c[j]
      /\ \A h \in Handles : gs[h] = fs[h] \/ /\ gs[h].open => gs[h].inode = i
                                             /\ fs[h].open => fs[h].inode = i
      /\ q # {} => Beside(s, i, u)
      /\ Apart(u)
      /\ u.inode[i].kind = "dir" =>
            u.inode[i].block_count = InBlocks(u.inode[i].size) /\ u.inode[i].size <= MaxSize
      /\ \A h \in Using(gs, i) : u.inode[i].kind # "free" /\ Home(u, gs[h])
      /\ AllSmall(u, q)
      /\ i \in q => PlainFile(u, gs, d[i], i)
  BY DEF OnlyOf
<1>1. DirectoriesFit(u)
  BY <1>0 DEF Sound, DirectoriesFit
<1>2. AtHome(u, gs)
  <2>1. SUFFICES ASSUME NEW h \in Handles, gs[h].open
                 PROVE  u.inode[gs[h].inode].kind # "free" /\ Home(u, gs[h])
    BY DEF AtHome
  <2> DEFINE j == gs[h].inode
  <2>2. CASE j = i
    BY <1>0, <2>1, <2>2 DEF Using
  <2>3. CASE j # i
    <3>1. gs[h] = fs[h]
      BY <1>0, <2>1, <2>3
    <3>2. j \in Numbers
      <4>1. gs[h] \in Opened
        <5>1. gs[h] \in Opened \cup {Closed}
          BY <1>0 DEF Typed
        <5> QED BY <2>1, <5>1 DEF Closed
      <4> QED BY <4>1 DEF Opened
    <3>3. s.inode[j].kind # "free" /\ Home(s, fs[h])
      BY <2>1, <3>1 DEF Sound, AtHome
    <3>4. u.inode[j] = s.inode[j]
      BY <1>0, <2>3, <3>2
    <3>5. OwnRows(u, j) = OwnRows(s, j) /\ (Small(u, j) <=> Small(s, j))
      BY <3>4 DEF OwnRows, Has, Small
    <3>6. Home(u, gs[h])
      <4>1. Small(s, j) => fs[h].block_id \in OwnRows(s, j) \cup {FS_DATA_FAILURE}
        BY <3>1, <3>3 DEF Home
      <4> QED BY <3>1, <3>5, <4>1 DEF Home
    <3> QED BY <3>3, <3>4, <3>6
  <2> QED BY <2>2, <2>3
<1>3. ASSUME NEW j \in q PROVE PlainFile(u, gs, d[j], j)
  <2>1. CASE j = i
    BY <1>0, <1>3, <2>1
  <2>2. CASE j # i
    <3>1. j \in Numbers /\ j \in p /\ q # {} /\ p # {}
      BY <1>0, <1>3, <2>2 DEF Typed
    <3>2. PlainFile(s, fs, c[j], j) /\ Small(s, j) /\ s \in States /\ c[j] \in Seq(Ids)
      BY <3>1 DEF Sound, AllSmall, Typed
    <3>3. SameFile(s, j, u) /\ u.inode[j] = s.inode[j] /\ d[j] = c[j]
      BY <1>0, <2>2, <3>1, BesideSame
    <3>4. /\ Using(gs, j) = Using(fs, j)
          /\ \A h \in Using(fs, j) : gs[h] = fs[h]
      <4>1. ASSUME NEW h \in Handles
            PROVE  (h \in Using(gs, j) <=> h \in Using(fs, j)) /\ (h \in Using(fs, j) => gs[h] = fs[h])
        <5>1. CASE gs[h] = fs[h]
          BY <5>1 DEF Using
        <5>2. CASE gs[h] # fs[h]
          <6>1. (gs[h].open => gs[h].inode = i) /\ (fs[h].open => fs[h].inode = i)
            BY <1>0, <5>2
          <6> QED BY <2>2, <6>1 DEF Using
        <5> QED BY <5>1, <5>2
      <4> QED BY <4>1 DEF Using
    <3>5. /\ \A k \in Has(s, j) : u.inode[j].blocks[k] = s.inode[j].blocks[k]
          /\ \A b \in OwnRows(s, j) : u.disk[b] = s.disk[b]
      BY <3>3 DEF SameFile
    <3>6. InBlocks(Len(c[j])) <= s.inode[j].block_count /\ s.inode[j].size = Len(c[j])
      BY <3>2 DEF PlainFile
    <3>7. \A at, row : Holding(s, j, at, row, c[j]) => Holding(u, j, at, row, c[j])
      BY <3>1, <3>2, <3>5, <3>6, StillHolding
    <3>8. \A f : f.inode = j /\ Tracks(s, f) => Tracks(u, f)
      <4>1. Has(s, j) \subseteq Has(u, j)
        BY <3>3 DEF Has
      <4> QED BY <3>2, <3>5, <4>1, StillAtPlace
    <3>9. \A h \in Using(gs, j) :
             /\ Tracks(u, gs[h]) /\ gs[h].cursor <= Len(c[j])
             /\ Holding(u, j, gs[h].block_index, gs[h].block, c[j])
      <4>1. SUFFICES ASSUME NEW h \in Using(gs, j)
                     PROVE  /\ Tracks(u, gs[h]) /\ gs[h].cursor <= Len(c[j])
                            /\ Holding(u, j, gs[h].block_index, gs[h].block, c[j])
        OBVIOUS
      <4>2. h \in Using(fs, j) /\ gs[h] = fs[h] /\ fs[h].inode = j
        BY <3>4 DEF Using
      <4> QED BY <3>2, <3>7, <3>8, <4>2 DEF PlainFile
    <3>10. Using(gs, j) = {} => Holding(u, j, FS_DATA_FAILURE, <<>>, c[j])
      BY <3>2, <3>4, <3>7 DEF PlainFile
    <3>11. \A h, g \in Using(gs, j) : h = g
      BY <3>2, <3>4 DEF PlainFile
    <3> QED BY <3>3, <3>6, <3>9, <3>10, <3>11 DEF PlainFile
  <2> QED BY <2>1, <2>2
<1> QED BY <1>0, <1>1, <1>2, <1>3 DEF Sound

(* An open handle has a file_t, of an inode there is.                      *)
LEMMA OpenIs ==
    ASSUME NEW s, NEW fs, NEW c, NEW p, Typed(s, fs, c, p), NEW h \in Handles, fs[h].open
    PROVE  fs[h] \in Opened /\ fs[h].inode \in Numbers
<1>1. fs[h] \in Opened \cup {Closed}
  BY DEF Typed
<1>2. fs[h] \in Opened
  BY <1>1 DEF Closed
<1> QED BY <1>2 DEF Opened

(* What holds of the open file h: it is one of its inode, it is at home,   *)
(* and the contents are intact if anything is claimed of them.             *)
UsedWell(s, fs, c, p, h, f, i) ==
    /\ f \in Opened /\ i \in Numbers /\ h \in Using(fs, i)
    /\ s.inode[i].kind # "free" /\ Home(s, f)
    /\ i \in p => /\ Intact(s, f, c[i]) /\ Small(s, i) /\ s.inode[i].size = Len(c[i])
                  /\ f.cursor <= Len(c[i]) /\ c[i] \in Seq(Ids)
                  /\ \A g \in Using(fs, i) : g = h

(* That follows from the invariant.                                        *)
LEMMA OpenSound ==
    ASSUME NEW s, NEW fs, NEW c, NEW p, Sound(s, fs, c, p), NEW h \in Handles, fs[h].open
    PROVE  UsedWell(s, fs, c, p, h, fs[h], fs[h].inode)
<1> DEFINE f == fs[h]
           i == fs[h].inode
<1>1. f \in Opened /\ i \in Numbers /\ h \in Using(fs, i)
  BY OpenIs DEF Sound, Using
<1>2. s.inode[i].kind # "free" /\ Home(s, f)
  BY DEF Sound, AtHome
<1>3. ASSUME i \in p
      PROVE  /\ Intact(s, f, c[i]) /\ Small(s, i) /\ s.inode[i].size = Len(c[i])
             /\ f.cursor <= Len(c[i]) /\ c[i] \in Seq(Ids) /\ \A g \in Using(fs, i) : g = h
  <2>1. PlainFile(s, fs, c[i], i) /\ Small(s, i) /\ Apart(s) /\ c[i] \in Seq(Ids)
    BY <1>1, <1>3 DEF Sound, AllSmall, Typed
  <2> QED BY <1>1, <2>1 DEF PlainFile, Intact
<1> QED BY <1>1, <1>2, <1>3 DEF UsedWell

(* An inode that is created or destroyed has no blocks.                    *)
LEMMA EmptyInode ==
    ASSUME NEW s, NEW fs, NEW c, NEW p, Sound(s, fs, c, p), NEW i \in Numbers, Using(fs, i) = {},
           NEW node \in Inodes, node.block_count = 0, node.size = 0,
           NEW u, u = [disk |-> s.disk, used |-> s.used, inode |-> [s.inode EXCEPT ![i] = node]],
           NEW d, d = [c EXCEPT ![i] = <<>>], NEW q, q \subseteq p \cup {i}, AllSmall(s, q)
    PROVE  Sound(u, fs, d, q)
<1>1. /\ s \in States /\ fs \in [Handles -> Opened \cup {Closed}] /\ c \in [Numbers -> Seq(Ids)]
      /\ p \subseteq Numbers /\ Apart(s) /\ s.inode \in [Numbers -> Inodes]
  BY StateFields DEF Sound, Typed
<1>2. <<>> \in Seq(Ids) /\ Len(<<>>) = 0
  OBVIOUS
<1>3. /\ d \in [Numbers -> Seq(Ids)] /\ d[i] = <<>>
      /\ \A j \in Numbers : j # i => d[j] = c[j]
  BY <1>1, <1>2
<1> DEFINE table == [s.inode EXCEPT ![i] = node]
<1>4. /\ table \in [Numbers -> Inodes] /\ table[i] = node
      /\ \A j \in Numbers : j # i => table[j] = s.inode[j]
  BY <1>1
<1> HIDE DEF table
<1>5. u.disk = s.disk /\ u.used = s.used /\ u.inode = table
  BY DEF table
<1>6. u \in States
  BY <1>1, <1>4, StateFields DEF States, table
<1>7. Typed(u, fs, d, q)
  BY <1>1, <1>3, <1>6 DEF Typed
<1>8. /\ \A j \in Numbers : j # i => u.inode[j] = s.inode[j] /\ d[j] = c[j]
      /\ u.inode[i] = node
  BY <1>3, <1>4, <1>5
<1>9. \A j \in Numbers : Has(u, j) = IF j = i THEN {} ELSE Has(s, j)
  BY <1>8, Bounds DEF Has
<1>10. Apart(u)
  <2>1. SUFFICES ASSUME NEW j \in Numbers, NEW l \in Numbers, NEW m \in Has(u, j), NEW n \in Has(u, l)
                 PROVE  /\ u.inode[j].blocks[m] \in u.used
                        /\ u.inode[j].blocks[m] = u.inode[l].blocks[n] => j = l /\ m = n
    BY DEF Apart
  <2>2. j # i /\ l # i /\ m \in Has(s, j) /\ n \in Has(s, l)
    BY <1>9
  <2>3. u.inode[j] = s.inode[j] /\ u.inode[l] = s.inode[l]
    BY <1>8, <2>2
  <2> QED BY <1>1, <1>5, <2>2, <2>3 DEF Apart
<1>11. Beside(s, i, u)
  BY <1>5, <1>8 DEF Beside
<1>12. InBlocks(0) = 0 /\ 0 <= MaxSize /\ 0 <= POINTERS + 1 /\ 0 <= 0
  BY NoBlocks, Bounds
<1>13. AllSmall(u, q)
  <2>1. \A j \in Numbers : Small(s, j) => Small(u, j)
    BY <1>8, <1>12 DEF Small
  <2> QED BY <2>1 DEF AllSmall
<1>14. PlainFile(u, fs, d[i], i)
  <2>1. Holding(u, i, FS_DATA_FAILURE, <<>>, <<>>)
    BY DEF Holding
  <2> HIDE DEF Holding
  <2> QED BY <1>2, <1>3, <1>8, <1>12, <2>1 DEF PlainFile
<1>15. u.inode[i].block_count = InBlocks(u.inode[i].size) /\ u.inode[i].size <= MaxSize
  BY <1>8, <1>12
<1>16. OnlyOf(i, s, fs, c, p, u, fs, d, q)
  BY <1>7, <1>8, <1>10, <1>11, <1>13, <1>14, <1>15 DEF OnlyOf
<1> QED BY <1>16, SoundStep

(* A file_t of inode i that is opened, sought or closed.                   *)
LEMMA OtherFile ==
    ASSUME NEW fs \in [Handles -> Opened \cup {Closed}], NEW h \in Handles,
           NEW g \in Opened \cup {Closed}, NEW i, g.open => g.inode = i, fs[h].open => fs[h].inode = i,
           NEW gs, gs = [fs EXCEPT ![h] = g]
    PROVE  /\ gs \in [Handles -> Opened \cup {Closed}] /\ gs[h] = g
           /\ \A o \in Handles : gs[o] = fs[o] \/ /\ gs[o].open => gs[o].inode = i
                                                  /\ fs[o].open => fs[o].inode = i
           /\ \A o \in Handles : o # h => gs[o] = fs[o]
<1>1. gs \in [Handles -> Opened \cup {Closed}] /\ gs[h] = g /\ \A o \in Handles : o # h => gs[o] = fs[o]
  OBVIOUS
<1> QED BY <1>1

(* file_seek: nothing is claimed of the file any more.                     *)
LEMMA Sought ==
    ASSUME NEW s, NEW fs, NEW c, NEW p, Sound(s, fs, c, p), NEW h \in Handles, fs[h].open,
           NEW cursor \in Nat, NEW gs, gs = [fs EXCEPT ![h].cursor = cursor]
    PROVE  Sound(s, gs, c, p \ {fs[h].inode})
<1> DEFINE f == fs[h]
           i == f.inode
           g == [f EXCEPT !.cursor = cursor]
           q == p \ {i}
<1>1. /\ s \in States /\ fs \in [Handles -> Opened \cup {Closed}] /\ c \in [Numbers -> Seq(Ids)]
      /\ p \subseteq Numbers /\ Apart(s)
  BY DEF Sound, Typed
<1>2. f \in Opened /\ i \in Numbers /\ h \in Using(fs, i) /\ s.inode[i].kind # "free" /\ Home(s, f)
  <2>1. UsedWell(s, fs, c, p, h, f, i)
    BY OpenSound
  <2> HIDE DEF f, i
  <2> QED BY <2>1 DEF UsedWell
<1>3. gs = [fs EXCEPT ![h] = g]
  OBVIOUS
<1>4. g \in Opened /\ g.inode = i /\ g.block_id = f.block_id
  <2> HIDE DEF f
  <2> QED BY <1>2, MovedTo
<1> HIDE DEF g
<1>5. /\ gs \in [Handles -> Opened \cup {Closed}] /\ gs[h] = g
      /\ \A o \in Handles : gs[o] = fs[o] \/ /\ gs[o].open => gs[o].inode = i
                                             /\ fs[o].open => fs[o].inode = i
      /\ \A o \in Handles : o # h => gs[o] = fs[o]
  BY <1>1, <1>3, <1>4, OtherFile
<1>6. \A o \in Using(gs, i) : Home(s, gs[o])
  <2>1. Home(s, g)
    BY <1>2, <1>4 DEF Home
  <2>2. \A o \in Using(gs, i) : o # h => Home(s, fs[o])
    BY <1>5 DEF Using, Sound, AtHome
  <2> QED BY <1>5, <2>1, <2>2 DEF Using
<1>7. Typed(s, gs, c, q)
  BY <1>1, <1>5 DEF Typed
<1>8. Beside(s, i, s)
  BY DEF Beside
<1>9. AllSmall(s, q) /\ i \notin q /\ q \subseteq p \cup {i}
  BY DEF Sound, AllSmall
<1>10. s.inode[i].kind = "dir" =>
         s.inode[i].block_count = InBlocks(s.inode[i].size) /\ s.inode[i].size <= MaxSize
  BY <1>2 DEF Sound, DirectoriesFit
<1> HIDE DEF q, i, f
<1>11. OnlyOf(i, s, fs, c, p, s, gs, c, q)
  BY <1>1, <1>2, <1>5, <1>6, <1>7, <1>8, <1>9, <1>10 DEF OnlyOf
<1>12. Sound(s, gs, c, q)
  BY <1>2, <1>11, SoundStep
<1> QED BY <1>12 DEF q, i, f

(* file_open: a file that was open before is not claimed of any more.      *)
LEMMA FileOpened ==
    ASSUME NEW s, NEW fs, NEW c, NEW p, Sound(s, fs, c, p), NEW h \in Handles, ~ fs[h].open,
           NEW i \in Numbers, s.inode[i].kind # "free",
           NEW g \in Opened, g.inode = i, g.cursor = 0, g.block_index = FS_DATA_FAILURE,
           g.block_id = FS_DATA_FAILURE, ~ g.dirty,
           NEW gs, gs = [fs EXCEPT ![h] = g]
    PROVE  Sound(s, gs, c, IF Using(fs, i) = {} THEN p ELSE p \ {i})
<1> DEFINE q == IF Using(fs, i) = {} THEN p ELSE p \ {i}
<1>1. /\ s \in States /\ fs \in [Handles -> Opened \cup {Closed}] /\ c \in [Numbers -> Seq(Ids)]
      /\ p \subseteq Numbers /\ Apart(s)
  BY DEF Sound, Typed
<1>2. g.open
  BY DEF Opened
<1>3. /\ gs \in [Handles -> Opened \cup {Closed}] /\ gs[h] = g
      /\ \A o \in Handles : gs[o] = fs[o] \/ /\ gs[o].open => gs[o].inode = i
                                             /\ fs[o].open => fs[o].inode = i
      /\ \A o \in Handles : o # h => gs[o] = fs[o]
  BY <1>1, OtherFile
<1>4. \A o \in Using(gs, i) : Home(s, gs[o])
  <2>1. Home(s, g)
    BY DEF Home
  <2>2. \A o \in Using(gs, i) : o # h => Home(s, fs[o])
    BY <1>3 DEF Using, Sound, AtHome
  <2> QED BY <1>3, <2>1, <2>2 DEF Using
<1>5. Typed(s, gs, c, q)
  BY <1>1, <1>3 DEF Typed
<1>6. Beside(s, i, s)
  BY DEF Beside
<1>7. AllSmall(s, q) /\ q \subseteq p \cup {i}
  BY DEF Sound, AllSmall
<1>8. ASSUME i \in q PROVE PlainFile(s, gs, c[i], i)
  <2>1. Using(fs, i) = {} /\ i \in p
    BY <1>8
  <2>2. PlainFile(s, fs, c[i], i) /\ Small(s, i) /\ c[i] \in Seq(Ids)
    BY <1>1, <2>1 DEF Sound, AllSmall
  <2>3. Using(gs, i) = {h}
    BY <1>2, <1>3, <2>1 DEF Using
  <2>4. Tracks(s, g)
    <3>1. InBlocks(0) - 1 = FS_DATA_FAILURE
      BY NoBlocks DEF FS_DATA_FAILURE
    <3> QED BY <3>1 DEF Tracks
  <2>5. Holding(s, i, FS_DATA_FAILURE, g.block, c[i])
    <3>1. SUFFICES ASSUME NEW k \in 1 .. Len(c[i])
                   PROVE  Row(s, i, FS_DATA_FAILURE, g.block, (k - 1) \div CELLS)[(k - 1) % CELLS]
                          = c[i][k]
      BY DEF Holding
    <3> DEFINE x == (k - 1) \div CELLS
    <3>2. x \in Has(s, i)
      BY <1>1, <2>2, CellsInTable DEF PlainFile
    <3>3. Row(s, i, FS_DATA_FAILURE, <<>>, x)[(k - 1) % CELLS] = c[i][k]
      BY <2>1, <2>2 DEF PlainFile, Holding
    <3> HIDE DEF x
    <3>4. x # FS_DATA_FAILURE
      BY <3>2, Bounds DEF Has
    <3> QED BY <3>3, <3>4 DEF Row, x
  <2>6. 0 <= Len(c[i])
    BY <2>2
  <2> QED BY <1>3, <2>2, <2>3, <2>4, <2>5, <2>6 DEF PlainFile
<1>9. s.inode[i].kind = "dir" =>
         s.inode[i].block_count = InBlocks(s.inode[i].size) /\ s.inode[i].size <= MaxSize
  BY DEF Sound, DirectoriesFit
<1> HIDE DEF q
<1>10. OnlyOf(i, s, fs, c, p, s, gs, c, q)
  BY <1>1, <1>3, <1>4, <1>5, <1>6, <1>7, <1>8, <1>9 DEF OnlyOf
<1>11. Sound(s, gs, c, q)
  BY <1>10, SoundStep
<1> QED BY <1>11 DEF q

(* One file_t of a file of which something is claimed.                     *)
LEMMA TheOnlyOne ==
    ASSUME NEW s, NEW gs, NEW c, NEW i, NEW h, Using(gs, i) = {h}, s.inode[i].size = Len(c),
           gs[h].inode = i, Intact(s, gs[h], c), gs[h].cursor <= Len(c)
    PROVE  PlainFile(s, gs, c, i)
<1> DEFINE g == gs[h]
<1>1. /\ Tracks(s, g) /\ InBlocks(Len(c)) <= s.inode[i].block_count
      /\ Holding(s, i, g.block_index, g.block, c) /\ g.cursor <= Len(c)
  BY DEF Intact
<1> HIDE DEF g
<1>2. \A o \in Using(gs, i) : gs[o] = g
  BY DEF g
<1> QED BY <1>1, <1>2 DEF PlainFile

ReadOf(s, fs, c, p, h, count, t, gs) ==
    /\ fs[h].open /\ (fs[h].inode \in p => fs[h].cursor + count <= Len(c[fs[h].inode]))
    /\ t = read_cells(s, fs[h], count) /\ gs = [fs EXCEPT ![h] = t.f]

ReadWell(s, fs, c, p, h, count, t, gs) ==
    /\ Sound(t.s, gs, c, p) /\ t.s \in States
    /\ fs[h].inode \in p =>
          t.read = SubSeq(c[fs[h].inode], fs[h].cursor + 1, fs[h].cursor + count)

(* file_read leaves every file as it was, and returns what this one holds. *)
LEMMA FileRead ==
    ASSUME NEW s, NEW fs, NEW c, NEW p, Sound(s, fs, c, p), NEW h \in Handles, NEW count \in Nat,
           NEW t, NEW gs, ReadOf(s, fs, c, p, h, count, t, gs)
    PROVE  ReadWell(s, fs, c, p, h, count, t, gs)
<1> DEFINE f == fs[h]
           i == f.inode
<1>0. /\ fs[h].open /\ (i \in p => f.cursor + count <= Len(c[i]))
      /\ t = read_cells(s, f, count) /\ gs = [fs EXCEPT ![h] = t.f]
  BY DEF ReadOf
<1>1. /\ s \in States /\ fs \in [Handles -> Opened \cup {Closed}] /\ c \in [Numbers -> Seq(Ids)]
      /\ p \subseteq Numbers /\ Apart(s)
  BY DEF Sound, Typed
<1>2. /\ f \in Opened /\ i \in Numbers /\ h \in Using(fs, i) /\ s.inode[i].kind # "free" /\ Home(s, f)
      /\ i \in p => /\ Intact(s, f, c[i]) /\ Small(s, i) /\ s.inode[i].size = Len(c[i])
                    /\ \A o \in Using(fs, i) : o = h
  <2>1. UsedWell(s, fs, c, p, h, f, i)
    BY <1>0, OpenSound
  <2> HIDE DEF f, i
  <2> QED BY <2>1 DEF UsedWell
<1> DEFINE u == t.s
           g == t.f
<1>3. /\ Within(s, f, u, g) /\ g.cursor = f.cursor + count
      /\ \A x : Intact(s, f, x) /\ f.cursor + count <= Len(x) =>
            Intact(u, g, x) /\ t.read = SubSeq(x, f.cursor + 1, f.cursor + count)
  <2> HIDE DEF f
  <2>1. t = read_cells(s, f, count)
    BY <1>0
  <2> QED BY <1>1, <1>2, <2>1, ReadCells
<1>4. /\ u \in States /\ g \in Opened /\ u.used = s.used /\ u.inode = s.inode /\ g.inode = i
      /\ Home(u, g)
  BY <1>2, <1>3 DEF Within
<1>5. /\ gs \in [Handles -> Opened \cup {Closed}] /\ gs[h] = g
      /\ \A o \in Handles : gs[o] = fs[o] \/ /\ gs[o].open => gs[o].inode = i
                                             /\ fs[o].open => fs[o].inode = i
      /\ \A o \in Handles : o # h => gs[o] = fs[o]
  <2> HIDE DEF g
  <2>1. gs = [fs EXCEPT ![h] = g]
    BY <1>0 DEF g
  <2> QED BY <1>1, <1>4, <2>1, OtherFile
<1>6. i \in p => f.cursor + count <= Len(c[i])
  BY <1>0
<1>7. g.open
  BY <1>4 DEF Opened
<1> SUFFICES /\ Sound(u, gs, c, p) /\ u \in States
             /\ i \in p => t.read = SubSeq(c[i], f.cursor + 1, f.cursor + count)
  BY DEF ReadWell
<1> HIDE DEF f, i, u, g
<1>8. \A o \in Using(gs, i) : Home(u, gs[o])
  <2>1. \A x : Home(s, x) => Home(u, x)
    <3>1. \A j : OwnRows(u, j) = OwnRows(s, j) /\ (Small(u, j) <=> Small(s, j))
      BY <1>4, SameTables
    <3> QED BY <3>1 DEF Home
  <2>2. \A o \in Using(gs, i) : o # h => Home(s, fs[o])
    BY <1>5 DEF Using, Sound, AtHome
  <2> QED BY <1>4, <1>5, <2>1, <2>2 DEF Using
<1>9. Typed(u, gs, c, p)
  BY <1>1, <1>4, <1>5 DEF Typed
<1>10. p # {} => Beside(s, i, u)
  <2>1. p # {} => Small(s, i)
    BY <1>2 DEF Sound, AllSmall
  <2> QED BY <1>1, <1>2, <1>3, <2>1, WithinBeside DEF i
<1>11. Apart(u) /\ AllSmall(u, p)
  <2>1. \A j \in Numbers : Small(s, j) => Small(u, j)
    BY <1>4, SameTables
  <2> QED BY <1>1, <1>4, <2>1, SameTables DEF Sound, AllSmall
<1>12. ASSUME i \in p PROVE PlainFile(u, gs, c[i], i)
  <2>1. Using(gs, i) = {h}
    BY <1>2, <1>4, <1>5, <1>7, <1>12 DEF Using
  <2>2. Intact(u, g, c[i]) /\ g.cursor <= Len(c[i]) /\ u.inode[i].size = Len(c[i])
    BY <1>2, <1>3, <1>4, <1>6, <1>12
  <2>3. Intact(u, gs[h], c[i]) /\ gs[h].cursor <= Len(c[i]) /\ gs[h].inode = i
    BY <1>4, <1>5, <2>2
  <2> QED BY <2>1, <2>2, <2>3, TheOnlyOne
<1>13. /\ u.inode[i].kind # "free"
       /\ u.inode[i].kind = "dir" =>
             u.inode[i].block_count = InBlocks(u.inode[i].size) /\ u.inode[i].size <= MaxSize
  BY <1>2, <1>4 DEF Sound, DirectoriesFit
<1>14. OnlyOf(i, s, fs, c, p, u, gs, c, p)
  BY <1>4, <1>5, <1>8, <1>9, <1>10, <1>11, <1>12, <1>13 DEF OnlyOf
<1>15. Sound(u, gs, c, p)
  BY <1>2, <1>14, SoundStep
<1> QED BY <1>2, <1>3, <1>4, <1>6, <1>15

(* file_close: what was in the buffer is on the disk.                      *)
LEMMA FileClosed ==
    ASSUME NEW s, NEW fs, NEW c, NEW p, Sound(s, fs, c, p), NEW h \in Handles, fs[h].open,
           NEW gs, gs = [fs EXCEPT ![h] = Closed]
    PROVE  Sound(Saved(s, fs[h]), gs, c, p)
<1> DEFINE f == fs[h]
           i == f.inode
           u == Saved(s, f)
<1>1. /\ s \in States /\ fs \in [Handles -> Opened \cup {Closed}] /\ c \in [Numbers -> Seq(Ids)]
      /\ p \subseteq Numbers /\ Apart(s)
  BY DEF Sound, Typed
<1>2. /\ f \in Opened /\ i \in Numbers /\ h \in Using(fs, i) /\ s.inode[i].kind # "free" /\ Home(s, f)
      /\ i \in p => /\ Intact(s, f, c[i]) /\ Small(s, i) /\ s.inode[i].size = Len(c[i])
                    /\ \A o \in Using(fs, i) : o = h
  <2>1. UsedWell(s, fs, c, p, h, f, i)
    BY OpenSound
  <2> HIDE DEF f, i
  <2> QED BY <2>1 DEF UsedWell
<1>3. /\ u \in States /\ u.used = s.used /\ u.inode = s.inode
      /\ ~ f.dirty => u = s
      /\ f.dirty => u.disk[f.block_id] = f.block
      /\ \A b \in Ids : b # f.block_id => u.disk[b] = s.disk[b]
  <2> HIDE DEF f
  <2> QED BY <1>1, <1>2, SavedState
<1>4. Within(s, f, u, Loaded(s, f))
  <2> HIDE DEF f
  <2> QED BY <1>1, <1>2, LoadWithin
<1>5. /\ gs \in [Handles -> Opened \cup {Closed}] /\ gs[h] = Closed /\ ~ Closed.open
      /\ \A o \in Handles : gs[o] = fs[o] \/ /\ gs[o].open => gs[o].inode = i
                                             /\ fs[o].open => fs[o].inode = i
      /\ \A o \in Handles : o # h => gs[o] = fs[o]
  <2>1. Closed \in Opened \cup {Closed} /\ ~ Closed.open
    BY DEF Closed
  <2> QED BY <1>1, <2>1, OtherFile
<1> SUFFICES Sound(u, gs, c, p)
  OBVIOUS
<1> HIDE DEF f, i, u
<1>6. \A o \in Using(gs, i) : Home(u, gs[o])
  <2>1. \A x : Home(s, x) => Home(u, x)
    <3>1. \A j : OwnRows(u, j) = OwnRows(s, j) /\ (Small(u, j) <=> Small(s, j))
      BY <1>3, SameTables
    <3> QED BY <3>1 DEF Home
  <2>2. \A o \in Using(gs, i) : o # h /\ gs[o] = fs[o] /\ Home(s, fs[o])
    BY <1>5 DEF Using, Sound, AtHome
  <2> QED BY <2>1, <2>2
<1>7. Typed(u, gs, c, p)
  BY <1>1, <1>3, <1>5 DEF Typed
<1>8. p # {} => Beside(s, i, u)
  <2>1. p # {} => Small(s, i)
    BY <1>2 DEF Sound, AllSmall
  <2> QED BY <1>1, <1>2, <1>4, <2>1, WithinBeside DEF i
<1>9. Apart(u) /\ AllSmall(u, p)
  <2>1. \A j \in Numbers : Small(s, j) => Small(u, j)
    BY <1>3, SameTables
  <2> QED BY <1>1, <1>3, <2>1, SameTables DEF Sound, AllSmall
<1>10. ASSUME i \in p PROVE PlainFile(u, gs, c[i], i)
  <2>1. Using(gs, i) = {}
    BY <1>2, <1>5, <1>10 DEF Using
  <2>2. /\ Small(s, i) /\ Tracks(s, f) /\ c[i] \in Seq(Ids)
        /\ InBlocks(Len(c[i])) <= s.inode[i].block_count
        /\ Holding(s, i, f.block_index, f.block, c[i])
    BY <1>2, <1>10 DEF Intact, i
  <2>3. Holding(u, i, FS_DATA_FAILURE, <<>>, c[i])
    <3>1. SUFFICES ASSUME NEW k \in 1 .. Len(c[i])
                   PROVE  Row(u, i, FS_DATA_FAILURE, <<>>, (k - 1) \div CELLS)[(k - 1) % CELLS]
                          = c[i][k]
      BY DEF Holding
    <3> DEFINE x == (k - 1) \div CELLS
               table == s.inode[i].blocks
    <3>2. x \in Has(s, i)
      BY <1>1, <1>2, <2>2, CellsInTable
    <3>3. Row(s, i, f.block_index, f.block, x)[(k - 1) % CELLS] = c[i][k]
      BY <2>2 DEF Holding
    <3> HIDE DEF x
    <3>4. x # FS_DATA_FAILURE /\ table[x] \in Ids
      <4>1. table \in [0 .. POINTERS -> Ids]
        BY <1>1, <1>2, InodeFields DEF Tables
      <4> QED BY <3>2, <4>1, Bounds DEF Has
    <3>5. f.block_index # FS_DATA_FAILURE =>
             /\ f.block_index \in Has(s, i) /\ f.block_id = table[f.block_index]
             /\ ~ f.dirty => f.block = s.disk[f.block_id]
      BY <2>2 DEF Tracks, Stands, i
    <3>6. f.block_index = FS_DATA_FAILURE => ~ f.dirty
      BY <2>2 DEF Tracks
    <3>7. \A y \in Has(s, i) : table[x] = table[y] => x = y
      BY <1>1, <1>2, <3>2 DEF Apart
    <3>8. u.disk[table[x]] = Row(s, i, f.block_index, f.block, x)
      <4>1. CASE x = f.block_index
        BY <1>3, <3>4, <3>5, <4>1 DEF Row
      <4>2. CASE x # f.block_index
        <5>1. u.disk[table[x]] = s.disk[table[x]]
          BY <1>3, <3>4, <3>5, <3>6, <3>7, <4>2
        <5> QED BY <4>2, <5>1 DEF Row
      <4> QED BY <4>1, <4>2
    <3>9. Row(u, i, FS_DATA_FAILURE, <<>>, x) = u.disk[table[x]]
      BY <1>3, <3>4 DEF Row
    <3> QED BY <3>3, <3>8, <3>9 DEF x
  <2> QED BY <1>2, <1>3, <1>10, <2>1, <2>2, <2>3 DEF PlainFile
<1>11. /\ u.inode[i].kind # "free"
       /\ u.inode[i].kind = "dir" =>
             u.inode[i].block_count = InBlocks(u.inode[i].size) /\ u.inode[i].size <= MaxSize
  BY <1>2, <1>3 DEF Sound, DirectoriesFit
<1>12. OnlyOf(i, s, fs, c, p, u, gs, c, p)
  BY <1>3, <1>5, <1>6, <1>7, <1>8, <1>9, <1>10, <1>11 DEF OnlyOf
<1> QED BY <1>2, <1>12, SoundStep

(* Only the size of inode i is another one.                                *)
Sized(s, i, size) == [s EXCEPT !.inode[i].size = size]

LEMMA SizeSet ==
    ASSUME NEW s \in States, NEW i \in Numbers, NEW size \in Nat, NEW u, u = Sized(s, i, size)
    PROVE  /\ u \in States /\ u.disk = s.disk /\ u.used = s.used /\ Beside(s, i, u)
           /\ u.inode[i].size = size /\ u.inode[i].kind = s.inode[i].kind
           /\ u.inode[i].block_count = s.inode[i].block_count
           /\ \A j \in Numbers : u.inode[j].blocks = s.inode[j].blocks /\ Has(u, j) = Has(s, j)
                                 /\ OwnRows(u, j) = OwnRows(s, j) /\ (Small(u, j) <=> Small(s, j))
           /\ Apart(s) => Apart(u)
<1> DEFINE node == [s.inode[i] EXCEPT !.size = size]
           table == [s.inode EXCEPT ![i] = node]
<1>1. s.inode \in [Numbers -> Inodes] /\ s.inode[i] \in Inodes
  BY StateFields
<1>2. /\ node \in Inodes /\ node.size = size /\ node.kind = s.inode[i].kind
      /\ node.block_count = s.inode[i].block_count /\ node.blocks = s.inode[i].blocks
  BY <1>1 DEF Inodes
<1> HIDE DEF node
<1>3. /\ table \in [Numbers -> Inodes] /\ table[i] = node
      /\ \A j \in Numbers : j # i => table[j] = s.inode[j]
  BY <1>1, <1>2
<1>4. u = [s EXCEPT !.inode = table]
  BY DEF node, Sized
<1> HIDE DEF table
<1>5. u = [disk |-> s.disk, used |-> s.used, inode |-> table]
  BY <1>4, StateFields
<1>6. u \in States
  BY <1>3, <1>5, StateFields DEF States
<1>7. u.disk = s.disk /\ u.used = s.used /\ u.inode = table
  BY <1>5
<1>8. /\ \A j \in Numbers : u.inode[j].blocks = s.inode[j].blocks
      /\ \A j \in Numbers : u.inode[j].block_count = s.inode[j].block_count
  BY <1>2, <1>3, <1>7
<1>9. \A j \in Numbers : Has(u, j) = Has(s, j)
  BY <1>8 DEF Has
<1>10. \A j \in Numbers : OwnRows(u, j) = OwnRows(s, j) /\ (Small(u, j) <=> Small(s, j))
  BY <1>8, <1>9 DEF OwnRows, Small
<1>11. Apart(s) => Apart(u)
  <2>1. SUFFICES ASSUME Apart(s), NEW j \in Numbers, NEW l \in Numbers,
                        NEW m \in Has(u, j), NEW n \in Has(u, l)
                 PROVE  /\ u.inode[j].blocks[m] \in u.used
                        /\ u.inode[j].blocks[m] = u.inode[l].blocks[n] => j = l /\ m = n
    BY DEF Apart
  <2>2. m \in Has(s, j) /\ n \in Has(s, l)
    BY <1>9
  <2>3. /\ s.inode[j].blocks[m] \in s.used
        /\ s.inode[j].blocks[m] = s.inode[l].blocks[n] => j = l /\ m = n
    BY <2>1, <2>2 DEF Apart
  <2> QED BY <1>7, <1>8, <2>3
<1>12. Beside(s, i, u)
  BY <1>3, <1>7 DEF Beside
<1> QED BY <1>2, <1>3, <1>6, <1>7, <1>8, <1>9, <1>10, <1>11, <1>12

(* The contents of a file do not depend on its size.                       *)
LEMMA SizeSetIntact ==
    ASSUME NEW s \in States, NEW f \in Opened, NEW size \in Nat,
           NEW u, u = Sized(s, f.inode, size), NEW c, Intact(s, f, c)
    PROVE  Intact(u, f, c)
<1> DEFINE i == f.inode
<1>1. i \in Numbers
  BY DEF Opened
<1>2. /\ Apart(s) /\ Small(s, i) /\ Tracks(s, f) /\ c \in Seq(Ids)
      /\ InBlocks(Len(c)) <= s.inode[i].block_count
      /\ Holding(s, i, f.block_index, f.block, c)
  BY DEF Intact
<1> HIDE DEF i
<1>3. u = Sized(s, i, size)
  BY DEF i
<1>4. /\ u.disk = s.disk /\ u.inode[i].block_count = s.inode[i].block_count
      /\ u.inode[i].blocks = s.inode[i].blocks /\ Has(u, i) = Has(s, i)
      /\ (Small(u, i) <=> Small(s, i)) /\ (Apart(s) => Apart(u))
  BY <1>1, <1>3, SizeSet
<1>5. Tracks(u, f)
  BY <1>2, <1>4, StillAtPlace DEF i
<1>6. Holding(u, i, f.block_index, f.block, c)
  BY <1>1, <1>2, <1>4, StillHolding
<1> QED BY <1>2, <1>4, <1>5, <1>6 DEF Intact, i

(* More blocks for the file: the others keep theirs, and so does this one. *)
LEMMA KeptHome ==
    ASSUME NEW s \in States, NEW i \in Numbers, NEW u \in States, Kept(s, i, u),
           s.inode[i].block_count <= u.inode[i].block_count
    PROVE  /\ Small(u, i) => Small(s, i)
           /\ Has(s, i) \subseteq Has(u, i)
           /\ \A k \in Has(s, i) : u.inode[i].blocks[k] = s.inode[i].blocks[k]
           /\ \A f : f.inode = i /\ Home(s, f) => Home(u, f)
<1>1. /\ s.inode[i].block_count \in Nat /\ u.inode[i].block_count \in Nat
      /\ POINTERS \in Nat
  BY InodeFields, Bounds
<1>2. (Small(u, i) => Small(s, i)) /\ Has(s, i) \subseteq Has(u, i)
  BY <1>1 DEF Small, Has
<1>3. \A k \in Has(s, i) : u.inode[i].blocks[k] = s.inode[i].blocks[k]
  BY DEF Kept, Has
<1>4. OwnRows(s, i) \subseteq OwnRows(u, i)
  BY <1>2, <1>3 DEF OwnRows
<1>5. \A f : f.inode = i /\ Home(s, f) => Home(u, f)
  BY <1>2, <1>4 DEF Home
<1> QED BY <1>2, <1>3, <1>5

(* What a write makes of the state and its file_t.                         *)
Stored(s, f, i, data, count, a, v, g) ==
    /\ v \in States /\ g \in Opened /\ g.inode = i /\ g.cursor = f.cursor + Len(data)
    /\ v.inode[i].kind = s.inode[i].kind
    /\ \A j \in Numbers : j # i => v.inode[j] = s.inode[j]
    /\ Apart(v) /\ Home(v, g) /\ \A x : x.inode = i /\ Home(s, x) => Home(v, x)
    /\ Small(a.s, i) => Beside(s, i, v) /\ Small(v, i)
    /\ \A c : /\ Intact(s, f, c) /\ a.ok /\ Small(a.s, i) /\ f.cursor = Len(c)
              /\ count = InBlocks(Len(data))
              => Intact(v, g, c \o data)

(* That follows from what allocating and writing cells do.                 *)
LEMMA WrittenState ==
    ASSUME NEW s \in States, Apart(s), NEW f \in Opened, Home(s, f), NEW data \in Seq(Ids),
           NEW count \in Nat, NEW a, Allocated(s, f.inode, count, a),
           NEW t, t = write_cells(a.s, f, data),
           NEW size \in Nat, NEW v, v = Sized(t.s, f.inode, size)
    PROVE  Stored(s, f, f.inode, data, count, a, v, t.f) /\ v.inode[f.inode].size = size
<1> DEFINE i == f.inode
           n == s.inode[i].block_count
           u == t.s
           g == t.f
<1>1. i \in Numbers
  BY DEF Opened
<1>2. /\ a.s \in States /\ a.ok \in BOOLEAN /\ Kept(s, i, a.s) /\ Apart(a.s)
      /\ a.ok => a.s.inode[i].block_count = n + count
      /\ ~ a.ok => a.s.inode[i].block_count = n
      /\ n + count <= POINTERS + 1 => a.s.disk = s.disk
      /\ a.s.inode[i].kind = s.inode[i].kind
      /\ \A j \in Numbers : j # i => a.s.inode[j] = s.inode[j]
  BY DEF Allocated, Results, Kept
<1>3. n \in Nat
  <2> HIDE DEF i
  <2> QED BY <1>1, InodeFields
<1>4. n <= a.s.inode[i].block_count
  <2> HIDE DEF i, n
  <2> QED BY <1>2, <1>3
<1>5. /\ Small(a.s, i) => Small(s, i)
      /\ Has(s, i) \subseteq Has(a.s, i)
      /\ \A k \in Has(s, i) : a.s.inode[i].blocks[k] = s.inode[i].blocks[k]
      /\ \A x : x.inode = i /\ Home(s, x) => Home(a.s, x)
  <2> HIDE DEF i
  <2> QED BY <1>1, <1>2, <1>4, KeptHome DEF n
<1>6. /\ Within(a.s, f, u, g) /\ g.cursor = f.cursor + Len(data)
      /\ \A x : /\ Intact(a.s, f, x) /\ f.cursor = Len(x)
                /\ InBlocks(Len(x) + Len(data)) <= a.s.inode[i].block_count
                => Intact(u, g, x \o data)
  BY <1>2, WriteCells
<1>7. Home(a.s, f)
  BY <1>5
<1>8. /\ u \in States /\ g \in Opened /\ u.used = a.s.used /\ u.inode = a.s.inode /\ g.inode = i
      /\ Home(u, g)
  BY <1>6, <1>7 DEF Within
<1>9. v = Sized(u, i, size) /\ f.inode = i
  OBVIOUS
<1> SUFFICES Stored(s, f, i, data, count, a, v, g) /\ v.inode[i].size = size
  OBVIOUS
<1> HIDE DEF i, n, u, g
<1>10. /\ v \in States /\ v.disk = u.disk /\ v.used = u.used /\ Beside(u, i, v)
       /\ v.inode[i].size = size /\ v.inode[i].kind = u.inode[i].kind
       /\ v.inode[i].block_count = u.inode[i].block_count
       /\ OwnRows(v, i) = OwnRows(u, i) /\ (Small(v, i) <=> Small(u, i))
       /\ Apart(u) => Apart(v)
  BY <1>1, <1>8, <1>9, SizeSet
<1>11. /\ OwnRows(u, i) = OwnRows(a.s, i) /\ (Small(u, i) <=> Small(a.s, i))
       /\ Apart(u)
  BY <1>2, <1>8, SameTables
<1>12. Home(v, g) /\ \A x : x.inode = i /\ Home(s, x) => Home(v, x)
  <2>1. \A x : x.inode = i /\ Home(a.s, x) => Home(v, x)
    BY <1>10, <1>11 DEF Home
  <2>2. Home(v, g)
    BY <1>8, <1>10 DEF Home
  <2> QED BY <1>5, <2>1, <2>2
<1>13. Small(a.s, i) => Beside(s, i, v) /\ Small(v, i)
  <2>1. Beside(s, i, a.s)
    BY <1>1, <1>2, KeptBeside
  <2>2. Small(a.s, i) => Beside(a.s, i, u)
    BY <1>2, <1>6, <1>7, <1>9, WithinBeside
  <2>3. Small(a.s, i) => Beside(s, i, u)
    BY <2>1, <2>2, BesideTwice
  <2>4. Small(a.s, i) => Beside(s, i, v)
    BY <1>10, <2>3, BesideTwice
  <2> QED BY <1>10, <1>11, <2>4
<1>14. \A j \in Numbers : j # i => v.inode[j] = s.inode[j]
  BY <1>2, <1>8, <1>10 DEF Beside
<1>15. ASSUME NEW c, Intact(s, f, c), a.ok, Small(a.s, i), f.cursor = Len(c),
              count = InBlocks(Len(data))
       PROVE  Intact(v, g, c \o data)
  <2>1. a.s.inode[i].block_count = n + count
    BY <1>2, <1>15
  <2>2. n + count <= POINTERS + 1 /\ a.s.disk = s.disk
    BY <1>2, <1>15, <2>1 DEF Small
  <2>3. /\ Small(s, i) /\ Tracks(s, f) /\ c \in Seq(Ids) /\ InBlocks(Len(c)) <= n
        /\ Holding(s, i, f.block_index, f.block, c)
    BY <1>9, <1>15 DEF Intact, n
  <2> DEFINE had == Len(c)
             new == Len(data)
             k == InBlocks(had)
             l == InBlocks(new)
             m == InBlocks(had + new)
  <2>4. had \in Nat /\ new \in Nat
    BY <2>3
  <2>5. k \in Nat /\ l \in Nat /\ m \in Nat /\ m <= k + l
    <3> HIDE DEF had, new
    <3>1. had + new \in Nat
      BY <2>4
    <3> QED BY <2>4, <3>1, BlocksHold, BlocksAdd
  <2> HIDE DEF k, l, m
  <2>6. k <= n /\ count = l
    BY <1>15, <2>3 DEF k, l
  <2>7. k <= a.s.inode[i].block_count /\ m <= a.s.inode[i].block_count
    BY <1>3, <2>1, <2>5, <2>6
  <2>8. Tracks(a.s, f)
    BY <1>5, <1>9, <2>2, <2>3, StillAtPlace
  <2>9. Holding(a.s, i, f.block_index, f.block, c)
    <3>1. \A b \in OwnRows(s, i) : a.s.disk[b] = s.disk[b]
      BY <2>2
    <3>2. InBlocks(Len(c)) <= s.inode[i].block_count
      BY <2>3 DEF n
    <3> QED BY <1>1, <1>5, <2>3, <3>1, <3>2, StillHolding
  <2>10. Intact(a.s, f, c)
    BY <1>2, <1>9, <1>15, <2>3, <2>7, <2>8, <2>9 DEF Intact, k
  <2>11. Intact(u, g, c \o data)
    BY <1>6, <1>15, <2>7, <2>10 DEF m
  <2> QED BY <1>8, <1>9, <2>11, SizeSetIntact
<1> QED BY <1>2, <1>6, <1>8, <1>10, <1>11, <1>12, <1>13, <1>14, <1>15 DEF Stored

WriteOf(s, fs, c, p, h, i, data, count, a, v, g, gs, q, d) ==
    /\ fs[h].open /\ i = fs[h].inode /\ s.inode[i].kind = "file"
    /\ fs[h].cursor = s.inode[i].size => count = InBlocks(Len(data))
    /\ Stored(s, fs[h], i, data, count, a, v, g)
    /\ v.inode[i].size = s.inode[i].size + Len(data)
    /\ gs = [fs EXCEPT ![h] = g]
    /\ q \subseteq p /\ (q # {} => Small(a.s, i))
    /\ i \in q => a.ok /\ fs[h].cursor = s.inode[i].size
    /\ d = [c EXCEPT ![i] = IF i \in q THEN c[i] \o data ELSE <<>>]

(* file_write: the contents of the file are longer, and those of no other  *)
(* changed.                                                                *)
LEMMA FileWritten ==
    ASSUME NEW s, NEW fs, NEW c, NEW p, Sound(s, fs, c, p), NEW h \in Handles,
           NEW data \in Seq(Ids), NEW i, NEW count, NEW a, NEW v, NEW g, NEW gs, NEW q, NEW d,
           WriteOf(s, fs, c, p, h, i, data, count, a, v, g, gs, q, d)
    PROVE  Sound(v, gs, d, q)
<1> DEFINE f == fs[h]
<1>0. /\ fs[h].open /\ i = f.inode /\ s.inode[i].kind = "file"
      /\ (f.cursor = s.inode[i].size => count = InBlocks(Len(data)))
      /\ Stored(s, f, i, data, count, a, v, g)
      /\ v.inode[i].size = s.inode[i].size + Len(data)
      /\ gs = [fs EXCEPT ![h] = g]
      /\ q \subseteq p /\ (q # {} => Small(a.s, i))
      /\ i \in q => a.ok /\ f.cursor = s.inode[i].size
      /\ d = [c EXCEPT ![i] = IF i \in q THEN c[i] \o data ELSE <<>>]
  BY DEF WriteOf
<1>1. /\ s \in States /\ fs \in [Handles -> Opened \cup {Closed}] /\ c \in [Numbers -> Seq(Ids)]
      /\ p \subseteq Numbers /\ Apart(s)
  BY DEF Sound, Typed
<1>2. /\ f \in Opened /\ i \in Numbers /\ h \in Using(fs, i) /\ s.inode[i].kind # "free" /\ Home(s, f)
      /\ i \in p => /\ Intact(s, f, c[i]) /\ Small(s, i) /\ s.inode[i].size = Len(c[i])
                    /\ \A o \in Using(fs, i) : o = h
  <2>1. UsedWell(s, fs, c, p, h, f, i)
    BY <1>0, OpenSound
  <2> HIDE DEF f
  <2> QED BY <2>1 DEF UsedWell
<1>3. /\ v \in States /\ g \in Opened /\ g.inode = i /\ g.cursor = f.cursor + Len(data)
      /\ v.inode[i].kind = s.inode[i].kind
      /\ \A j \in Numbers : j # i => v.inode[j] = s.inode[j]
      /\ Apart(v) /\ Home(v, g) /\ \A x : x.inode = i /\ Home(s, x) => Home(v, x)
      /\ Small(a.s, i) => Beside(s, i, v) /\ Small(v, i)
      /\ \A x : /\ Intact(s, f, x) /\ a.ok /\ Small(a.s, i) /\ f.cursor = Len(x)
                /\ count = InBlocks(Len(data))
                => Intact(v, g, x \o data)
  BY <1>0 DEF Stored
<1>4. g.open
  BY <1>3 DEF Opened
<1>5. /\ gs \in [Handles -> Opened \cup {Closed}] /\ gs[h] = g
      /\ \A o \in Handles : gs[o] = fs[o] \/ /\ gs[o].open => gs[o].inode = i
                                             /\ fs[o].open => fs[o].inode = i
      /\ \A o \in Handles : o # h => gs[o] = fs[o]
  BY <1>0, <1>1, <1>2, <1>3, OtherFile
<1>6. /\ d[i] = (IF i \in q THEN c[i] \o data ELSE <<>>)
      /\ d \in [Numbers -> Seq(Ids)]
      /\ \A j \in Numbers : j # i => d[j] = c[j]
  <2> DEFINE e == IF i \in q THEN c[i] \o data ELSE <<>>
  <2>1. e \in Seq(Ids)
    <3>1. c[i] \in Seq(Ids)
      BY <1>1, <1>2
    <3>2. c[i] \o data \in Seq(Ids)
      BY <3>1, ConcatProperties
    <3> QED BY <3>2
  <2>2. d = [c EXCEPT ![i] = e]
    BY <1>0
  <2> HIDE DEF e
  <2>3. d[i] = e /\ d \in [Numbers -> Seq(Ids)] /\ \A j \in Numbers : j # i => d[j] = c[j]
    BY <1>1, <1>2, <2>1, <2>2
  <2> QED BY <2>3 DEF e
<1> HIDE DEF f
<1>7. Typed(v, gs, d, q)
  BY <1>0, <1>1, <1>3, <1>5, <1>6 DEF Typed
<1>8. \A o \in Using(gs, i) : Home(v, gs[o])
  <2>1. \A o \in Using(gs, i) : o # h => Home(s, fs[o]) /\ gs[o] = fs[o] /\ fs[o].inode = i
    BY <1>5 DEF Using, Sound, AtHome
  <2> QED BY <1>3, <1>5, <2>1
<1>9. AllSmall(v, q)
  <2>1. SUFFICES ASSUME q # {}, NEW j \in Numbers PROVE Small(v, j)
    BY DEF AllSmall
  <2>2. Small(s, j)
    BY <1>0, <2>1 DEF Sound, AllSmall
  <2>3. CASE j = i
    BY <1>0, <1>3, <2>1, <2>3
  <2>4. CASE j # i
    BY <1>3, <2>2, <2>4 DEF Small
  <2> QED BY <2>3, <2>4
<1>10. ASSUME i \in q PROVE PlainFile(v, gs, d[i], i)
  <2>1. /\ i \in p /\ a.ok /\ Intact(s, f, c[i]) /\ s.inode[i].size = Len(c[i])
        /\ f.cursor = Len(c[i]) /\ count = InBlocks(Len(data)) /\ d[i] = c[i] \o data
        /\ Small(a.s, i) /\ \A o \in Using(fs, i) : o = h
    BY <1>0, <1>2, <1>6, <1>10
  <2>2. Intact(v, gs[h], d[i]) /\ gs[h].inode = i
    BY <1>3, <1>5, <2>1
  <2>3. Using(gs, i) = {h}
    BY <1>2, <1>3, <1>4, <1>5, <2>1 DEF Using
  <2>4. Len(c[i] \o data) = Len(c[i]) + Len(data) /\ Len(d[i]) \in Nat
    <3>1. c[i] \in Seq(Ids) /\ d[i] \in Seq(Ids)
      BY <1>1, <1>2, <1>6
    <3> QED BY <3>1, ConcatProperties
  <2>5. v.inode[i].size = Len(d[i]) /\ gs[h].cursor <= Len(d[i])
    <3>1. v.inode[i].size = s.inode[i].size + Len(data)
      BY <1>0
    <3> QED BY <1>3, <1>5, <2>1, <2>4, <3>1
  <2> QED BY <2>2, <2>3, <2>5, TheOnlyOne
<1>11. v.inode[i].kind # "free" /\ v.inode[i].kind # "dir"
  BY <1>0, <1>3
<1>12. q # {} => Beside(s, i, v)
  BY <1>0, <1>3
<1>13. OnlyOf(i, s, fs, c, p, v, gs, d, q)
  BY <1>0, <1>3, <1>5, <1>6, <1>7, <1>8, <1>9, <1>10, <1>11, <1>12 DEF OnlyOf
<1> QED BY <1>2, <1>13, SoundStep

-----------------------------------------------------------------------------
(* A cell that is written to the disk.                                     *)
PutCell(s, b, place, entry) == [s EXCEPT !.disk[b][place] = entry]

Put(s, b, place, entry, v) ==
    /\ v \in States /\ v.used = s.used /\ v.inode = s.inode
    /\ \A e \in Ids : e # b => v.disk[e] = s.disk[e]
    /\ v.disk[b][place] = entry
    /\ \A k \in Places : k # place => v.disk[b][k] = s.disk[b][k]

LEMMA CellPut ==
    ASSUME NEW s \in States, NEW b \in Ids, NEW place \in Places, NEW entry \in Ids,
           NEW v, v = PutCell(s, b, place, entry)
    PROVE  Put(s, b, place, entry, v)
<1> DEFINE row == [s.disk[b] EXCEPT ![place] = entry]
           d == [s.disk EXCEPT ![b] = row]
<1>1. s.disk \in [Ids -> Rows] /\ s.disk[b] \in [Places -> Ids]
  BY StateFields DEF Rows
<1>2. /\ row \in Rows /\ row[place] = entry
      /\ \A k \in Places : k # place => row[k] = s.disk[b][k]
  BY <1>1 DEF Rows
<1> HIDE DEF row
<1>3. d \in [Ids -> Rows] /\ d[b] = row /\ \A e \in Ids : e # b => d[e] = s.disk[e]
  BY <1>1, <1>2
<1>4. v = [s EXCEPT !.disk = d]
  BY DEF PutCell, row
<1> HIDE DEF d
<1>5. v = [disk |-> d, used |-> s.used, inode |-> s.inode]
  BY <1>4, StateFields
<1>6. v \in States
  BY <1>3, <1>5, StateFields DEF States
<1>7. v.disk = d /\ v.used = s.used /\ v.inode = s.inode
  BY <1>5
<1> QED BY <1>2, <1>3, <1>6, <1>7 DEF Put

(* The cell after the last one of a directory, in its block if it has one  *)
(* there: no other cell of a table's block is written.                     *)
LEMMA CellWritten ==
    ASSUME NEW s \in States, Apart(s), NEW i \in Numbers, Small(s, i), NEW size \in Nat,
           NEW entry \in Ids,
           NEW v, v = PutCell(s, get_block(s, i, size \div CELLS), size % CELLS, entry)
    PROVE  /\ Beside(s, i, v)
           /\ \A c \in Seq(Ids) :
                 /\ Len(c) = size /\ InBlocks(size) <= s.inode[i].block_count
                 /\ Holding(s, i, FS_DATA_FAILURE, <<>>, c)
                 => /\ Holding(v, i, FS_DATA_FAILURE, <<>>, c)
                    /\ size \div CELLS < s.inode[i].block_count =>
                          Holding(v, i, FS_DATA_FAILURE, <<>>, Append(c, entry))
<1> DEFINE at == size \div CELLS
           place == size % CELLS
           b == get_block(s, i, at)
           n == s.inode[i].block_count
           table == s.inode[i].blocks
<1>1. at \in Nat /\ place \in Places
  BY CellPlace
<1>2. n \in Nat /\ n <= POINTERS + 1 /\ table \in [0 .. POINTERS -> Ids]
  <2>1. n \in Nat /\ table \in [0 .. POINTERS -> Ids]
    BY InodeFields DEF Tables
  <2> QED BY <2>1 DEF Small
<1>3. b \in Ids /\ (at >= n => b = FS_DATA_FAILURE) /\ (at < n /\ at <= POINTERS => b = table[at])
  <2> HIDE DEF at
  <2> QED BY <1>1, GetBlock
<1> HIDE DEF at, place, b, n, table
<1>4. at < n => at \in Has(s, i) /\ b = table[at]
  BY <1>1, <1>2, <1>3, Bounds DEF Has, n
<1>5. /\ v \in States /\ v.used = s.used /\ v.inode = s.inode
      /\ \A e \in Ids : e # b => v.disk[e] = s.disk[e]
      /\ v.disk[b][place] = entry
      /\ \A k \in Places : k # place => v.disk[b][k] = s.disk[b][k]
  <2>1. v = PutCell(s, b, place, entry)
    BY DEF b, at, place
  <2>2. Put(s, b, place, entry, v)
    BY <1>1, <1>3, <2>1, CellPut
  <2> QED BY <2>2 DEF Put
<1>6. \A x \in Has(s, i) : table[x] \in Ids /\ table[x] # FS_DATA_FAILURE /\ (table[x] = b => x = at)
  <2>1. SUFFICES ASSUME NEW x \in Has(s, i)
                 PROVE  table[x] \in Ids /\ table[x] # FS_DATA_FAILURE /\ (table[x] = b => x = at)
    OBVIOUS
  <2>2. table[x] \in OwnRows(s, i)
    BY DEF OwnRows, table
  <2>3. table[x] \in Ids /\ table[x] # FS_DATA_FAILURE
    BY <2>2, OwnApart
  <2>4. table[x] = b => at < n
    BY <1>1, <1>2, <1>3, <2>3
  <2>5. at < n /\ table[x] = b => x = at
    BY <1>4 DEF Apart, table
  <2> QED BY <2>3, <2>4, <2>5
<1>7. Beside(s, i, v)
  <2>1. SUFFICES ASSUME NEW j \in Numbers, j # i
                 PROVE  v.inode[j] = s.inode[j] /\ \A e \in OwnRows(s, j) : v.disk[e] = s.disk[e]
    BY DEF Beside
  <2>2. /\ OwnRows(s, j) \subseteq Ids /\ FS_DATA_FAILURE \notin OwnRows(s, j)
        /\ OwnRows(s, j) \cap OwnRows(s, i) = {}
    BY <2>1, OwnApart
  <2>3. b \in OwnRows(s, i) \cup {FS_DATA_FAILURE}
    BY <1>1, <1>2, <1>3, <1>4 DEF OwnRows, table
  <2> QED BY <1>5, <2>2, <2>3
<1>8. ASSUME NEW c \in Seq(Ids), Len(c) = size, InBlocks(size) <= n,
             Holding(s, i, FS_DATA_FAILURE, <<>>, c)
      PROVE  /\ Holding(v, i, FS_DATA_FAILURE, <<>>, c)
             /\ at < n => Holding(v, i, FS_DATA_FAILURE, <<>>, Append(c, entry))
  <2>1. ASSUME NEW k \in 1 .. Len(c)
        PROVE  Row(v, i, FS_DATA_FAILURE, <<>>, (k - 1) \div CELLS)[(k - 1) % CELLS] = c[k]
    <3> DEFINE x == (k - 1) \div CELLS
               y == (k - 1) % CELLS
    <3>1. x \in Has(s, i) /\ k - 1 \in Nat
      BY <1>8, CellsInTable DEF n
    <3>2. y \in Places
      BY <3>1, CellPlace
    <3>3. x = at => y # place
      <4>1. k - 1 # size
        BY <1>8
      <4> QED BY <3>1, <4>1, CellsDiffer DEF at, place
    <3>4. Row(s, i, FS_DATA_FAILURE, <<>>, x)[y] = c[k]
      BY <1>8 DEF Holding
    <3> HIDE DEF x, y
    <3>5. x # FS_DATA_FAILURE
      BY <3>1, Bounds DEF Has
    <3>6. s.disk[table[x]][y] = c[k]
      BY <3>4, <3>5 DEF Row, table
    <3>7. v.disk[table[x]][y] = s.disk[table[x]][y]
      BY <1>5, <1>6, <3>1, <3>2, <3>3
    <3>8. Row(v, i, FS_DATA_FAILURE, <<>>, x) = v.disk[table[x]]
      BY <1>5, <3>5 DEF Row, table
    <3> QED BY <3>6, <3>7, <3>8 DEF x, y
  <2>2. Holding(v, i, FS_DATA_FAILURE, <<>>, c)
    BY <2>1 DEF Holding
  <2>3. ASSUME at < n PROVE Holding(v, i, FS_DATA_FAILURE, <<>>, Append(c, entry))
    <3> DEFINE e == Append(c, entry)
    <3>1. Len(e) = Len(c) + 1 /\ e[Len(c) + 1] = entry /\ \A k \in 1 .. Len(c) : e[k] = c[k]
      BY AppendProperties
    <3> HIDE DEF e
    <3>2. SUFFICES ASSUME NEW k \in 1 .. Len(e)
                   PROVE  Row(v, i, FS_DATA_FAILURE, <<>>, (k - 1) \div CELLS)[(k - 1) % CELLS] = e[k]
      BY DEF Holding, e
    <3>3. CASE k \in 1 .. Len(c)
      BY <2>1, <3>1, <3>3
    <3>4. CASE k \notin 1 .. Len(c)
      <4>1. k = Len(c) + 1 /\ k - 1 = size
        BY <1>8, <3>1, <3>2, <3>4
      <4>2. at # FS_DATA_FAILURE
        BY <1>1 DEF FS_DATA_FAILURE
      <4>3. Row(v, i, FS_DATA_FAILURE, <<>>, at) = v.disk[b]
        BY <1>4, <1>5, <2>3, <4>2 DEF Row, table
      <4> QED BY <1>5, <3>1, <4>1, <4>3 DEF at, place
    <3> QED BY <3>3, <3>4
  <2> QED BY <2>2, <2>3
<1> QED BY <1>7, <1>8 DEF at, n

(* A directory that has grown by an entry, or has not.                     *)
Extended(s, i, u) ==
    /\ u \in States /\ Apart(u) /\ u.inode[i].kind = s.inode[i].kind
    /\ \A j \in Numbers : j # i => u.inode[j] = s.inode[j]
    /\ \/ u = s
       \/ /\ u.inode[i].size = s.inode[i].size + 1
          /\ u.inode[i].block_count = InBlocks(s.inode[i].size + 1)
    /\ Small(u, i) => Beside(s, i, u)
    /\ \A f : f.inode = i /\ Home(s, f) => Home(u, f)
    /\ \A c \in Seq(Ids) :
          /\ Small(u, i) /\ Small(s, i) /\ InBlocks(Len(c)) <= s.inode[i].block_count
          /\ Holding(s, i, FS_DATA_FAILURE, <<>>, c)
          => Holding(u, i, FS_DATA_FAILURE, <<>>, c)

(* Setting the size of a directory gives it the block it needs, or fails.  *)
LEMMA DirectoryGrown ==
    ASSUME NEW s \in States, Apart(s), NEW i \in Numbers, DirectoriesFit(s),
           s.inode[i].kind = "dir", s.inode[i].size < MaxSize
    PROVE  Extended(s, i, set_size(s, i, s.inode[i].size + 1))
<1> DEFINE size == s.inode[i].size
           n == s.inode[i].block_count
           more == size + 1
           count == InBlocks(more) - InBlocks(size)
           a == alloc_blocks(s, i, count)
           u == set_size(s, i, more)
<1>1. size \in Nat /\ n \in Nat /\ n = InBlocks(size) /\ more \in Nat
  <2>1. s.inode[i].size \in Nat /\ s.inode[i].block_count \in Nat
    BY InodeFields
  <2> QED BY <2>1 DEF DirectoriesFit
<1>2. more <= MaxSize /\ more <= (POINTERS + CELLS) * CELLS
  <2>1. more <= MaxSize
    <3> HIDE DEF size
    <3>1. size < MaxSize
      BY DEF size
    <3> QED BY <1>1, <3>1, Bounds
  <2>2. (POINTERS + CELLS) * CELLS \in Nat
    BY Bounds
  <2> HIDE DEF more
  <2> QED BY <1>1, <2>1, <2>2, SmallFiles, Bounds
<1>3. InBlocks(more) <= POINTERS + CELLS /\ InBlocks(more) \in Nat
  <2> HIDE DEF more
  <2> QED BY <1>1, <1>2, BlocksHold, Bounds
<1>4. count \in {0, 1} /\ n + count = InBlocks(more)
  <2>1. /\ InBlocks(more) = size \div CELLS + 1
        /\ InBlocks(size) = size \div CELLS \/ InBlocks(size) = size \div CELLS + 1
    <3> HIDE DEF size
    <3> QED BY <1>1, CellBlock
  <2>2. size \div CELLS \in Nat
    <3> HIDE DEF size
    <3> QED BY <1>1, CellPlace
  <2> DEFINE k == InBlocks(more)
             l == InBlocks(size)
             x == size \div CELLS
  <2> HIDE DEF k, l, x, n
  <2>3. k = x + 1 /\ (l = x \/ l = x + 1) /\ x \in Nat /\ n = l /\ count = k - l
    BY <1>1, <2>1, <2>2 DEF k, l, x
  <2> HIDE DEF count
  <2> QED BY <2>3 DEF k
<1> HIDE DEF count, n
<1>5. u = (IF a.ok THEN Sized(a.s, i, more) ELSE a.s)
  BY DEF set_size, Sized, count
<1>6. Allocated(s, i, count, a)
  <2>1. count \in Nat /\ s.inode[i].block_count + count <= POINTERS + CELLS
    BY <1>3, <1>4 DEF n
  <2> QED BY <2>1, AllocBlocks
<1> SUFFICES Extended(s, i, u)
  OBVIOUS
<1> HIDE DEF a, u, more, size
<1>7. /\ a.s \in States /\ Kept(s, i, a.s) /\ Apart(a.s)
      /\ a.ok => a.s.inode[i].block_count = n + count
      /\ n + count <= POINTERS + 1 => a.s.disk = s.disk
      /\ ~ a.ok => a.s = s
      /\ a.s.inode[i].kind = s.inode[i].kind
      /\ \A j \in Numbers : j # i => a.s.inode[j] = s.inode[j]
  BY <1>4, <1>6 DEF Allocated, Results, Kept, n
<1>8. CASE ~ a.ok
  <2>1. u = s
    BY <1>5, <1>7, <1>8
  <2>2. Beside(s, i, s)
    BY DEF Beside
  <2> QED BY <2>1, <2>2 DEF Extended
<1>9. CASE a.ok
  <2>1. u = Sized(a.s, i, more)
    BY <1>5, <1>9
  <2>2. /\ u \in States /\ u.disk = a.s.disk /\ u.used = a.s.used /\ Beside(a.s, i, u)
        /\ u.inode[i].size = more /\ u.inode[i].kind = a.s.inode[i].kind
        /\ u.inode[i].block_count = a.s.inode[i].block_count
        /\ u.inode[i].blocks = a.s.inode[i].blocks /\ (Small(u, i) <=> Small(a.s, i))
        /\ OwnRows(u, i) = OwnRows(a.s, i) /\ (Apart(a.s) => Apart(u))
    <3>1. a.s \in States /\ more \in Nat
      BY <1>1, <1>7
    <3> DEFINE x == a.s
    <3> HIDE DEF x
    <3>2. x \in States /\ u = Sized(x, i, more)
      BY <2>1, <3>1 DEF x
    <3>3. /\ u \in States /\ u.disk = x.disk /\ u.used = x.used /\ Beside(x, i, u)
          /\ u.inode[i].size = more /\ u.inode[i].kind = x.inode[i].kind
          /\ u.inode[i].block_count = x.inode[i].block_count
          /\ u.inode[i].blocks = x.inode[i].blocks /\ (Small(u, i) <=> Small(x, i))
          /\ OwnRows(u, i) = OwnRows(x, i) /\ (Apart(x) => Apart(u))
      BY <3>1, <3>2, SizeSet
    <3> QED BY <3>3 DEF x
  <2>3. u.inode[i].block_count = InBlocks(more)
    BY <1>4, <1>7, <1>9, <2>2
  <2>4. \A j \in Numbers : j # i => u.inode[j] = s.inode[j]
    BY <1>7, <2>2 DEF Beside
  <2>5. Beside(s, i, u)
    <3>1. Beside(s, i, a.s)
      BY <1>7, KeptBeside
    <3> QED BY <2>2, <3>1, BesideTwice
  <2>6. ASSUME NEW c \in Seq(Ids), Small(u, i), Small(s, i), InBlocks(Len(c)) <= n,
               Holding(s, i, FS_DATA_FAILURE, <<>>, c)
        PROVE  Holding(u, i, FS_DATA_FAILURE, <<>>, c)
    <3>1. u.disk = s.disk
      BY <1>4, <1>7, <2>2, <2>3, <2>6 DEF Small
    <3>2. \A k \in Has(s, i) : u.inode[i].blocks[k] = s.inode[i].blocks[k]
      BY <1>7, <2>2 DEF Kept, Has
    <3> QED BY <2>6, <3>1, <3>2, StillHolding DEF n
  <2>7. \A f : f.inode = i /\ Home(s, f) => Home(u, f)
    <3>1. n <= a.s.inode[i].block_count
      BY <1>1, <1>4, <1>7, <1>9
    <3>2. \A f : f.inode = i /\ Home(s, f) => Home(a.s, f)
      BY <1>7, <3>1, KeptHome DEF n
    <3> QED BY <2>2, <3>2 DEF Home
  <2> QED BY <1>7, <2>2, <2>3, <2>4, <2>5, <2>6, <2>7 DEF Extended, more, size, n
<1> QED BY <1>8, <1>9

Larger(s, i) == set_size(s, i, s.inode[i].size + 1)
WithEntry(s, u, i, entry) ==
    PutCell(u, get_block(u, i, s.inode[i].size \div CELLS), s.inode[i].size % CELLS, entry)

EntryOf(s, fs, c, p, i, entry, u, v, d, q) ==
    /\ u = Larger(s, i) /\ v = WithEntry(s, u, i, entry)
    /\ d = (IF u.inode[i].size = s.inode[i].size THEN c
            ELSE [c EXCEPT ![i] = Append(c[i], entry)])
    /\ q = (IF u.inode[i].block_count > FS_INODE_TABLE_CUTOFF THEN {}
            ELSE IF Using(fs, i) = {} THEN p ELSE p \ {i})

(* entry_add: an entry more, or the directory as it was.                   *)
LEMMA EntryAdded ==
    ASSUME NEW s, NEW fs, NEW c, NEW p, Sound(s, fs, c, p), NEW i \in Numbers,
           s.inode[i].kind = "dir", s.inode[i].size < MaxSize, NEW entry \in Ids,
           NEW u, NEW v, NEW d, NEW q, EntryOf(s, fs, c, p, i, entry, u, v, d, q)
    PROVE  v \in States /\ Sound(v, fs, d, q)
<1>0. /\ u = Larger(s, i) /\ v = WithEntry(s, u, i, entry)
      /\ d = (IF u.inode[i].size = s.inode[i].size THEN c
              ELSE [c EXCEPT ![i] = Append(c[i], entry)])
      /\ q = (IF u.inode[i].block_count > FS_INODE_TABLE_CUTOFF THEN {}
              ELSE IF Using(fs, i) = {} THEN p ELSE p \ {i})
  BY DEF EntryOf
<1> DEFINE size == s.inode[i].size
           n == s.inode[i].block_count
<1>1. /\ s \in States /\ fs \in [Handles -> Opened \cup {Closed}] /\ c \in [Numbers -> Seq(Ids)]
      /\ p \subseteq Numbers /\ Apart(s) /\ DirectoriesFit(s)
  BY DEF Sound, Typed
<1>2. size \in Nat /\ size < MaxSize /\ n = InBlocks(size)
  BY <1>1, InodeFields DEF DirectoriesFit
<1>3. \A h \in Using(fs, i) : Home(s, fs[h]) /\ fs[h].inode = i
  BY DEF Using, Sound, AtHome
<1>4. Extended(s, i, u)
  BY <1>0, <1>1, DirectoryGrown DEF Larger
<1> DEFINE at == size \div CELLS
           place == size % CELLS
           b == get_block(u, i, at)
<1>5. at \in Nat /\ place \in Places
  <2> HIDE DEF size
  <2> QED BY <1>2, CellPlace
<1>6. u \in States
  BY <1>4 DEF Extended
<1>7. Put(u, b, place, entry, v)
  <2>1. b \in Ids
    <3> HIDE DEF at
    <3> QED BY <1>5, <1>6, GetBlock
  <2>2. v = PutCell(u, b, place, entry)
    BY <1>0 DEF WithEntry
  <2> HIDE DEF b, place
  <2> QED BY <1>5, <1>6, <2>1, <2>2, CellPut
<1>8. v \in States /\ v.used = u.used /\ v.inode = u.inode
  BY <1>7 DEF Put
<1> DEFINE grew == u.inode[i].size # size
<1>9. /\ Apart(u) /\ u.inode[i].kind = "dir"
      /\ \A j \in Numbers : j # i => u.inode[j] = s.inode[j]
      /\ ~ grew => u = s
      /\ grew => u.inode[i].size = size + 1 /\ u.inode[i].block_count = InBlocks(size + 1)
      /\ Small(u, i) => Beside(s, i, u)
      /\ \A f : f.inode = i /\ Home(s, f) => Home(u, f)
  <2>1. /\ u = s \/ /\ u.inode[i].size = size + 1
                    /\ u.inode[i].block_count = InBlocks(size + 1)
        /\ size + 1 # size
    <3>1. size + 1 # size
      <4> HIDE DEF size
      <4> QED BY <1>2
    <3> QED BY <1>4, <3>1 DEF Extended
  <2> QED BY <1>4, <2>1 DEF Extended
<1>10. d[i] = (IF grew THEN Append(c[i], entry) ELSE c[i])
       /\ d \in [Numbers -> Seq(Ids)] /\ \A j \in Numbers : j # i => d[j] = c[j]
  <2> DEFINE e == Append(c[i], entry)
  <2>1. e \in Seq(Ids)
    <3>1. c[i] \in Seq(Ids)
      BY <1>1
    <3> QED BY <3>1, AppendProperties
  <2>2. d = IF grew THEN [c EXCEPT ![i] = e] ELSE c
    BY <1>0
  <2> HIDE DEF e, grew
  <2>3. d[i] = (IF grew THEN e ELSE c[i])
        /\ d \in [Numbers -> Seq(Ids)] /\ \A j \in Numbers : j # i => d[j] = c[j]
    BY <1>1, <2>1, <2>2
  <2> QED BY <2>3 DEF e
<1>11. q \subseteq p /\ (q # {} => p # {} /\ Small(u, i)) /\ (i \in q => Using(fs, i) = {})
  <2>1. u.inode[i].block_count \in Nat
    BY <1>6, InodeFields
  <2> QED BY <1>0, <2>1, Bounds DEF Small
<1>12. v = PutCell(u, get_block(u, i, size \div CELLS), size % CELLS, entry)
  BY <1>0 DEF WithEntry
<1> HIDE DEF size, n, at, place, b, grew
<1>13. Typed(v, fs, d, q)
  BY <1>1, <1>8, <1>10, <1>11 DEF Typed
<1>14. Apart(v) /\ Small(u, i) => Small(v, i)
  BY <1>8, <1>9, SameTables
<1>15. AllSmall(v, q)
  <2>1. SUFFICES ASSUME q # {}, NEW j \in Numbers PROVE Small(v, j)
    BY DEF AllSmall
  <2>2. Small(s, j)
    BY <1>11, <2>1 DEF Sound, AllSmall
  <2>3. CASE j = i
    BY <1>8, <1>11, <2>1, <2>3, SameTables
  <2>4. CASE j # i
    BY <1>8, <1>9, <2>2, <2>4 DEF Small
  <2> QED BY <2>3, <2>4
<1>16. q # {} => Beside(s, i, v)
  <2>1. q # {} => Beside(u, i, v)
    BY <1>2, <1>6, <1>9, <1>11, <1>12, CellWritten
  <2> QED BY <1>9, <1>11, <2>1, BesideTwice
<1>17. v.inode[i].kind = "dir" /\ v.inode[i].block_count = InBlocks(v.inode[i].size)
       /\ v.inode[i].size <= MaxSize
  <2>1. u.inode[i].block_count = InBlocks(u.inode[i].size) /\ u.inode[i].size <= MaxSize
    <3>1. size + 1 <= MaxSize /\ size <= MaxSize
      BY <1>2, Bounds
    <3>2. CASE grew
      BY <1>9, <3>1, <3>2
    <3>3. CASE ~ grew
      BY <1>2, <1>9, <3>1, <3>3 DEF size, n
    <3> QED BY <3>2, <3>3
  <2> QED BY <1>8, <1>9, <2>1
<1>18. ASSUME i \in q PROVE PlainFile(v, fs, d[i], i)
  <2>1. i \in p /\ Small(u, i) /\ Small(s, i) /\ c[i] \in Seq(Ids)
    BY <1>1, <1>11, <1>18 DEF Sound, AllSmall
  <2>2. Holding(s, i, FS_DATA_FAILURE, <<>>, c[i]) /\ Len(c[i]) = size
    BY <1>11, <1>18, <2>1 DEF Sound, PlainFile, size
  <2>3. Holding(u, i, FS_DATA_FAILURE, <<>>, c[i])
    <3> DEFINE e == c[i]
    <3>1. InBlocks(Len(e)) <= n
      BY <1>2, <2>2, BlocksHold
    <3>2. e \in Seq(Ids) /\ Holding(s, i, FS_DATA_FAILURE, <<>>, e)
      BY <2>1, <2>2
    <3> HIDE DEF e
    <3>3. \A x \in Seq(Ids) :
             /\ Small(u, i) /\ Small(s, i) /\ InBlocks(Len(x)) <= n
             /\ Holding(s, i, FS_DATA_FAILURE, <<>>, x)
             => Holding(u, i, FS_DATA_FAILURE, <<>>, x)
      BY <1>4 DEF Extended, n
    <3>4. Holding(u, i, FS_DATA_FAILURE, <<>>, e)
      BY <2>1, <3>1, <3>2, <3>3
    <3> QED BY <3>4 DEF e
  <2>4. /\ InBlocks(size) \in Nat /\ InBlocks(size + 1) = at + 1
        /\ InBlocks(size) <= InBlocks(size + 1)
    <3>1. InBlocks(size) <= InBlocks(size + 1)
      BY <1>2, MoreBlocks
    <3> QED BY <1>2, <3>1, BlocksHold, CellBlock DEF at
  <2>5. InBlocks(size) <= u.inode[i].block_count
    <3>1. CASE grew
      BY <1>9, <2>4, <3>1
    <3>2. CASE ~ grew
      BY <1>2, <1>9, <2>4, <3>2 DEF n
    <3> QED BY <3>1, <3>2
  <2>6. /\ Holding(v, i, FS_DATA_FAILURE, <<>>, c[i])
        /\ at < u.inode[i].block_count =>
              Holding(v, i, FS_DATA_FAILURE, <<>>, Append(c[i], entry))
    BY <1>2, <1>6, <1>9, <1>12, <2>1, <2>2, <2>3, <2>5, CellWritten DEF at
  <2>7. grew => at < u.inode[i].block_count
    BY <1>5, <1>9, <2>4
  <2>8. Holding(v, i, FS_DATA_FAILURE, <<>>, d[i])
    BY <1>10, <2>6, <2>7
  <2>9. v.inode[i].size = Len(d[i])
    <3>1. Len(Append(c[i], entry)) = Len(c[i]) + 1
      BY <2>1, AppendProperties
    <3>2. CASE grew
      BY <1>8, <1>9, <1>10, <2>2, <3>1, <3>2
    <3>3. CASE ~ grew
      BY <1>8, <1>9, <1>10, <2>2, <3>3 DEF size
    <3> QED BY <3>2, <3>3
  <2>10. InBlocks(Len(d[i])) <= v.inode[i].block_count
    <3>1. InBlocks(Len(d[i])) \in Nat
      <4> DEFINE l == Len(d[i])
      <4>1. l \in Nat
        BY <1>10
      <4> HIDE DEF l
      <4>2. InBlocks(l) \in Nat
        BY <4>1, BlocksHold
      <4> QED BY <4>2 DEF l
    <3> DEFINE k == InBlocks(Len(d[i]))
    <3>2. k = v.inode[i].block_count
      BY <1>17, <2>9
    <3>3. k <= k
      <4> HIDE DEF k
      <4>1. k \in Nat
        BY <3>1 DEF k
      <4> QED BY <4>1
    <3> QED BY <3>2, <3>3
  <2> QED BY <1>11, <1>18, <2>8, <2>9, <2>10 DEF PlainFile
<1>19. \A j \in Numbers : j # i => v.inode[j] = s.inode[j] /\ d[j] = c[j]
  BY <1>8, <1>9, <1>10
<1>20. /\ \A h \in Handles : fs[h] = fs[h] \/ /\ fs[h].open => fs[h].inode = i
                                              /\ fs[h].open => fs[h].inode = i
       /\ \A h \in Using(fs, i) : v.inode[i].kind # "free" /\ Home(v, fs[h])
  <2>1. \A f : Home(u, f) => Home(v, f)
    <3>1. \A j : OwnRows(v, j) = OwnRows(u, j) /\ (Small(v, j) <=> Small(u, j))
      BY <1>8, SameTables
    <3> QED BY <3>1 DEF Home
  <2> QED BY <1>3, <1>9, <1>17, <2>1
<1>21. q \subseteq p \cup {i} /\ Apart(v)
  BY <1>11, <1>14, <1>9, <1>8, SameTables
<1>22. OnlyOf(i, s, fs, c, p, v, fs, d, q)
  BY <1>13, <1>15, <1>16, <1>17, <1>18, <1>19, <1>20, <1>21 DEF OnlyOf
<1> QED BY <1>8, <1>22, SoundStep

-----------------------------------------------------------------------------
(* The least and the greatest of two.                                      *)
LEMMA LeastOfTwo ==
    ASSUME NEW a \in Nat, NEW b \in Nat
    PROVE  Min({a, b}) = IF a <= b THEN a ELSE b
<1>1. Min({a, b}) \in {a, b} /\ \A y \in {a, b} : Min({a, b}) <= y
  <2>1. {a, b} \subseteq Int /\ {a, b} # {} /\ \A y \in {a, b} : 0 <= y
    OBVIOUS
  <2> QED BY <2>1, MinIsIn
<1> QED BY <1>1

LEMMA Excess ==
    ASSUME NEW x \in Int
    PROVE  Max({0, x}) = IF x <= 0 THEN 0 ELSE x
<1> DEFINE m == IF x <= 0 THEN 0 ELSE x
<1>1. m \in {0, x} /\ \A y \in {0, x} : m >= y
  OBVIOUS
<1>2. \A n \in {0, x} : (\A y \in {0, x} : n >= y) => n = m
  OBVIOUS
<1> HIDE DEF m
<1>3. Max({0, x}) = m
  BY <1>1, <1>2 DEF Max
<1> QED BY <1>3 DEF m

(* What is written are cells that may be taken for pointers.               *)
LEMMA CellsOfBytes ==
    ASSUME NEW i \in Numbers, NEW place \in Nat
    PROVE  Byte(i, place) \in Ids
<1>1. i \in Nat
  BY Bounds
<1> DEFINE n == place + 2 * i
<1>2. n \in Nat
  BY <1>1
<1> HIDE DEF n
<1>3. n % BLOCKS \in 0 .. BLOCKS - 1
  <2>1. BLOCKS \in Nat \ {0}
    BY Bounds
  <2> QED BY <1>2, <2>1, Remainder
<1>4. n % BLOCKS \in Ids /\ 0 \in Ids
  BY <1>3, Bounds DEF Ids, DataBlocks
<1> QED BY <1>4 DEF Byte, n

(* The same for all that one write writes.                                 *)
LEMMA CellsOfData ==
    ASSUME NEW i \in Numbers, inode[i].size \in Nat, NEW count \in Nat
    PROVE  Data(i, count) \in Seq(Ids) /\ Len(Data(i, count)) = count
<1> DEFINE byte(k) == Byte(i, inode[i].size + k)
<1>1. \A k \in 1 .. count : byte(k) \in Ids
  <2>1. SUFFICES ASSUME NEW k \in 1 .. count PROVE byte(k) \in Ids
    OBVIOUS
  <2>2. inode[i].size + k \in Nat
    OBVIOUS
  <2> QED BY <2>2, CellsOfBytes
<1>2. Data(i, count) = [k \in 1 .. count |-> byte(k)]
  BY DEF Data
<1> HIDE DEF byte
<1>3. [k \in 1 .. count |-> byte(k)] \in Seq(Ids)
  BY <1>1
<1>4. Len([k \in 1 .. count |-> byte(k)]) = count
  OBVIOUS
<1> QED BY <1>2, <1>3, <1>4

-----------------------------------------------------------------------------
(* Each action, on the variables.                                          *)
StateSound == Sound(State, file, contents, plain)

(* What Become says of the variables.                                      *)
LEMMA Becomes ==
    ASSUME NEW v \in States, Become(v)
    PROVE  State' = v
<1>1. v = [disk |-> v.disk, used |-> v.used, inode |-> v.inode]
  BY StateFields
<1> QED BY <1>1 DEF Become, State

(* fs_inode_create.                                                        *)
LEMMA CreateSound ==
    ASSUME StateSound, NEW i \in Numbers, Create(i)
    PROVE  StateSound'
<1> DEFINE node == [Unused EXCEPT !.kind = Kind[i]]
<1>1. State \in States /\ AtHome(State, file) /\ AllSmall(State, plain)
  BY DEF StateSound, Sound, Typed
<1>2. node \in Inodes /\ node.block_count = 0 /\ node.size = 0
  <2>1. Unused \in Inodes
    BY <1>1, Freed
  <2>2. Kind[i] \in {"free", "file", "dir"}
    BY FilesAssumption
  <2> QED BY <2>1, <2>2 DEF Inodes, Unused
<1>3. Using(file, i) = {}
  <2>1. State.inode[i].kind = "free"
    BY DEF Create, State
  <2> QED BY <1>1, <2>1 DEF AtHome, Using
<1>4. plain' \subseteq plain \cup {i} /\ AllSmall(State, plain')
  <2>1. CASE Direct
    <3>1. \A j \in Numbers : Small(State, j)
      BY <2>1, Bounds DEF Direct, Small, State
    <3> QED BY <2>1, <3>1 DEF Create, AllSmall
  <2>2. CASE ~ Direct
    BY <1>1, <2>2 DEF Create
  <2> QED BY <2>1, <2>2
<1> HIDE DEF node
<1>5. State' = [disk |-> State.disk, used |-> State.used, inode |-> [State.inode EXCEPT ![i] = node]]
  BY DEF Create, State, node
<1>6. contents' = [contents EXCEPT ![i] = <<>>] /\ file' = file
  BY DEF Create
<1>7. Sound(State', file, contents', plain')
  BY <1>2, <1>3, <1>4, <1>5, <1>6, EmptyInode DEF StateSound
<1> QED BY <1>6, <1>7 DEF StateSound

(* fs_inode_destroy.                                                       *)
LEMMA DestroySound ==
    ASSUME StateSound, NEW i \in Numbers, Destroy(i)
    PROVE  StateSound'
<1> DEFINE t == free_blocks(State, i, inode[i].block_count)
           d == [t EXCEPT !.inode[i] = Unused]
<1>1. State \in States /\ AllSmall(State, plain)
  BY DEF StateSound, Sound, Typed
<1>2. /\ d \in States /\ d.disk = State.disk /\ d.used = State.used
      /\ d.inode = [State.inode EXCEPT ![i] = Unused] /\ Unused \in Inodes
  <2>1. t = free_blocks(State, i, State.inode[i].block_count)
    BY DEF State
  <2> QED BY <1>1, <2>1, Freed
<1>3. Become(d)
  BY DEF Destroy
<1> HIDE DEF d
<1>4. State' = d
  BY <1>2, <1>3, Becomes
<1>5. State' = [disk |-> State.disk, used |-> State.used,
                inode |-> [State.inode EXCEPT ![i] = Unused]]
  <2>1. d = [disk |-> d.disk, used |-> d.used, inode |-> d.inode]
    BY <1>2, StateFields
  <2> QED BY <1>2, <1>4, <2>1
<1>6. Unused.block_count = 0 /\ Unused.size = 0
  BY DEF Unused
<1>7. Using(file, i) = {}
  BY DEF Destroy, Open, Using
<1>8. contents' = [contents EXCEPT ![i] = <<>>] /\ file' = file /\ plain' = plain
  BY DEF Destroy
<1>9. Sound(State', file, contents', plain)
  BY <1>1, <1>2, <1>5, <1>6, <1>7, <1>8, EmptyInode DEF StateSound
<1> QED BY <1>8, <1>9 DEF StateSound

(* fs_directory_entry_add.                                                 *)
LEMMA EntrySound ==
    ASSUME StateSound, NEW i \in Numbers, NEW entry \in Ids, entry_add(i, entry)
    PROVE  StateSound'
<1> DEFINE u == Larger(State, i)
           v == WithEntry(State, u, i, entry)
           d == IF u.inode[i].size = State.inode[i].size THEN contents
                ELSE [contents EXCEPT ![i] = Append(contents[i], entry)]
           q == IF u.inode[i].block_count > FS_INODE_TABLE_CUTOFF THEN {}
                ELSE IF Using(file, i) = {} THEN plain ELSE plain \ {i}
<1>1. State.inode[i].kind = "dir" /\ State.inode[i].size < MaxSize
  BY DEF entry_add, State
<1>2. v \in States /\ Sound(v, file, d, q)
  <2>1. EntryOf(State, file, contents, plain, i, entry, u, v, d, q)
    BY DEF EntryOf
  <2> HIDE DEF u, v, d, q
  <2> QED BY <1>1, <2>1, EntryAdded DEF StateSound
<1>3. State.inode = inode
  BY DEF State
<1>4. Become(v) /\ contents' = d /\ plain' = q /\ file' = file
  BY <1>3 DEF entry_add, PutCell, Larger, WithEntry, Open, Using
<1> HIDE DEF v, d, q
<1>5. State' = v
  BY <1>2, <1>4, Becomes
<1> QED BY <1>2, <1>4, <1>5 DEF StateSound

(* file_open.                                                              *)
LEMMA OpenStep ==
    ASSUME StateSound, NEW h \in Handles, NEW i \in Numbers, NEW mode, file_open(h, i, mode)
    PROVE  StateSound'
<1> DEFINE r == "r" \in mode
           w == "w" \in mode
           row == disk[FS_DATA_FAILURE]
           flag == FALSE
           at == FS_DATA_FAILURE
           start == 0
           o == TRUE
           g == [open |-> o, inode |-> i, read |-> r, write |-> w, cursor |-> start,
                 block_index |-> at, block_id |-> at, block |-> row, dirty |-> flag]
<1>1. State \in States
  BY DEF StateSound, Sound, Typed
<1>2. /\ r \in BOOLEAN /\ w \in BOOLEAN /\ row \in Rows /\ flag \in BOOLEAN /\ o \in {TRUE}
      /\ at \in Ids /\ at \in Nat \cup {FS_DATA_FAILURE} /\ start \in Nat
  <2>1. disk \in [Ids -> Rows]
    BY <1>1, StateFields DEF State
  <2> QED BY <2>1, Bounds
<1>3. State.inode[i].kind # "free" /\ ~ file[h].open /\ file' = [file EXCEPT ![h] = g]
      /\ contents' = contents
      /\ plain' = (IF Using(file, i) = {} THEN plain ELSE plain \ {i})
  BY DEF file_open, State, Open, Using
<1>4. State' = State
  BY DEF file_open, State
<1>5. ~ flag /\ start = 0 /\ at = FS_DATA_FAILURE
  OBVIOUS
<1> HIDE DEF r, w, row, flag, start, o, at
<1>6. g \in Opened
  BY <1>2, OpenedRecord
<1>7. g.inode = i /\ g.cursor = 0 /\ g.block_index = FS_DATA_FAILURE
      /\ g.block_id = FS_DATA_FAILURE /\ ~ g.dirty
  BY <1>5
<1> HIDE DEF g
<1>8. Sound(State, file', contents, IF Using(file, i) = {} THEN plain ELSE plain \ {i})
  BY <1>3, <1>6, <1>7, FileOpened DEF StateSound
<1>9. Sound(State', file', contents', plain')
  BY <1>3, <1>4, <1>8
<1> QED BY <1>9 DEF StateSound

(* file_close.                                                             *)
LEMMA CloseSound ==
    ASSUME StateSound, NEW h \in Handles, file_close(h)
    PROVE  StateSound'
<1>1. State \in States /\ file[h].open
  BY DEF StateSound, Sound, Typed, file_close
<1>2. file' = [file EXCEPT ![h] = Closed] /\ contents' = contents /\ plain' = plain
  BY DEF file_close
<1>3. State' = Saved(State, file[h])
  <2>1. State = [disk |-> disk, used |-> data_bitmap, inode |-> inode]
    BY DEF State
  <2>2. CASE file[h].dirty
    <3> DEFINE e == [disk EXCEPT ![file[h].block_id] = file[h].block]
    <3>1. State' = [disk |-> e, used |-> data_bitmap, inode |-> inode]
      BY <2>2 DEF file_close, State
    <3>2. Saved(State, file[h]) = [State EXCEPT !.disk = e]
      BY <2>1, <2>2 DEF Saved
    <3> HIDE DEF e
    <3> QED BY <2>1, <3>1, <3>2
  <2>3. CASE ~ file[h].dirty
    BY <2>3 DEF file_close, State, Saved
  <2> QED BY <2>2, <2>3
<1>4. Sound(Saved(State, file[h]), file', contents, plain)
  BY <1>1, <1>2, FileClosed DEF StateSound
<1> QED BY <1>2, <1>3, <1>4 DEF StateSound

(* file_seek.                                                              *)
LEMMA SeekSound ==
    ASSUME StateSound, NEW h \in Handles, NEW cursor \in Nat, file_seek(h, cursor)
    PROVE  StateSound'
<1>1. /\ file[h].open /\ file' = [file EXCEPT ![h].cursor = cursor]
      /\ contents' = contents /\ plain' = plain \ {file[h].inode} /\ State' = State
  BY DEF file_seek, State
<1>2. Sound(State, file', contents, plain \ {file[h].inode})
  BY <1>1, Sought DEF StateSound
<1> QED BY <1>1, <1>2 DEF StateSound

(* file_read.                                                              *)
LEMMA ReadSound ==
    ASSUME StateSound, NEW h \in Handles, NEW count \in Nat, file_read(h, count)
    PROVE  StateSound' /\ answer'.is = answer'.due
<1> DEFINE f == file[h]
           i == file[h].inode
           cursor == file[h].cursor
           size == inode[i].size
           c == contents[i]
           clipped == Min({count, size - cursor})
           t == read_cells(State, f, clipped)
<1>1. State \in States /\ State.inode = inode
  BY DEF StateSound, Sound, Typed, State
<1>2. file[h].open
  BY DEF file_read
<1>3. UsedWell(State, file, contents, plain, h, f, i)
  BY <1>2, OpenSound DEF StateSound
<1>4. f \in Opened /\ i \in Numbers /\ (i \in plain => c \in Seq(Ids) /\ size = Len(c))
  BY <1>1, <1>3 DEF UsedWell
<1>5. cursor \in Nat /\ size \in Nat /\ cursor <= size
  <2>1. cursor \in Nat
    BY <1>4 DEF Opened
  <2>2. size \in Nat
    BY <1>1, <1>4, InodeFields
  <2> QED BY <2>1, <2>2 DEF file_read
<1>6. /\ Become(t.s) /\ file' = [file EXCEPT ![h] = t.f] /\ contents' = contents /\ plain' = plain
      /\ answer' = IF i \in plain
                   THEN [is |-> t.read, due |-> SubSeq(c, cursor + 1, Min({size, cursor + count}))]
                   ELSE NoAnswer
  BY DEF file_read
<1>7. clipped \in Nat /\ cursor + clipped <= size /\ cursor + clipped = Min({size, cursor + count})
  <2> HIDE DEF size, cursor
  <2>1. size - cursor \in Nat /\ cursor + count \in Nat
    BY <1>5
  <2>2. /\ clipped = (IF count <= size - cursor THEN count ELSE size - cursor)
        /\ Min({size, cursor + count}) = (IF size <= cursor + count THEN size ELSE cursor + count)
    BY <1>5, <2>1, LeastOfTwo
  <2> HIDE DEF clipped
  <2> QED BY <1>5, <2>2
<1>8. /\ Sound(t.s, file', contents, plain) /\ t.s \in States
      /\ i \in plain => t.read = SubSeq(c, cursor + 1, cursor + clipped)
  <2>1. i \in plain => cursor + clipped <= Len(c)
    BY <1>4, <1>7
  <2>2. ReadOf(State, file, contents, plain, h, clipped, t, file')
    BY <1>2, <1>6, <2>1 DEF ReadOf
  <2> HIDE DEF t, clipped
  <2>3. ReadWell(State, file, contents, plain, h, clipped, t, file')
    BY <1>7, <2>2, FileRead DEF StateSound
  <2> QED BY <2>3 DEF ReadWell
<1>9. State' = t.s
  <2> HIDE DEF t
  <2> QED BY <1>6, <1>8, Becomes
<1>10. answer'.is = answer'.due
  <2> HIDE DEF t, c, size, cursor, clipped
  <2>1. CASE i \in plain
    BY <1>6, <1>7, <1>8, <2>1
  <2>2. CASE i \notin plain
    BY <1>6, <2>2 DEF NoAnswer
  <2> QED BY <2>1, <2>2
<1>11. Sound(State', file', contents', plain')
  <2> HIDE DEF t
  <2> QED BY <1>6, <1>8, <1>9
<1> QED BY <1>10, <1>11 DEF StateSound

(* file_write.                                                             *)
LEMMA WriteSound ==
    ASSUME StateSound, NEW h \in Handles, NEW data \in Seq(Ids), file_write(h, data)
    PROVE  StateSound'
<1> DEFINE f == file[h]
           i == file[h].inode
           cursor == file[h].cursor
           size == inode[i].size
           extra == Max({0, cursor + Len(data) - size})
           count == InBlocks(extra)
           a == alloc_blocks(State, i, count)
           t == write_cells(a.s, f, data)
           v == Sized(t.s, i, size + Len(data))
           q == IF a.s.inode[i].block_count > FS_INODE_TABLE_CUTOFF THEN {}
                ELSE IF a.ok /\ cursor = size THEN plain ELSE plain \ {i}
           d == [contents EXCEPT ![i] = IF i \in q THEN contents[i] \o data ELSE <<>>]
<1>1. State \in States /\ Apart(State) /\ State.inode = inode
  BY DEF StateSound, Sound, Typed, State
<1>2. file[h].open /\ inode[i].kind = "file"
  BY DEF file_write
<1>3. UsedWell(State, file, contents, plain, h, f, i)
  BY <1>2, OpenSound DEF StateSound
<1>4. f \in Opened /\ i \in Numbers /\ Home(State, f)
  BY <1>3 DEF UsedWell
<1>5. cursor \in Nat /\ size \in Nat /\ Len(data) \in Nat
  <2>1. cursor \in Nat
    BY <1>4 DEF Opened
  <2>2. size \in Nat
    BY <1>1, <1>4, InodeFields
  <2> QED BY <2>1, <2>2
<1>6. extra \in Nat /\ count \in Nat /\ (cursor = size => count = InBlocks(Len(data)))
  <2> DEFINE l == Len(data)
             x == cursor + l - size
  <2> HIDE DEF cursor, size, l
  <2>1. l \in Nat /\ x \in Int /\ (cursor = size => x = l)
    BY <1>5 DEF l
  <2> HIDE DEF x
  <2>2. extra = (IF x <= 0 THEN 0 ELSE x)
    BY <2>1, Excess DEF x, l
  <2> HIDE DEF extra
  <2>3. extra \in Nat /\ (cursor = size => extra = l)
    BY <2>1, <2>2
  <2>4. count \in Nat
    BY <2>3, BlocksHold
  <2> QED BY <2>3, <2>4 DEF l
<1>7. /\ inode[i].block_count + count <= POINTERS + CELLS
      /\ Become([t.s EXCEPT !.inode[i].size = @ + Len(data)]) /\ file' = [file EXCEPT ![h] = t.f]
      /\ plain' = q
      /\ contents' = [contents EXCEPT ![i] = IF i \in plain' THEN @ \o data ELSE <<>>]
  BY DEF file_write
<1>8. contents' = d
  <2> HIDE DEF q
  <2> QED BY <1>7
<1>9. Allocated(State, i, count, a)
  <2> HIDE DEF count, i
  <2> QED BY <1>1, <1>4, <1>6, <1>7, AllocBlocks DEF i
<1>10. t.s.inode[i].size = size
  <2>1. a.s \in States /\ a.s.inode[i].size = State.inode[i].size
    BY <1>9 DEF Allocated, Results, Kept
  <2>2. Within(a.s, f, t.s, t.f)
    <3> HIDE DEF a, f
    <3> QED BY <1>4, <2>1, WriteCells
  <2>3. t.s.inode = a.s.inode
    BY <2>2 DEF Within
  <2> QED BY <1>1, <2>1, <2>3
<1>11. Stored(State, f, i, data, count, a, v, t.f) /\ v.inode[i].size = size + Len(data)
  <2>1. size + Len(data) \in Nat /\ i = f.inode
    BY <1>5
  <2>2. Allocated(State, f.inode, count, a)
    BY <1>9
  <2> DEFINE n == size + Len(data)
  <2>3. t = write_cells(a.s, f, data) /\ v = Sized(t.s, f.inode, n)
    OBVIOUS
  <2> HIDE DEF n, v, t, a, count, f
  <2>4. Stored(State, f, f.inode, data, count, a, v, t.f) /\ v.inode[f.inode].size = n
    BY <1>1, <1>4, <1>6, <2>1, <2>2, <2>3, WrittenState DEF n
  <2> HIDE DEF i
  <2> QED BY <2>1, <2>4 DEF n
<1>12. v \in States
  BY <1>11 DEF Stored
<1>13. Become(v)
  <2> HIDE DEF t, size
  <2>1. v = [t.s EXCEPT !.inode[i].size = @ + Len(data)]
    BY <1>10 DEF Sized
  <2> HIDE DEF v
  <2> QED BY <1>7, <2>1
<1> HIDE DEF v, t, a, count
<1>14. State' = v
  BY <1>12, <1>13, Becomes
<1>15. /\ q \subseteq plain /\ (q # {} => Small(a.s, i)) /\ (i \in q => a.ok /\ cursor = size)
  <2>1. a.s.inode[i].block_count \in Nat
    <3>1. a.s \in States
      BY <1>9 DEF Allocated, Results
    <3> QED BY <1>4, <3>1, InodeFields
  <2> QED BY <2>1, Bounds DEF Small
<1> HIDE DEF q, d
<1>16. d = [contents EXCEPT ![i] = IF i \in q THEN contents[i] \o data ELSE <<>>]
  BY DEF d
<1>17. Sound(v, file', d, q)
  <2> DEFINE g == t.f
  <2>1. file' = [file EXCEPT ![h] = g] /\ Stored(State, f, i, data, count, a, v, g)
    BY <1>7, <1>11
  <2> HIDE DEF g
  <2>2. v.inode[i].size = State.inode[i].size + Len(data)
    BY <1>1, <1>11
  <2>3. /\ file[h].cursor = State.inode[i].size => count = InBlocks(Len(data))
        /\ i \in q => a.ok /\ file[h].cursor = State.inode[i].size
    BY <1>1, <1>6, <1>15
  <2>4. /\ Stored(State, file[h], i, data, count, a, v, g) /\ i = file[h].inode
        /\ State.inode[i].kind = "file"
    BY <1>1, <1>2, <2>1
  <2> HIDE DEF i, f
  <2>5. WriteOf(State, file, contents, plain, h, i, data, count, a, v, g, file', q, d)
    BY <1>2, <1>15, <1>16, <2>1, <2>2, <2>3, <2>4 DEF WriteOf
  <2> QED BY <2>5, FileWritten DEF StateSound
<1> QED BY <1>7, <1>8, <1>14, <1>17 DEF StateSound

-----------------------------------------------------------------------------
(* The invariant holds of an empty disk.                                   *)
LEMMA InitSound ==
    ASSUME Init
    PROVE  IInv
<1>1. Unused \in Inodes /\ Unused.block_count = 0 /\ Unused.size = 0 /\ Unused.kind = "free"
  <2> DEFINE table == [k \in 0 .. POINTERS |-> FS_DATA_FAILURE]
  <2>1. table \in Tables
    BY Bounds DEF Tables
  <2>2. Unused = [kind |-> "free", size |-> 0, block_count |-> 0, blocks |-> table]
    BY DEF Unused
  <2> HIDE DEF table
  <2>3. 0 \in Nat /\ 0 \in 0 .. POINTERS + CELLS
    BY Bounds
  <2> QED BY <2>1, <2>2, <2>3 DEF Inodes
<1>2. disk \in [Ids -> Rows]
  <2> DEFINE row == [c \in 0 .. CELLS - 1 |-> 0]
  <2>1. 0 \in Ids
    BY Bounds DEF Ids, DataBlocks
  <2>2. row \in Rows
    BY <2>1 DEF Rows, Places
  <2>3. disk = [b \in Ids |-> row]
    BY DEF Init, Ids
  <2> HIDE DEF row
  <2> QED BY <2>2, <2>3
<1>3. inode = [i \in Numbers |-> Unused] /\ data_bitmap = {}
  BY DEF Init
<1>4. State.disk = disk /\ State.used = {} /\ State.inode = inode
      /\ State = [disk |-> disk, used |-> {}, inode |-> inode]
  BY <1>3 DEF State
<1>5. State \in States
  <2>1. inode \in [Numbers -> Inodes]
    BY <1>1, <1>3
  <2> QED BY <1>2, <1>4, <2>1 DEF States
<1>6. file = [h \in Handles |-> Closed] /\ contents = [i \in Numbers |-> <<>>] /\ plain = Numbers
  BY DEF Init
<1>7. /\ file \in [Handles -> Opened \cup {Closed}] /\ contents \in [Numbers -> Seq(Ids)]
      /\ \A h \in Handles : ~ file[h].open
  <2>1. ~ Closed.open
    BY DEF Closed
  <2>2. <<>> \in Seq(Ids)
    OBVIOUS
  <2> QED BY <1>6, <2>1, <2>2
<1>8. Typed(State, file, contents, plain)
  BY <1>5, <1>6, <1>7 DEF Typed
<1>9. \A i \in Numbers : State.inode[i] = Unused
  BY <1>3, <1>4
<1>10. \A i \in Numbers : Has(State, i) = {} /\ Small(State, i)
  BY <1>1, <1>9, Bounds DEF Has, Small
<1>11. Apart(State)
  BY <1>10 DEF Apart
<1>12. DirectoriesFit(State) /\ AtHome(State, file) /\ AllSmall(State, plain)
  BY <1>1, <1>7, <1>9, <1>10 DEF DirectoriesFit, AtHome, AllSmall
<1>13. ASSUME NEW i \in plain PROVE PlainFile(State, file, contents[i], i)
  <2>1. contents[i] = <<>> /\ Len(<<>>) = 0 /\ i \in Numbers
    BY <1>6
  <2>2. Using(file, i) = {}
    BY <1>7 DEF Using
  <2>3. Holding(State, i, FS_DATA_FAILURE, <<>>, <<>>)
    BY DEF Holding
  <2>4. State.inode[i].size = 0 /\ State.inode[i].block_count = 0 /\ InBlocks(0) <= 0
    BY <1>1, <1>9, <2>1, NoBlocks
  <2> QED BY <2>1, <2>2, <2>3, <2>4 DEF PlainFile
<1>14. answer.is = answer.due
  BY DEF Init, NoAnswer
<1> QED BY <1>8, <1>11, <1>12, <1>13, <1>14 DEF Sound, IInv

(* Every action keeps it.                                                  *)
LEMMA StepSound ==
    ASSUME IInv, [Next]_vars
    PROVE  IInv'
<1>1. StateSound /\ answer.is = answer.due
  BY DEF IInv, StateSound
<1>2. State \in States /\ State.inode = inode
  BY <1>1 DEF StateSound, Sound, Typed, State
<1>3. SUFFICES StateSound' /\ answer'.is = answer'.due
  BY DEF IInv, StateSound
<1>4. NoAnswer.is = NoAnswer.due
  BY DEF NoAnswer
<1>5. ASSUME NEW i \in Numbers, Create(i) PROVE StateSound' /\ answer'.is = answer'.due
  BY <1>1, <1>4, <1>5, CreateSound DEF Create
<1>6. ASSUME NEW i \in Numbers, Destroy(i) PROVE StateSound' /\ answer'.is = answer'.due
  BY <1>1, <1>4, <1>6, DestroySound DEF Destroy
<1>7. ASSUME NEW i \in Numbers, entry_add(i, Byte(i, inode[i].size + 1))
      PROVE  StateSound' /\ answer'.is = answer'.due
  <2> DEFINE entry == Byte(i, inode[i].size + 1)
  <2>1. entry \in Ids
    <3>1. inode[i].size + 1 \in Nat
      <4>1. inode[i].size \in Nat
        BY <1>2, InodeFields
      <4> QED BY <4>1
    <3> QED BY <3>1, CellsOfBytes
  <2>2. entry_add(i, entry)
    BY <1>7
  <2> HIDE DEF entry
  <2>3. answer' = NoAnswer
    BY <2>2 DEF entry_add
  <2> QED BY <1>1, <1>4, <2>1, <2>2, <2>3, EntrySound
<1>8. ASSUME NEW h \in Handles, NEW i \in Numbers, NEW mode \in {{"r"}, {"w"}, {"r", "w"}},
             file_open(h, i, mode)
      PROVE  StateSound' /\ answer'.is = answer'.due
  BY <1>1, <1>4, <1>8, OpenStep DEF file_open
<1>9. ASSUME NEW h \in Handles, file_close(h) PROVE StateSound' /\ answer'.is = answer'.due
  BY <1>1, <1>4, <1>9, CloseSound DEF file_close
<1>10. ASSUME NEW h \in Handles, NEW cursor \in Seeks, file_seek(h, cursor)
       PROVE  StateSound' /\ answer'.is = answer'.due
  <2>1. cursor \in Nat
    BY FilesAssumption
  <2> QED BY <1>1, <1>4, <1>10, <2>1, SeekSound DEF file_seek
<1>11. ASSUME NEW h \in Handles, NEW count \in 1 .. MaxCount, file_read(h, count)
       PROVE  StateSound' /\ answer'.is = answer'.due
  <2>1. count \in Nat
    OBVIOUS
  <2> QED BY <1>1, <1>11, <2>1, ReadSound
<1>12. ASSUME NEW h \in Handles, NEW count \in 1 .. MaxCount, file[h].open,
              file_write(h, Data(file[h].inode, count))
       PROVE  StateSound' /\ answer'.is = answer'.due
  <2> DEFINE data == Data(file[h].inode, count)
  <2>1. data \in Seq(Ids)
    <3>1. file[h].inode \in Numbers
      BY <1>1, <1>12, OpenIs DEF StateSound, Sound
    <3>2. inode[file[h].inode].size \in Nat /\ count \in Nat
      BY <1>2, <3>1, InodeFields
    <3> QED BY <3>1, <3>2, CellsOfData
  <2>2. file_write(h, data)
    BY <1>12
  <2> HIDE DEF data
  <2>3. answer' = NoAnswer
    BY <2>2 DEF file_write
  <2> QED BY <1>1, <1>4, <2>1, <2>2, <2>3, WriteSound
<1>13. CASE UNCHANGED vars
  BY <1>1, <1>13 DEF vars, StateSound, State
<1> QED BY <1>5, <1>6, <1>7, <1>8, <1>9, <1>10, <1>11, <1>12, <1>13 DEF Next

(* The invariant of the open files, the tables and the disk, with no table *)
(* entry naming the block of another, whatever is opened, written, sought, *)
(* deleted and however full the disk is.                                   *)
THEOREM Invariance == Spec => []IInv
<1>1. Init => IInv
  BY InitSound
<1>2. IInv /\ [Next]_vars => IInv'
  BY StepSound
<1> QED BY <1>1, <1>2, PTL DEF Spec

(* The blocks the table of a file names, while it fits its array, are its  *)
(* own and marked in the bitmap: fs_data_alloc_block and                   *)
(* fs_inode_alloc_blocks give none out twice.                              *)
THEOREM BlocksAreOwn == Spec => []OwnBlocks
<1>1. IInv => OwnBlocks
  <2>1. SUFFICES ASSUME IInv, Direct,
                        NEW i \in Numbers, NEW j \in Numbers, NEW o \in Owned(i), NEW p \in Owned(j)
                 PROVE  (o.block = p.block => o = p) /\ o.block \in data_bitmap
    BY DEF OwnBlocks
  <2>2. State \in States /\ Apart(State) /\ State.inode = inode /\ State.used = data_bitmap
    BY <2>1 DEF IInv, Sound, Typed, State
  <2>3. ASSUME NEW m \in Numbers, NEW k \in 0 .. inode[m].block_count - 1
        PROVE  k \in Has(State, m) /\ get_block(State, m, k) = State.inode[m].blocks[k]
    <3>1. inode[m].block_count \in Nat /\ inode[m].block_count <= POINTERS + 1
      BY <2>1, <2>2, InodeFields, Bounds DEF Direct
    <3>2. k \in Nat /\ k < inode[m].block_count /\ k <= POINTERS
      BY <2>3, <3>1, Bounds
    <3> QED BY <2>2, <3>2, GetBlock DEF Has
  <2>4. PICK k \in 0 .. inode[i].block_count - 1 :
           o = [inode |-> i, index |-> k, block |-> get_block(State, i, k)]
    BY DEF Owned
  <2>5. PICK l \in 0 .. inode[j].block_count - 1 :
           p = [inode |-> j, index |-> l, block |-> get_block(State, j, l)]
    BY DEF Owned
  <2>6. /\ k \in Has(State, i) /\ o.block = State.inode[i].blocks[k]
        /\ l \in Has(State, j) /\ p.block = State.inode[j].blocks[l]
    BY <2>3, <2>4, <2>5
  <2>7. /\ State.inode[i].blocks[k] \in State.used
        /\ State.inode[i].blocks[k] = State.inode[j].blocks[l] => i = j /\ k = l
    BY <2>2, <2>6 DEF Apart
  <2> QED BY <2>2, <2>4, <2>5, <2>6, <2>7
<1> QED BY <1>1, Invariance, PTL

(* A file written from its end on by one file_t at a time holds what was   *)
(* written, in the buffer of that file_t and on the disk, and a directory  *)
(* its entries, on a full disk too and whatever other files are used for,  *)
(* until a table outgrows its array.                                       *)
THEOREM ContentsAreKept == Spec => []FilesHoldTheirContents
<1>1. IInv => FilesHoldTheirContents
  <2>1. SUFFICES ASSUME IInv, NEW i \in plain
                 PROVE  /\ inode[i].size = Len(contents[i])
                        /\ \A k \in 1 .. Len(contents[i]) : Cell(i, k - 1) = contents[i][k]
    BY DEF FilesHoldTheirContents
  <2> DEFINE s == State
             c == contents[i]
             table == s.inode[i].blocks
  <2>2. /\ s \in States /\ Apart(s) /\ i \in Numbers /\ Small(s, i) /\ c \in Seq(Ids)
        /\ PlainFile(s, file, c, i)
    BY <2>1 DEF IInv, Sound, Typed, AllSmall
  <2>3. s.inode = inode /\ s.disk = disk
    BY DEF State
  <2>4. Open(i) = Using(file, i)
    BY DEF Open, Using
  <2> HIDE DEF s, c
  <2>5. /\ s.inode[i].size = Len(c) /\ InBlocks(Len(c)) <= s.inode[i].block_count
        /\ Using(file, i) = {} => Holding(s, i, FS_DATA_FAILURE, <<>>, c)
        /\ \A h \in Using(file, i) :
              Tracks(s, file[h]) /\ Holding(s, i, file[h].block_index, file[h].block, c)
    BY <2>2 DEF PlainFile
  <2>6. ASSUME NEW k \in 1 .. Len(c) PROVE Cell(i, k - 1) = c[k]
    <3> DEFINE x == (k - 1) \div CELLS
               y == (k - 1) % CELLS
               b == get_block(s, i, x)
               newer == {h \in Using(file, i) : file[h].dirty /\ file[h].block_id = b}
               first == CHOOSE h \in newer : TRUE
    <3>1. x \in Has(s, i)
      BY <2>2, <2>5, CellsInTable
    <3>2. Cell(i, k - 1) = IF newer = {} THEN disk[b][y] ELSE file[first].block[y]
      BY <2>4 DEF Cell, s
    <3>3. /\ Using(file, i) = {} => Row(s, i, FS_DATA_FAILURE, <<>>, x)[y] = c[k]
          /\ \A h \in Using(file, i) : Row(s, i, file[h].block_index, file[h].block, x)[y] = c[k]
      BY <2>5 DEF Holding
    <3> HIDE DEF x, y
    <3>4. b = table[x] /\ x # FS_DATA_FAILURE
      <4>1. x \in Nat /\ x <= POINTERS /\ x < s.inode[i].block_count
        BY <3>1, Bounds DEF Has
      <4> QED BY <2>2, <4>1, GetBlock DEF FS_DATA_FAILURE
    <3> HIDE DEF b, table
    <3>5. CASE newer = {}
      <4>1. CASE Using(file, i) = {}
        BY <2>3, <3>2, <3>3, <3>4, <3>5, <4>1 DEF Row, table
      <4>2. CASE Using(file, i) # {}
        <5>1. PICK h \in Using(file, i) : TRUE
          BY <4>2
        <5>2. file[h].inode = i /\ ~ (file[h].dirty /\ file[h].block_id = b)
          BY <3>5, <5>1 DEF Using
        <5>3. CASE file[h].block_index = x
          <6>1. file[h].block_id = b /\ file[h].block = disk[b]
            BY <2>3, <2>5, <3>4, <5>1, <5>2, <5>3 DEF Tracks, Stands, table
          <6> QED BY <3>2, <3>3, <3>5, <5>1, <5>3, <6>1 DEF Row
        <5>4. CASE file[h].block_index # x
          BY <2>3, <3>2, <3>3, <3>4, <3>5, <5>1, <5>4 DEF Row, table
        <5> QED BY <5>3, <5>4
      <4> QED BY <4>1, <4>2
    <3>6. CASE newer # {}
      <4>1. first \in newer
        BY <3>6
      <4> HIDE DEF first
      <4>2. /\ first \in Using(file, i) /\ file[first].inode = i
            /\ file[first].dirty /\ file[first].block_id = b
        BY <4>1 DEF Using
      <4>3. Stands(s, file[first], file[first].block_index)
        BY <2>5, <4>2 DEF Tracks
      <4>4. file[first].block_index = x
        <5>1. /\ file[first].block_index \in Has(s, i)
              /\ s.inode[i].blocks[file[first].block_index] = s.inode[i].blocks[x]
          BY <3>4, <4>2, <4>3 DEF Stands, table
        <5>2. \A m, l \in Has(s, i) : s.inode[i].blocks[m] = s.inode[i].blocks[l] => m = l
          BY <2>2 DEF Apart
        <5> QED BY <3>1, <5>1, <5>2
      <4> QED BY <3>2, <3>3, <3>6, <4>2, <4>4 DEF Row
    <3> QED BY <3>5, <3>6
  <2> QED BY <2>3, <2>5, <2>6 DEF c
<1> QED BY <1>1, Invariance, PTL

(* What file_read returns is what was written at the cursor, all of it     *)
(* that there is.                                                          *)
THEOREM ReadsAreRight == Spec => []ReadsWhatWasWritten
<1>1. IInv => ReadsWhatWasWritten
  BY DEF IInv, ReadsWhatWasWritten
<1> QED BY <1>1, Invariance, PTL

=============================================================================

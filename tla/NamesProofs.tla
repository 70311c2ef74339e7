---------------------------- MODULE NamesProofs ----------------------------
(***************************************************************************)
(* Proofs about the name space, for any number of inodes and any paths:    *)
(* no directory has a name twice, no entry outlives its inode, and the     *)
(* rows of entries implement directories that are functions of the name.   *)
(***************************************************************************)
EXTENDS Names, SequenceTheorems, WellFoundedInduction, TLAPS

-----------------------------------------------------------------------------
(* A set of natural numbers has a least element: what replaces induction.  *)
LEMMA LeastElement ==
    ASSUME NEW T, T \subseteq Nat, T # {}
    PROVE  \E x \in T : \A y \in T : x <= y
<1> DEFINE R == OpToRel(<, Nat)
<1>1. IsWellFoundedOn(R, Nat)
  BY NatLessThanWellFounded
<1>2. \A x, y \in Nat : x < y => <<x, y>> \in R
  BY DEF OpToRel
<1> HIDE DEF R
<1>3. PICK x \in T : \A y \in T : ~ (<<y, x>> \in R)
  BY <1>1, WFMin
<1>4. ASSUME NEW y \in T PROVE x <= y
  <2>1. x \in Nat /\ y \in Nat
    OBVIOUS
  <2>2. ~ (y < x)
    BY <1>2, <1>3, <2>1
  <2> QED BY <2>1, <2>2
<1> QED BY <1>4

(* g starts at a and takes the steps F.                                    *)
Follows(g, a, F) == g[0] = a /\ \A n \in Nat : g[n + 1] = F[n][g[n]]

(* Recursion.  The steps are a function, so that there is one for every    *)
(* definition by recursion below: the initial parts of the function that   *)
(* is looked for agree with each other, and every one can be continued.    *)
LEMMA Recursion ==
    ASSUME NEW S, NEW a \in S, NEW F \in [Nat -> [S -> S]]
    PROVE  \E g \in [Nat -> S] : Follows(g, a, F)
<1> DEFINE Part(n) == {h \in [0 .. n -> S] :
                          h[0] = a /\ \A k \in 0 .. n - 1 : h[k + 1] = F[k][h[k]]}
<1>1. \A n \in Nat : \A h \in [0 .. n -> S] :
         h \in Part(n) <=> h[0] = a /\ \A k \in 0 .. n - 1 : h[k + 1] = F[k][h[k]]
  OBVIOUS
<1>2. \A n \in Nat : Part(n) \subseteq [0 .. n -> S]
  OBVIOUS
<1> HIDE DEF Part
<1>3. \A n \in Nat : Part(n) # {}
  <2> DEFINE T == {n \in Nat : Part(n) = {}}
  <2>1. SUFFICES ASSUME T # {} PROVE FALSE
    OBVIOUS
  <2>2. PICK n \in T : \A m \in T : n <= m
    BY <2>1, LeastElement
  <2>3. CASE n = 0
    <3> DEFINE h == [k \in 0 .. 0 |-> a]
    <3>1. h \in [0 .. 0 -> S] /\ h[0] = a /\ 0 .. 0 - 1 = {}
      OBVIOUS
    <3> HIDE DEF h
    <3>2. h \in Part(0)
      BY <1>1, <3>1
    <3> QED BY <2>3, <3>2
  <2>4. CASE n # 0
    <3>1. n - 1 \in Nat /\ n - 1 \notin T
      BY <2>2, <2>4
    <3>2. PICK h : h \in Part(n - 1)
      BY <3>1
    <3>3. /\ h \in [0 .. n - 1 -> S] /\ h[0] = a
          /\ \A k \in 0 .. n - 2 : h[k + 1] = F[k][h[k]]
      BY <1>1, <1>2, <3>1, <3>2
    <3> DEFINE c == [k \in 0 .. n |-> IF k = n THEN F[n - 1][h[n - 1]] ELSE h[k]]
    <3>4. c \in [0 .. n -> S]
      <4>1. n - 1 \in 0 .. n - 1
        BY <3>1
      <4>2. F[n - 1][h[n - 1]] \in S
        BY <3>1, <3>3, <4>1
      <4>3. \A k \in 0 .. n : k # n => h[k] \in S
        BY <3>3
      <4> QED BY <4>2, <4>3
    <3>5. c[0] = a
      BY <2>4, <3>3
    <3>6. \A k \in 0 .. n - 1 : c[k + 1] = F[k][c[k]]
      <4>1. SUFFICES ASSUME NEW k \in 0 .. n - 1 PROVE c[k + 1] = F[k][c[k]]
        OBVIOUS
      <4>2. c[k] = h[k]
        OBVIOUS
      <4>3. CASE k = n - 1
        BY <4>2, <4>3
      <4>4. CASE k # n - 1
        <5>1. k \in 0 .. n - 2 /\ k + 1 # n /\ k + 1 \in 0 .. n
          BY <4>4
        <5> QED BY <3>3, <4>2, <5>1
      <4> QED BY <4>3, <4>4
    <3> HIDE DEF c
    <3>7. c \in Part(n)
      BY <1>1, <3>4, <3>5, <3>6
    <3> QED BY <2>2, <3>7
  <2> QED BY <2>3, <2>4
<1>4. \A n \in Nat : \A m \in n .. n + 1 : \A h \in Part(n), c \in Part(m) : c[n] = h[n]
  <2>1. SUFFICES ASSUME NEW n \in Nat, NEW m \in n .. n + 1, NEW h \in Part(n), NEW c \in Part(m)
                 PROVE  c[n] = h[n]
    OBVIOUS
  <2>2. /\ m \in Nat /\ h[0] = a /\ c[0] = a
        /\ \A k \in 0 .. n - 1 : h[k + 1] = F[k][h[k]]
        /\ \A k \in 0 .. m - 1 : c[k + 1] = F[k][c[k]]
    BY <1>1, <1>2
  <2> DEFINE T == {k \in 0 .. n : c[k] # h[k]}
  <2>3. SUFFICES ASSUME T # {} PROVE FALSE
    OBVIOUS
  <2>4. PICK k \in T : \A j \in T : k <= j
    <3>1. T \subseteq Nat
      OBVIOUS
    <3> HIDE DEF T
    <3> QED BY <2>3, <3>1, LeastElement
  <2>5. k # 0
    BY <2>2, <2>4
  <2>6. k - 1 \in 0 .. n - 1 /\ k - 1 \in 0 .. m - 1 /\ k - 1 \notin T /\ (k - 1) + 1 = k
    BY <2>4, <2>5
  <2>7. c[k - 1] = h[k - 1]
    BY <2>6
  <2> QED BY <2>2, <2>4, <2>6, <2>7
<1> DEFINE part == [n \in Nat |-> CHOOSE h : h \in Part(n)]
           g == [n \in Nat |-> part[n][n]]
<1>5. \A n \in Nat : part[n] \in Part(n)
  BY <1>3
<1> HIDE DEF part
<1>6. g \in [Nat -> S]
  BY <1>2, <1>5
<1>7. g[0] = a
  <2>1. part[0] \in Part(0) /\ part[0] \in [0 .. 0 -> S]
    BY <1>2, <1>5
  <2>2. part[0][0] = a
    BY <1>1, <2>1
  <2> QED BY <2>2
<1>8. ASSUME NEW n \in Nat PROVE g[n + 1] = F[n][g[n]]
  <2>1. part[n + 1] \in Part(n + 1) /\ n + 1 \in Nat /\ n + 1 \in n .. n + 1 /\ n \in 0 .. n
    BY <1>5
  <2>2. part[n + 1][n] = part[n][n]
    BY <1>4, <1>5, <2>1
  <2>3. part[n + 1][n + 1] = F[n][part[n + 1][n]]
    <3>1. n \in 0 .. (n + 1) - 1 /\ part[n + 1] \in [0 .. n + 1 -> S]
      BY <1>2, <2>1
    <3> QED BY <1>1, <2>1, <3>1
  <2> QED BY <2>1, <2>2, <2>3
<1> HIDE DEF g
<1> QED BY <1>6, <1>7, <1>8 DEF Follows

(* Induction over the numbers up to n, for a set.                          *)
LEMMA UpTo ==
    ASSUME NEW n \in Nat, NEW T, 0 \in T, \A k \in 0 .. n - 1 : k \in T => k + 1 \in T
    PROVE  \A k \in 0 .. n : k \in T
<1> DEFINE B == {k \in 0 .. n : k \notin T}
<1>1. SUFFICES ASSUME B # {} PROVE FALSE
  OBVIOUS
<1>2. PICK k \in B : \A j \in B : k <= j
  <2>1. B \subseteq Nat
    OBVIOUS
  <2> HIDE DEF B
  <2> QED BY <1>1, <2>1, LeastElement
<1>3. k # 0
  BY <1>2
<1>4. k - 1 \in 0 .. n - 1 /\ (k - 1) + 1 = k /\ k - 1 \notin B
  BY <1>2, <1>3
<1>5. k - 1 \in T
  BY <1>4
<1> QED BY <1>2, <1>4, <1>5

(* What a definition by recursion up to n defines.                         *)
Iterates(t, a, F, n) == \A k \in 0 .. n : t[k] = IF k = 0 THEN a ELSE F[k - 1][t[k - 1]]

LEMMA RecursionUpTo ==
    ASSUME NEW S, NEW a \in S, NEW F \in [Nat -> [S -> S]], NEW n \in Nat
    PROVE  \E t \in [0 .. n -> S] : Iterates(t, a, F, n)
<1>1. PICK g \in [Nat -> S] : Follows(g, a, F)
  BY Recursion
<1> DEFINE t == [k \in 0 .. n |-> g[k]]
<1>2. t \in [0 .. n -> S]
  OBVIOUS
<1>3. ASSUME NEW k \in 0 .. n PROVE t[k] = IF k = 0 THEN a ELSE F[k - 1][t[k - 1]]
  <2>1. CASE k # 0
    <3>1. k - 1 \in Nat /\ (k - 1) + 1 = k /\ k - 1 \in 0 .. n
      BY <2>1
    <3>2. t[k] = g[k] /\ t[k - 1] = g[k - 1]
      BY <3>1
    <3> HIDE DEF t
    <3> QED BY <1>1, <2>1, <3>1, <3>2 DEF Follows
  <2> QED BY <1>1, <2>1 DEF Follows
<1> HIDE DEF t
<1> QED BY <1>2, <1>3 DEF Iterates

-----------------------------------------------------------------------------
(* The paths that are given, and the names that are left when a path was   *)
(* rewritten: none of them is empty, ".", or "..".                         *)
AllPaths == Seq(NAMES \cup {EmptySegment}) \ {<<>>}
Normals == NAMES \ {FS_DIRECTORY_CURRENT_DIR_NAME, FS_DIRECTORY_PARENT_DIR_NAME}

LEMMA NamesOfPaths ==
    /\ INODES \in Nat \ {0} /\ Inodes \subseteq Nat /\ FS_ROOT_DIRECTORY_INODE \in Inodes
    /\ FS_INODE_FAILURE \notin Inodes
    /\ EmptySegment \notin NAMES /\ NAMES \subseteq Seq(STRING) /\ Normals \subseteq NAMES
    /\ FS_DIRECTORY_CURRENT_DIR_NAME \in NAMES /\ FS_DIRECTORY_PARENT_DIR_NAME \in NAMES
    /\ FS_DIRECTORY_CURRENT_DIR_NAME # FS_DIRECTORY_PARENT_DIR_NAME
    /\ FS_PATH_DELIMITER \in Normals
    /\ InputPaths \subseteq AllPaths /\ Behind \subseteq AllPaths /\ EmptyPath \in AllPaths
    /\ RootPath \in AllPaths
<1>1. /\ INODES \in Nat \ {0} /\ Inodes \subseteq Nat /\ FS_ROOT_DIRECTORY_INODE \in Inodes
      /\ FS_INODE_FAILURE \notin Inodes
  BY NamesAssumption DEF Inodes, FS_ROOT_DIRECTORY_INODE, FS_INODE_FAILURE
<1>2. /\ EmptySegment \notin NAMES /\ NAMES \subseteq Seq(STRING) /\ Normals \subseteq NAMES
      /\ FS_DIRECTORY_CURRENT_DIR_NAME \in NAMES /\ FS_DIRECTORY_PARENT_DIR_NAME \in NAMES
      /\ FS_PATH_DELIMITER \in NAMES
      /\ InputPaths \subseteq AllPaths /\ Behind \subseteq AllPaths
  BY NamesAssumption DEF Normals, AllPaths
<1>3. <<".">> # <<".", ".">> /\ <<"/">> # <<".", ".">>
  OBVIOUS
<1>4. <<"/">> # <<".">>
  <2>1. <<"/">>[1] = "/" /\ <<".">>[1] = "."
    OBVIOUS
  <2> QED BY <2>1
<1>5. EmptyPath \in AllPaths /\ RootPath \in AllPaths
  BY DEF EmptyPath, RootPath, AllPaths
<1> QED BY <1>1, <1>2, <1>3, <1>4, <1>5
        DEF Normals, FS_DIRECTORY_CURRENT_DIR_NAME, FS_DIRECTORY_PARENT_DIR_NAME,
            FS_PATH_DELIMITER

LEMMA Entering ==
    ASSUME NEW names \in Seq(Normals), NEW segment \in NAMES \cup {EmptySegment}
    PROVE  Enter(names, segment) \in Seq(Normals)
<1>1. CASE segment = FS_DIRECTORY_PARENT_DIR_NAME
  <2>1. names # <<>> => Front(names) \in Seq(Normals)
    BY SubSeqProperties DEF Front
  <2> QED BY <1>1, <2>1 DEF Enter
<1>2. CASE segment # FS_DIRECTORY_PARENT_DIR_NAME
  <2>1. segment \notin {EmptySegment, FS_DIRECTORY_CURRENT_DIR_NAME} => segment \in Normals
    BY <1>2 DEF Normals
  <2> QED BY <1>2, <2>1 DEF Enter
<1> QED BY <1>1, <1>2

(* The names after each segment.                                           *)
LEMMA WalkedSteps ==
    ASSUME NEW names \in Seq(Normals), NEW segments \in Seq(NAMES \cup {EmptySegment})
    PROVE  \E w \in [0 .. Len(segments) -> Seq(Normals)] :
              /\ w[0] = names
              /\ \A k \in 0 .. Len(segments) - 1 : w[k + 1] = Enter(w[k], segments[k + 1])
              /\ Walked(names, segments) = w[Len(segments)]
<1> DEFINE S == Seq(Normals)
           n == Len(segments)
           Good(t) == t = [k \in 0 .. n |->
                             IF k = 0 THEN names ELSE Enter(t[k - 1], segments[k])]
           F == [k \in Nat |-> [x \in S |-> IF k + 1 \in 1 .. n THEN Enter(x, segments[k + 1])
                                            ELSE x]]
           c == CHOOSE t : Good(t)
<1>1. n \in Nat /\ \A k \in 1 .. n : segments[k] \in NAMES \cup {EmptySegment}
  BY ElementOfSeq, LenProperties
<1>2. Walked(names, segments) = c[n]
  BY DEF Walked
<1> HIDE DEF c, n
<1>3. F \in [Nat -> [S -> S]]
  BY <1>1, Entering
<1>4. PICK t \in [0 .. n -> S] : Iterates(t, names, F, n)
  <2>1. names \in S /\ n \in Nat
    BY <1>1
  <2> HIDE DEF F, S
  <2> QED BY <1>3, <2>1, RecursionUpTo
<1>5. Good(t)
  <2>1. ASSUME NEW k \in 0 .. n, k # 0 PROVE F[k - 1][t[k - 1]] = Enter(t[k - 1], segments[k])
    <3>1. k - 1 \in Nat /\ k - 1 \in 0 .. n /\ (k - 1) + 1 = k /\ k \in 1 .. n
      BY <1>1, <2>1
    <3>2. t[k - 1] \in S
      BY <3>1
    <3> QED BY <3>1, <3>2
  <2>2. t = [k \in 0 .. n |-> t[k]]
    OBVIOUS
  <2> HIDE DEF F
  <2> QED BY <1>4, <2>1, <2>2 DEF Iterates
<1>6. Good(c)
  BY <1>5 DEF c
<1>7. \A k \in 0 .. n : c[k] = IF k = 0 THEN names ELSE Enter(c[k - 1], segments[k])
  BY <1>6
<1>8. DOMAIN c = 0 .. n /\ c = [k \in 0 .. n |-> c[k]]
  BY <1>6
<1> HIDE DEF Good
<1>9. ASSUME NEW k \in 0 .. n - 1 PROVE c[k + 1] = Enter(c[k], segments[k + 1])
  <2>1. k + 1 \in 0 .. n /\ k + 1 # 0 /\ (k + 1) - 1 = k
    BY <1>1
  <2> QED BY <1>7, <2>1
<1> DEFINE T == {k \in 0 .. n : c[k] \in S}
<1>10. 0 \in T
  BY <1>1, <1>7
<1>11. ASSUME NEW k \in 0 .. n - 1, k \in T PROVE k + 1 \in T
  <2>1. k + 1 \in 0 .. n /\ k + 1 \in 1 .. n
    BY <1>1
  <2> QED BY <1>1, <1>9, <1>11, <2>1, Entering
<1>12. \A k \in 0 .. n : c[k] \in S
  <2>1. \A k \in 0 .. n : k \in T
    <3> HIDE DEF T
    <3> QED BY <1>1, <1>10, <1>11, UpTo
  <2> QED BY <2>1
<1>13. c \in [0 .. n -> S] /\ c[0] = names
  <2>1. c[0] = names
    BY <1>1, <1>7
  <2> HIDE DEF S
  <2> QED BY <1>8, <1>12, <2>1
<1> QED BY <1>2, <1>9, <1>13 DEF n

LEMMA Walking ==
    ASSUME NEW names \in Seq(Normals), NEW segments \in Seq(NAMES \cup {EmptySegment})
    PROVE  Walked(names, segments) \in Seq(Normals)
<1>1. PICK w \in [0 .. Len(segments) -> Seq(Normals)] : Walked(names, segments) = w[Len(segments)]
  BY WalkedSteps
<1>2. Len(segments) \in 0 .. Len(segments)
  BY LenProperties
<1> QED BY <1>1, <1>2

LEMMA SegmentsTyped ==
    ASSUME NEW path \in AllPaths
    PROVE  /\ Segments(path) \in Seq(NAMES \cup {EmptySegment}) /\ Len(Segments(path)) > 0
           /\ Last(path) \in NAMES \cup {EmptySegment}
<1>1. path \in Seq(NAMES \cup {EmptySegment}) /\ path # <<>> /\ Len(path) \in Nat \ {0}
  BY EmptySeq DEF AllPaths
<1>2. Last(path) \in NAMES \cup {EmptySegment}
  BY <1>1, ElementOfSeq DEF Last
<1>3. Tail(path) \in Seq(NAMES \cup {EmptySegment}) /\ Len(Tail(path)) = Len(path) - 1
  BY <1>1, HeadTailProperties
<1> QED BY <1>1, <1>2, <1>3 DEF Segments, IsAbsolute

(* Rewriting a path leaves names only.                                     *)
LEMMA Normalizing ==
    ASSUME NEW path \in AllPaths, NEW behind \in AllPaths, NEW names \in Seq(Normals)
    PROVE  normalize(path, names, behind) \in Seq(Normals)
<1> DEFINE front == Front(Segments(path))
<1>1. front \in Seq(NAMES \cup {EmptySegment})
  <2>1. /\ Segments(path) \in Seq(NAMES \cup {EmptySegment}) /\ Len(Segments(path)) \in Nat
        /\ \A k \in 1 .. Len(Segments(path)) : Segments(path)[k] \in NAMES \cup {EmptySegment}
    BY SegmentsTyped, LenProperties, ElementOfSeq
  <2> QED BY <2>1, SubSeqProperties DEF Front
<1>2. BeforeLast(path, names) \in Seq(Normals)
  <2> HIDE DEF front
  <2>1. <<>> \in Seq(Normals)
    OBVIOUS
  <2>2. Walked(<<>>, front) \in Seq(Normals) /\ Walked(names, front) \in Seq(Normals)
    BY <1>1, <2>1, Walking
  <2> QED BY <2>2 DEF BeforeLast, front
<1>3. <<Last(path)>> \in Seq(NAMES \cup {EmptySegment})
  BY SegmentsTyped
<1>4. behind \in Seq(NAMES \cup {EmptySegment})
  BY DEF AllPaths
<1> QED BY <1>2, <1>3, <1>4, Walking DEF normalize

(* The path of a row of names, and of the directory it is in.              *)
LEMMA AbsolutePaths ==
    ASSUME NEW names \in Seq(Normals)
    PROVE  /\ absolute(names) \in AllPaths /\ IsAbsolute(absolute(names))
           /\ names # <<>> =>
                /\ Segments(absolute(names)) = names
                /\ to_name(absolute(names)) = names[Len(names)]
                /\ to_parent_path(absolute(names)) = absolute(SubSeq(names, 1, Len(names) - 1))
           /\ Segments(RootPath) = <<EmptySegment>> /\ IsAbsolute(RootPath)
           /\ to_name(RootPath) = FS_PATH_DELIMITER /\ to_parent_path(RootPath) = EmptyPath
<1> DEFINE Segs == NAMES \cup {EmptySegment}
           path == <<EmptySegment>> \o names
<1>1. /\ Segments(RootPath) = <<EmptySegment>> /\ IsAbsolute(RootPath)
      /\ to_name(RootPath) = FS_PATH_DELIMITER /\ to_parent_path(RootPath) = EmptyPath
  <2>1. RootPath = <<<<>>, <<>>>> /\ Len(RootPath) = 2 /\ RootPath[1] = <<>> /\ RootPath[2] = <<>>
    BY DEF RootPath, EmptySegment
  <2>2. Front(RootPath) = <<<<>>>>
    <3> DEFINE r == <<EmptySegment, EmptySegment>>
    <3>1. r \in Seq(Segs) /\ Len(r) = 2 /\ r[1] = EmptySegment
      OBVIOUS
    <3>2. /\ SubSeq(r, 1, 1) \in Seq(Segs) /\ Len(SubSeq(r, 1, 1)) = 1
          /\ SubSeq(r, 1, 1)[1] = r[1]
      BY <3>1, SubSeqProperties
    <3>3. SubSeq(r, 1, 1) = <<EmptySegment>>
      <4>1. /\ <<EmptySegment>> \in Seq(Segs) /\ Len(<<EmptySegment>>) = 1
            /\ <<EmptySegment>>[1] = EmptySegment
        OBVIOUS
      <4>2. \A i \in 1 .. Len(SubSeq(r, 1, 1)) : SubSeq(r, 1, 1)[i] = <<EmptySegment>>[i]
        BY <3>1, <3>2, <4>1
      <4> HIDE DEF r
      <4> QED BY <3>2, <4>1, <4>2, SeqEqual
    <3> QED BY <2>1, <3>3 DEF Front, RootPath, EmptySegment
  <2>3. Searched(RootPath) = <<<<>>>>
    BY <2>1, <2>2 DEF Searched, Last, EmptySegment
  <2>4. ~ HasDelimiter(RootPath)
    BY <2>3 DEF HasDelimiter
  <2>5. to_name(RootPath) = <<>> \o FS_PATH_DELIMITER
    <3>1. Len(RootPath) > 1 /\ Searched(RootPath)[1] = <<>>
      BY <2>1, <2>3
    <3> QED BY <2>4, <3>1 DEF to_name
  <2>6. <<>> \o FS_PATH_DELIMITER = FS_PATH_DELIMITER
    BY NamesOfPaths, ConcatEmptySeq
  <2> QED BY <2>1, <2>4, <2>5, <2>6
          DEF Segments, IsAbsolute, to_parent_path, EmptySegment, RootPath
<1>2. CASE names = <<>>
  BY <1>1, <1>2, NamesOfPaths DEF absolute
<1>3. CASE names # <<>>
  <2> DEFINE n == Len(names)
  <2>1. /\ n \in Nat \ {0} /\ names \in Seq(Segs) /\ names[n] \in Normals
        /\ names[n] # EmptySegment /\ names[1] # EmptySegment
    BY <1>3, NamesOfPaths, EmptySeq, ElementOfSeq, SeqMonotonic
  <2>2. /\ path \in Seq(Segs) /\ Len(path) = n + 1 /\ path[1] = EmptySegment
        /\ \A k \in 1 .. n : path[k + 1] = names[k]
    <3>1. <<EmptySegment>> \in Seq(Segs) /\ Len(<<EmptySegment>>) = 1
      OBVIOUS
    <3>2. /\ path \in Seq(Segs) /\ Len(path) = 1 + n
          /\ \A i \in 1 .. 1 + n : path[i] = IF i <= 1 THEN <<EmptySegment>>[i] ELSE names[i - 1]
      BY <2>1, <3>1, ConcatProperties
    <3>3. ASSUME NEW k \in 1 .. n PROVE path[k + 1] = names[k]
      BY <2>1, <3>2
    <3> HIDE DEF path, n
    <3> QED BY <2>1, <3>2, <3>3
  <2>3. absolute(names) = path
    BY <1>3 DEF absolute
  <2> HIDE DEF path
  <2>4. path # <<>> /\ path \in AllPaths /\ IsAbsolute(path)
    BY <2>1, <2>2 DEF AllPaths, IsAbsolute
  <2>5. Tail(path) = names
    <3>1. /\ Tail(path) \in Seq(Segs) /\ Len(Tail(path)) = n
          /\ \A i \in 1 .. n : Tail(path)[i] = path[i + 1]
      BY <2>1, <2>2, <2>4, HeadTailProperties
    <3> QED BY <2>1, <2>2, <3>1, SeqEqual
  <2>6. Searched(path) = path /\ HasDelimiter(path) /\ Last(path) = names[n]
    BY <2>1, <2>2 DEF Searched, HasDelimiter, Last
  <2>7. to_name(path) = names[n]
    BY <2>6 DEF to_name
  <2> DEFINE front == SubSeq(names, 1, n - 1)
  <2>8. /\ front \in Seq(Segs) /\ Len(front) = n - 1
        /\ \A i \in 1 .. n - 1 : front[i] = names[i]
    <3>1. \A i \in 1 .. n - 1 : names[i] \in Segs
      BY <2>1, ElementOfSeq
    <3>2. n - 1 \in Int /\ 1 \in Int
      BY <2>1
    <3>3. /\ front \in Seq(Segs) /\ Len(front) = IF 1 <= n - 1 THEN (n - 1) - 1 + 1 ELSE 0
          /\ \A i \in 1 .. (n - 1) - 1 + 1 : front[i] = names[1 + i - 1]
      BY <3>1, <3>2, SubSeqProperties
    <3> HIDE DEF n, front
    <3> QED BY <2>1, <3>3
  <2>9. /\ Front(path) \in Seq(Segs) /\ Len(Front(path)) = n
        /\ \A i \in 1 .. n : Front(path)[i] = path[i]
    <3>1. \A i \in 1 .. n : path[i] \in Segs
      BY <2>1, <2>2, ElementOfSeq
    <3>2. Front(path) = SubSeq(path, 1, n)
      BY <2>1, <2>2 DEF Front
    <3>3. /\ SubSeq(path, 1, n) \in Seq(Segs)
          /\ Len(SubSeq(path, 1, n)) = IF 1 <= n THEN n - 1 + 1 ELSE 0
          /\ \A i \in 1 .. n - 1 + 1 : SubSeq(path, 1, n)[i] = path[1 + i - 1]
      BY <2>1, <3>1, SubSeqProperties
    <3> HIDE DEF n
    <3> QED BY <2>1, <3>2, <3>3
  <2>10. to_parent_path(path) = absolute(front)
    <3>1. CASE n = 1
      <4>1. front = <<>>
        BY <2>8, <3>1, EmptySeq
      <4>2. Front(path) = <<EmptySegment>>
        <5>1. <<EmptySegment>> \in Seq(Segs) /\ Len(<<EmptySegment>>) = 1
          OBVIOUS
        <5>2. Front(path)[1] = EmptySegment
          BY <2>2, <2>9, <3>1
        <5> QED BY <2>9, <3>1, <5>1, <5>2, SeqEqual
      <4> QED BY <2>6, <4>1, <4>2 DEF to_parent_path, absolute, EmptyPath
    <3>2. CASE n # 1
      <4>1. front # <<>>
        <5>1. Len(front) # 0
          BY <2>1, <2>8, <3>2
        <5> QED BY <5>1, EmptySeq
      <4>2. Front(path) = <<EmptySegment>> \o front
        <5>1. <<EmptySegment>> \in Seq(Segs) /\ Len(<<EmptySegment>>) = 1
          OBVIOUS
        <5>2. /\ <<EmptySegment>> \o front \in Seq(Segs) /\ Len(<<EmptySegment>> \o front) = 1 + (n - 1)
              /\ \A i \in 1 .. 1 + (n - 1) : (<<EmptySegment>> \o front)[i]
                      = IF i <= 1 THEN <<EmptySegment>>[i] ELSE front[i - 1]
          BY <2>8, <5>1, ConcatProperties
        <5>3. ASSUME NEW i \in 1 .. n PROVE Front(path)[i] = (<<EmptySegment>> \o front)[i]
          <6>1. Front(path)[i] = path[i]
            BY <2>9
          <6>2. CASE i = 1
            BY <2>1, <2>2, <5>2, <6>1, <6>2
          <6>3. CASE i # 1
            <7>1. i - 1 \in 1 .. n - 1 /\ i - 1 \in 1 .. n /\ (i - 1) + 1 = i
              BY <2>1, <6>3
            <7>2. path[i] = names[i - 1] /\ front[i - 1] = names[i - 1]
              BY <2>2, <2>8, <7>1
            <7>3. (<<EmptySegment>> \o front)[i] = front[i - 1]
              <8>1. i \in 1 .. 1 + (n - 1) /\ ~ (i <= 1)
                BY <2>1, <6>3
              <8> HIDE DEF front, n
              <8> QED BY <5>2, <8>1
            <7> QED BY <6>1, <7>2, <7>3
          <6> QED BY <6>2, <6>3
        <5>4. Len(<<EmptySegment>> \o front) = n
          BY <2>1, <5>2
        <5> HIDE DEF front
        <5> QED BY <2>9, <5>2, <5>3, <5>4, SeqEqual
      <4>3. Front(path) # EmptyPath
        BY <2>1, <2>9, <3>2 DEF EmptyPath
      <4> QED BY <2>6, <4>1, <4>2, <4>3 DEF to_parent_path, absolute
    <3> QED BY <3>1, <3>2
  <2> QED BY <1>1, <1>3, <2>3, <2>4, <2>5, <2>7, <2>10 DEF Segments
<1> QED BY <1>2, <1>3

-----------------------------------------------------------------------------
(* What the functions of fs_directory.c are given and return.              *)
Filled == [name : NAMES, inode : Inodes]
Rows == Seq({FreeEntry} \cup Filled)
States == [entries : [Inodes -> Rows], used : SUBSET Inodes, sound : BOOLEAN,
           ok : BOOLEAN, null : BOOLEAN]
Numbers == Inodes \cup {FS_INODE_FAILURE}

LEMMA RowFields ==
    ASSUME NEW s \in States, NEW d \in Inodes
    PROVE  /\ s.entries[d] \in Rows /\ Len(s.entries[d]) \in Nat
           /\ DOMAIN s.entries[d] = 1 .. Len(s.entries[d])
           /\ \A k \in DOMAIN s.entries[d] :
                 /\ s.entries[d][k] \in {FreeEntry} \cup Filled
                 /\ s.entries[d][k].name = EmptySegment => s.entries[d][k] = FreeEntry
                 /\ s.entries[d][k].name # EmptySegment =>
                       s.entries[d][k].name \in NAMES /\ s.entries[d][k].inode \in Inodes
                 /\ s.entries[d][k].inode \in Numbers
<1>1. s.entries[d] \in Rows
  BY DEF States
<1>2. /\ Len(s.entries[d]) \in Nat /\ DOMAIN s.entries[d] = 1 .. Len(s.entries[d])
      /\ \A k \in DOMAIN s.entries[d] : s.entries[d][k] \in {FreeEntry} \cup Filled
  BY <1>1, LenProperties, ElementOfSeq DEF Rows
<1>3. FreeEntry.name = EmptySegment /\ FreeEntry.inode = FS_INODE_FAILURE
  BY DEF FreeEntry, Entry
<1>4. \A e \in Filled : e.name \in NAMES /\ e.inode \in Inodes
  BY DEF Filled
<1> QED BY <1>1, <1>2, <1>3, <1>4, NamesOfPaths DEF Numbers

LEMMA StateFields ==
    ASSUME NEW s \in States
    PROVE  /\ s.entries \in [Inodes -> Rows] /\ s.used \in SUBSET Inodes
           /\ s.sound \in BOOLEAN /\ s.ok \in BOOLEAN /\ s.null \in BOOLEAN
  BY DEF States

(* The least index that is free, or has a name, or a prefix of one.        *)
LEMMA LeastIndex ==
    ASSUME NEW T, T \subseteq Nat, T # {}
    PROVE  Min(T) \in T /\ \A k \in T : Min(T) <= k
<1>1. \E x \in T : \A y \in T : x <= y
  BY LeastElement
<1>2. Min(T) = CHOOSE x \in T : \A y \in T : x <= y
  BY DEF Min
<1> QED BY <1>1, <1>2

LEMMA Looking ==
    ASSUME NEW s \in States, NEW X
    PROVE  /\ get(s, X) \in States
           /\ get(s, X).entries = s.entries /\ get(s, X).used = s.used
           /\ get(s, X).ok = s.ok /\ get(s, X).null = s.null
           /\ get(s, X).sound <=> (s.sound /\ X \subseteq s.used)
<1>1. (s.sound /\ X \subseteq s.used) \in BOOLEAN
  BY StateFields
<1>2. get(s, X) = [s EXCEPT !.sound = s.sound /\ X \subseteq s.used]
  BY DEF get
<1> DEFINE b == s.sound /\ X \subseteq s.used
<1>3. b \in BOOLEAN /\ get(s, X) = [s EXCEPT !.sound = b]
  BY <1>1, <1>2
<1> HIDE DEF b
<1>4. /\ get(s, X) \in States /\ get(s, X).sound = b
      /\ get(s, X).entries = s.entries /\ get(s, X).used = s.used
      /\ get(s, X).ok = s.ok /\ get(s, X).null = s.null
  BY <1>3 DEF States
<1> QED BY <1>4 DEF b

(* Look-ups return an inode number, or fail.                               *)
LEMMA Finding ==
    ASSUME NEW s \in States, NEW d \in Inodes, NEW name
    PROVE  /\ entry_find(s, d, name) \in Numbers
           /\ name # EmptySegment =>
                (entry_find(s, d, name) = FS_INODE_FAILURE
                    <=> \A k \in DOMAIN s.entries[d] : s.entries[d][k].name # name)
           /\ entry_find(s, d, name) # FS_INODE_FAILURE =>
                \E k \in DOMAIN s.entries[d] :
                    s.entries[d][k].name = name /\ s.entries[d][k].inode = entry_find(s, d, name)
<1>1. Named(s, d, name) \subseteq Nat
  BY RowFields DEF Named
<1>2. CASE Named(s, d, name) = {}
  BY <1>2 DEF entry_find, Named, Numbers
<1>3. CASE Named(s, d, name) # {}
  <2> DEFINE k == Min(Named(s, d, name))
  <2>1. k \in Named(s, d, name)
    BY <1>1, <1>3, LeastIndex
  <2>2. k \in DOMAIN s.entries[d] /\ s.entries[d][k].name = name
    BY <2>1 DEF Named
  <2>3. entry_find(s, d, name) = s.entries[d][k].inode
    BY <1>3 DEF entry_find
  <2> HIDE DEF k
  <2> QED BY <2>2, <2>3, RowFields, NamesOfPaths
<1> QED BY <1>2, <1>3

(* The same directories give the same answers.                             *)
LEMMA FindingAgain ==
    ASSUME NEW s, NEW t, NEW d, NEW name, s.entries = t.entries
    PROVE  entry_find(s, d, name) = entry_find(t, d, name)
  BY DEF entry_find, Named

(* An entry is added at an index that is free, or behind the others.       *)
AddsAt(old, new, k, entry) ==
    /\ k \in DOMAIN new /\ new[k] = entry
    /\ k \in DOMAIN old => old[k] = FreeEntry
    /\ DOMAIN old \subseteq DOMAIN new
    /\ \A l \in DOMAIN new \ {k} : l \in DOMAIN old /\ new[l] = old[l]

LEMMA Adding ==
    ASSUME NEW s \in States, NEW d \in Inodes, NEW entry \in Filled
    PROVE  LET t == entry_add(s, d, entry)
           IN  /\ t \in States
               /\ t.used = s.used /\ t.sound = s.sound /\ t.ok = s.ok /\ t.null = s.null
               /\ \A e \in Inodes \ {d} : t.entries[e] = s.entries[e]
               /\ \E k \in Nat : AddsAt(s.entries[d], t.entries[d], k, entry)
<1> DEFINE t == entry_add(s, d, entry)
           row == s.entries[d]
           free == Named(s, d, EmptySegment)
           S == {FreeEntry} \cup Filled
<1>1. /\ row \in Seq(S) /\ Len(row) \in Nat /\ DOMAIN row = 1 .. Len(row) /\ entry \in S
      /\ \A k \in DOMAIN row : row[k].name = EmptySegment => row[k] = FreeEntry
  BY RowFields DEF Rows
<1>2. ASSUME NEW new \in Rows, t = [s EXCEPT !.entries = [s.entries EXCEPT ![d] = new]]
      PROVE  /\ t \in States /\ t.entries[d] = new
             /\ t.used = s.used /\ t.sound = s.sound /\ t.ok = s.ok /\ t.null = s.null
             /\ \A e \in Inodes \ {d} : t.entries[e] = s.entries[e]
  <2>1. [s.entries EXCEPT ![d] = new] \in [Inodes -> Rows]
    BY StateFields
  <2> DEFINE E == [s.entries EXCEPT ![d] = new]
  <2>2. E[d] = new /\ \A e \in Inodes \ {d} : E[e] = s.entries[e]
    BY StateFields
  <2> HIDE DEF E, t
  <2>3. /\ t.entries = E /\ t \in States
        /\ t.used = s.used /\ t.sound = s.sound /\ t.ok = s.ok /\ t.null = s.null
    BY <1>2, <2>1 DEF States, E
  <2> QED BY <2>2, <2>3
<1>3. CASE free # {}
  <2> DEFINE k == Min(free)
  <2>1. k \in free
    <3>1. free \subseteq Nat
      BY <1>1 DEF Named
    <3> QED BY <1>3, <3>1, LeastIndex
  <2>2. k \in DOMAIN row /\ row[k] = FreeEntry
    BY <1>1, <2>1 DEF Named
  <2>3. t = [s EXCEPT !.entries = [s.entries EXCEPT ![d] = [row EXCEPT ![k] = entry]]]
    BY <1>3 DEF entry_add
  <2> HIDE DEF k, t, S
  <2>4. /\ [row EXCEPT ![k] = entry] \in Seq(S) /\ Len([row EXCEPT ![k] = entry]) = Len(row)
        /\ \A j \in 1 .. Len(row) : [row EXCEPT ![k] = entry][j] = IF j = k THEN entry ELSE row[j]
    BY <1>1, <2>2, ExceptSeq
  <2> DEFINE new == [row EXCEPT ![k] = entry]
  <2>5. new \in Rows /\ DOMAIN new = DOMAIN row
    BY <1>1, <2>4 DEF Rows, S
  <2>6. AddsAt(row, new, k, entry) /\ k \in Nat
    BY <1>1, <2>2, <2>4, <2>5 DEF AddsAt
  <2> HIDE DEF new
  <2>7. /\ t \in States /\ t.entries[d] = new
        /\ t.used = s.used /\ t.sound = s.sound /\ t.ok = s.ok /\ t.null = s.null
        /\ \A e \in Inodes \ {d} : t.entries[e] = s.entries[e]
    BY <1>2, <2>3, <2>5 DEF new
  <2> QED BY <2>6, <2>7 DEF t
<1>4. CASE free = {}
  <2> DEFINE new == Append(row, entry)
             k == Len(row) + 1
  <2>1. t = [s EXCEPT !.entries = [s.entries EXCEPT ![d] = new]]
    BY <1>4 DEF entry_add
  <2> HIDE DEF S, row, t
  <2>2. /\ new \in Seq(S) /\ Len(new) = Len(row) + 1
        /\ \A i \in 1 .. Len(row) + 1 : new[i] = IF i = Len(row) + 1 THEN entry ELSE row[i]
    BY <1>1, AppendProperties
  <2>3. new \in Rows /\ DOMAIN new = 1 .. Len(row) + 1
    BY <2>2, LenProperties DEF Rows, S
  <2> HIDE DEF new
  <2>4. AddsAt(row, new, k, entry) /\ k \in Nat
    BY <1>1, <2>2, <2>3 DEF AddsAt
  <2>5. /\ t \in States /\ t.entries[d] = new
        /\ t.used = s.used /\ t.sound = s.sound /\ t.ok = s.ok /\ t.null = s.null
        /\ \A e \in Inodes \ {d} : t.entries[e] = s.entries[e]
    BY <1>2, <2>1, <2>3
  <2> QED BY <2>4, <2>5 DEF t, row
<1> QED BY <1>3, <1>4

(* A deletion frees the first entry that has a prefix of the name, if any. *)
FreesAt(old, new, k, name) ==
    /\ k \in DOMAIN old /\ IsPrefix(old[k].name, name)
    /\ \A l \in DOMAIN old : l < k => ~ IsPrefix(old[l].name, name)
    /\ DOMAIN new = DOMAIN old /\ new[k] = FreeEntry
    /\ \A l \in DOMAIN old \ {k} : new[l] = old[l]

LEMMA Deleting ==
    ASSUME NEW s \in States, NEW d \in Inodes, NEW name
    PROVE  LET t == entry_del(s, d, name)
           IN  /\ t \in States
               /\ t.used = s.used /\ t.sound = s.sound /\ t.ok = s.ok /\ t.null = s.null
               /\ \A e \in Inodes \ {d} : t.entries[e] = s.entries[e]
               /\ t = s \/ \E k \in Nat : FreesAt(s.entries[d], t.entries[d], k, name)
<1> DEFINE t == entry_del(s, d, name)
           row == s.entries[d]
           hit == {k \in DOMAIN row : IsPrefix(row[k].name, name)}
           S == {FreeEntry} \cup Filled
<1>1. row \in Seq(S) /\ Len(row) \in Nat /\ DOMAIN row = 1 .. Len(row) /\ FreeEntry \in S
  BY RowFields DEF Rows
<1>2. CASE hit = {}
  BY <1>2 DEF entry_del
<1>3. CASE hit # {}
  <2> DEFINE k == Min(hit)
             new == [row EXCEPT ![k] = FreeEntry]
             E == [s.entries EXCEPT ![d] = new]
  <2>1. k \in hit /\ \A l \in hit : k <= l
    <3>1. hit \subseteq Nat
      BY <1>1
    <3> HIDE DEF hit
    <3> QED BY <1>3, <3>1, LeastIndex
  <2>2. t = [s EXCEPT !.entries = E]
    BY <1>3 DEF entry_del
  <2>3. k \in DOMAIN row /\ IsPrefix(row[k].name, name)
    BY <2>1
  <2>4. \A l \in DOMAIN row : l < k => ~ IsPrefix(row[l].name, name)
    <3>1. ASSUME NEW l \in DOMAIN row, l < k, IsPrefix(row[l].name, name) PROVE FALSE
      <4>1. l \in hit
        BY <3>1
      <4>2. k <= l /\ k \in Nat /\ l \in Nat
        BY <1>1, <2>1, <2>3, <4>1
      <4> HIDE DEF k
      <4> QED BY <3>1, <4>2
    <3> QED BY <3>1
  <2> HIDE DEF S, k, t, hit
  <2>5. /\ new \in Seq(S) /\ Len(new) = Len(row)
        /\ \A j \in 1 .. Len(row) : new[j] = IF j = k THEN FreeEntry ELSE row[j]
    BY <1>1, <2>3, ExceptSeq
  <2>6. new \in Rows /\ DOMAIN new = DOMAIN row
    BY <1>1, <2>5 DEF Rows, S
  <2>7. FreesAt(row, new, k, name) /\ k \in Nat
    BY <1>1, <2>3, <2>4, <2>5, <2>6 DEF FreesAt
  <2> HIDE DEF new
  <2>8. E \in [Inodes -> Rows] /\ E[d] = new /\ \A e \in Inodes \ {d} : E[e] = s.entries[e]
    BY <2>6, StateFields
  <2> HIDE DEF E
  <2>9. /\ t \in States /\ t.entries = E
        /\ t.used = s.used /\ t.sound = s.sound /\ t.ok = s.ok /\ t.null = s.null
    BY <2>2, <2>8 DEF States
  <2> QED BY <2>7, <2>8, <2>9 DEF t
<1> QED BY <1>2, <1>3

LEMMA DeletingNowhere ==
    ASSUME NEW s \in States, NEW d, d \notin Inodes, NEW name
    PROVE  entry_del(s, d, name) = s
<1> DEFINE hit == {k \in DOMAIN s.entries[d] : IsPrefix(s.entries[d][k].name, name)}
           new == [s.entries[d] EXCEPT ![Min(hit)] = FreeEntry]
<1>1. entry_del(s, d, name) = IF hit = {} THEN s
                              ELSE [s EXCEPT !.entries = [s.entries EXCEPT ![d] = new]]
  BY DEF entry_del
<1> HIDE DEF hit, new
<1>2. [s.entries EXCEPT ![d] = new] = s.entries
  BY StateFields
<1>3. [s EXCEPT !.entries = s.entries] = s
  BY DEF States
<1> QED BY <1>1, <1>2, <1>3

LEMMA Destroying ==
    ASSUME NEW s \in States, NEW i \in Inodes
    PROVE  LET t == destroy(s, i)
           IN  /\ t \in States /\ t.used = s.used \ {i}
               /\ t.sound = s.sound /\ t.ok = s.ok /\ t.null = s.null
               /\ t.entries[i] = <<>> /\ \A e \in Inodes \ {i} : t.entries[e] = s.entries[e]
<1> DEFINE E == [s.entries EXCEPT ![i] = <<>>]
           t == destroy(s, i)
<1>1. t = [s EXCEPT !.used = s.used \ {i}, !.entries = E]
  BY DEF destroy
<1>2. <<>> \in Rows
  BY DEF Rows
<1>3. E \in [Inodes -> Rows] /\ E[i] = <<>> /\ \A e \in Inodes \ {i} : E[e] = s.entries[e]
  BY <1>2, StateFields
<1> HIDE DEF E, t
<1>4. s.used \ {i} \in SUBSET Inodes
  BY StateFields
<1>5. /\ t \in States /\ t.used = s.used \ {i} /\ t.entries = E
      /\ t.sound = s.sound /\ t.ok = s.ok /\ t.null = s.null
  BY <1>1, <1>3, <1>4 DEF States
<1> QED BY <1>3, <1>5 DEF t

LEMMA FreshIsFree ==
    ASSUME NEW s \in States, s.used # Inodes
    PROVE  Fresh(s) \in Inodes /\ Fresh(s) \notin s.used
<1>1. Inodes \ s.used \subseteq Nat /\ Inodes \ s.used # {}
  BY StateFields, NamesOfPaths
<1>2. Fresh(s) \in Inodes \ s.used
  BY <1>1, LeastIndex DEF Fresh
<1> QED BY <1>2

(* A new inode f with its first entries, under a name of directory d.      *)
Enters(s, t, d, name, contents, f) ==
    /\ f \in Inodes /\ f \notin s.used /\ t.used = s.used \cup {f}
    /\ \A e \in Inodes \ {d, f} : t.entries[e] = s.entries[e]
    /\ d # f => t.entries[f] = contents
    /\ \E k \in Nat : AddsAt(IF d = f THEN contents ELSE s.entries[d], t.entries[d], k,
                             Entry(name, f))

LEMMA Creating ==
    ASSUME NEW s \in States, NEW d \in Inodes, NEW name \in NAMES, NEW contents \in Rows,
           s.used # Inodes
    PROVE  LET t == enter(s, d, name, contents)
           IN  /\ t \in States /\ t.sound = s.sound /\ t.ok = s.ok /\ t.null = s.null
               /\ Enters(s, t, d, name, contents, Fresh(s))
<1> DEFINE f == Fresh(s)
           E == [s.entries EXCEPT ![f] = contents]
           r == [s EXCEPT !.used = s.used \cup {f}, !.entries = E]
           t == enter(s, d, name, contents)
<1>1. t = entry_add(r, d, Entry(name, f))
  BY DEF enter
<1>2. f \in Inodes /\ f \notin s.used
  BY FreshIsFree
<1> HIDE DEF f
<1>3. E \in [Inodes -> Rows] /\ E[f] = contents /\ \A e \in Inodes \ {f} : E[e] = s.entries[e]
  BY <1>2, StateFields
<1> HIDE DEF E
<1>4. s.used \cup {f} \in SUBSET Inodes
  BY <1>2, StateFields
<1>5. /\ r \in States /\ r.used = s.used \cup {f} /\ r.entries = E
      /\ r.sound = s.sound /\ r.ok = s.ok /\ r.null = s.null
  BY <1>3, <1>4 DEF States
<1>6. Entry(name, f) \in Filled
  BY <1>2 DEF Entry, Filled
<1> HIDE DEF r
<1>7. /\ t \in States
      /\ t.used = r.used /\ t.sound = r.sound /\ t.ok = r.ok /\ t.null = r.null
      /\ \A e \in Inodes \ {d} : t.entries[e] = r.entries[e]
      /\ \E k \in Nat : AddsAt(r.entries[d], t.entries[d], k, Entry(name, f))
  BY <1>1, <1>5, <1>6, Adding
<1> HIDE DEF t
<1>8. r.entries[d] = IF d = f THEN contents ELSE s.entries[d]
  BY <1>3, <1>5
<1>9. Enters(s, t, d, name, contents, f)
  BY <1>2, <1>3, <1>5, <1>7, <1>8 DEF Enters
<1> QED BY <1>5, <1>7, <1>9 DEF t, f

-----------------------------------------------------------------------------
(* Walking along a path through the directories.                           *)
Start(path, from) == IF IsAbsolute(path) THEN FS_ROOT_DIRECTORY_INODE ELSE from
Length(path) ==
    LET ends == {k \in DOMAIN Segments(path) : Segments(path)[k] = EmptySegment}
    IN  IF ends = {} THEN Len(Segments(path)) ELSE Min(ends) - 1
Onward(s, d, name) == IF d = FS_INODE_FAILURE THEN FS_INODE_FAILURE ELSE entry_find(s, d, name)

LEMMA OnwardTyped ==
    ASSUME NEW s \in States, NEW d \in Numbers, NEW name
    PROVE  Onward(s, d, name) \in Numbers
  BY Finding DEF Onward, Numbers

LEMMA LengthTyped ==
    ASSUME NEW path \in AllPaths
    PROVE  Length(path) \in Nat
<1> DEFINE ends == {k \in DOMAIN Segments(path) : Segments(path)[k] = EmptySegment}
<1>1. DOMAIN Segments(path) = 1 .. Len(Segments(path)) /\ Len(Segments(path)) \in Nat
  BY SegmentsTyped, LenProperties
<1>2. CASE ends # {}
  <2>1. ends \subseteq Nat
    BY <1>1
  <2>2. Min(ends) \in ends
    BY <1>2, <2>1, LeastIndex
  <2>3. Min(ends) \in 1 .. Len(Segments(path))
    BY <1>1, <2>2
  <2>4. Min(ends) - 1 \in Nat
    BY <1>1, <2>3
  <2> QED BY <1>2, <2>4 DEF Length
<1>3. CASE ends = {}
  BY <1>1, <1>3 DEF Length
<1> QED BY <1>2, <1>3

LEMMA WalkSteps ==
    ASSUME NEW s \in States, NEW path \in AllPaths, NEW from \in Inodes
    PROVE  \E at \in [0 .. Length(path) -> Numbers] :
              /\ at[0] = Start(path, from)
              /\ \A k \in 0 .. Length(path) - 1 :
                    at[k + 1] = Onward(s, at[k], Segments(path)[k + 1])
              /\ path_to_inode(s, path, from).inode = at[Length(path)]
<1> DEFINE n == Length(path)
           all == Segments(path)
           start == Start(path, from)
           Good(t) == t = [k \in 0 .. n |->
                             IF k = 0 THEN start
                             ELSE IF t[k - 1] = FS_INODE_FAILURE THEN FS_INODE_FAILURE
                             ELSE entry_find(s, t[k - 1], all[k])]
           F == [k \in Nat |-> [x \in Numbers |-> Onward(s, x, all[k + 1])]]
           c == CHOOSE t : Good(t)
<1>1. n \in Nat
  BY LengthTyped
<1>2. start \in Numbers
  BY NamesOfPaths DEF Start, Numbers
<1>3. path_to_inode(s, path, from).inode = c[n]
  BY DEF path_to_inode, Length, Start
<1> HIDE DEF c, n, all, start
<1>4. F \in [Nat -> [Numbers -> Numbers]]
  BY OnwardTyped
<1>5. PICK t \in [0 .. n -> Numbers] : Iterates(t, start, F, n)
  <2> HIDE DEF F
  <2> QED BY <1>1, <1>2, <1>4, RecursionUpTo
<1>6. Good(t)
  <2>1. ASSUME NEW k \in 0 .. n, k # 0 PROVE F[k - 1][t[k - 1]] = Onward(s, t[k - 1], all[k])
    <3>1. k - 1 \in Nat /\ k - 1 \in 0 .. n /\ (k - 1) + 1 = k
      BY <1>1, <2>1
    <3>2. t[k - 1] \in Numbers
      BY <3>1
    <3> QED BY <3>1, <3>2
  <2>2. t = [k \in 0 .. n |-> t[k]]
    OBVIOUS
  <2> HIDE DEF F
  <2> QED BY <1>5, <2>1, <2>2 DEF Iterates, Onward
<1>7. Good(c)
  BY <1>6 DEF c
<1>8. \A k \in 0 .. n : c[k] = IF k = 0 THEN start ELSE Onward(s, c[k - 1], all[k])
  BY <1>7 DEF Onward
<1>9. DOMAIN c = 0 .. n /\ c = [k \in 0 .. n |-> c[k]]
  BY <1>7
<1> HIDE DEF Good
<1> DEFINE T == {k \in 0 .. n : c[k] \in Numbers}
<1>10. 0 \in T
  BY <1>1, <1>2, <1>8
<1>11. ASSUME NEW k \in 0 .. n - 1 PROVE c[k + 1] = Onward(s, c[k], all[k + 1])
  <2>1. k + 1 \in 0 .. n /\ k + 1 # 0 /\ (k + 1) - 1 = k
    BY <1>1
  <2> QED BY <1>8, <2>1
<1>12. ASSUME NEW k \in 0 .. n - 1, k \in T PROVE k + 1 \in T
  BY <1>1, <1>11, <1>12, OnwardTyped
<1>13. \A k \in 0 .. n : c[k] \in Numbers
  <2>1. \A k \in 0 .. n : k \in T
    <3> HIDE DEF T
    <3> QED BY <1>1, <1>10, <1>12, UpTo
  <2> QED BY <2>1
<1>14. c \in [0 .. n -> Numbers]
  BY <1>9, <1>13
<1>15. c[0] = start
  BY <1>1, <1>8
<1> QED BY <1>3, <1>11, <1>14, <1>15 DEF n, all, start

(* Two walks of the same steps end at the same inode.                      *)
Walks(s, n, row, a) == \A k \in 0 .. n - 1 : a[k + 1] = Onward(s, a[k], row[k + 1])

LEMMA WalkIsOne ==
    ASSUME NEW s, NEW n \in Nat, NEW row, NEW a, NEW b, a[0] = b[0],
           Walks(s, n, row, a), Walks(s, n, row, b)
    PROVE  a[n] = b[n]
<1> DEFINE T == {k \in 0 .. n : a[k] = b[k]}
<1>1. 0 \in T
  OBVIOUS
<1>2. ASSUME NEW k \in 0 .. n - 1, k \in T PROVE k + 1 \in T
  <2>1. a[k] = b[k] /\ k + 1 \in 0 .. n
    BY <1>2
  <2>2. a[k + 1] = Onward(s, a[k], row[k + 1]) /\ b[k + 1] = Onward(s, b[k], row[k + 1])
    BY DEF Walks
  <2> QED BY <2>1, <2>2
<1>3. \A k \in 0 .. n : k \in T
  <2> HIDE DEF T
  <2> QED BY <1>1, <1>2, UpTo
<1> QED BY <1>3

LEMMA LengthOfNames ==
    ASSUME NEW names \in Seq(Normals)
    PROVE  /\ Length(absolute(names)) = Len(names)
           /\ Length(EmptyPath) = 0 /\ ~ IsAbsolute(EmptyPath)
           /\ \A from : Start(absolute(names), from) = FS_ROOT_DIRECTORY_INODE
<1>1. ASSUME NEW path, Segments(path) = <<EmptySegment>> PROVE Length(path) = 0
  <2> DEFINE ends == {k \in DOMAIN Segments(path) : Segments(path)[k] = EmptySegment}
  <2>1. DOMAIN Segments(path) = {1} /\ Segments(path)[1] = EmptySegment
    BY <1>1
  <2>2. ends = {1}
    BY <2>1
  <2> HIDE DEF ends
  <2>3. Min(ends) \in ends
    BY <2>2, LeastIndex
  <2>4. Min(ends) = 1
    BY <2>2, <2>3
  <2> QED BY <2>2, <2>4 DEF Length, ends
<1>2. ~ IsAbsolute(EmptyPath) /\ Segments(EmptyPath) = <<EmptySegment>>
  BY DEF EmptyPath, IsAbsolute, Segments
<1>3. CASE names = <<>>
  <2>1. absolute(names) = RootPath
    BY <1>3 DEF absolute
  <2> QED BY <1>1, <1>2, <1>3, <2>1, AbsolutePaths DEF Start
<1>4. CASE names # <<>>
  <2>1. Segments(absolute(names)) = names /\ IsAbsolute(absolute(names))
    BY <1>4, AbsolutePaths
  <2>2. {k \in DOMAIN names : names[k] = EmptySegment} = {}
    <3>1. \A k \in DOMAIN names : names[k] \in NAMES
      BY ElementOfSeq, LenProperties, NamesOfPaths
    <3> QED BY <3>1, NamesOfPaths
  <2>3. Length(absolute(names)) = Len(names)
    BY <2>1, <2>2 DEF Length
  <2> QED BY <1>1, <1>2, <2>1, <2>3 DEF Start
<1> QED BY <1>3, <1>4

(* A path of names is walked to the parent first, and from there by the    *)
(* last name.                                                              *)
LEMMA LastStep ==
    ASSUME NEW s \in States, NEW names \in Seq(Normals), names # <<>>, NEW from \in Inodes
    PROVE  path_to_inode(s, absolute(names), from).inode
             = Onward(s, path_to_inode(s, absolute(SubSeq(names, 1, Len(names) - 1)), from).inode,
                      names[Len(names)])
<1> DEFINE n == Len(names)
           front == SubSeq(names, 1, n - 1)
<1>1. n \in Nat /\ n > 0 /\ \A i \in 1 .. n : names[i] \in Normals
  BY EmptySeq, ElementOfSeq
<1>2. /\ front \in Seq(Normals) /\ Len(front) = n - 1
      /\ \A i \in 1 .. n - 1 : front[i] = names[i]
  <2>1. \A i \in 1 .. n - 1 : names[i] \in Normals
    BY <1>1
  <2>2. /\ front \in Seq(Normals) /\ Len(front) = IF 1 <= n - 1 THEN (n - 1) - 1 + 1 ELSE 0
        /\ \A i \in 1 .. (n - 1) - 1 + 1 : front[i] = names[1 + i - 1]
    <3> HIDE DEF n
    <3>1. n - 1 \in Int /\ 1 \in Int
      BY <1>1
    <3> QED BY <2>1, <3>1, SubSeqProperties
  <2> HIDE DEF n, front
  <2> QED BY <1>1, <2>2
<1> HIDE DEF n, front
<1>3. /\ Length(absolute(names)) = n /\ Length(absolute(front)) = n - 1
      /\ Start(absolute(names), from) = Start(absolute(front), from)
      /\ absolute(names) \in AllPaths /\ absolute(front) \in AllPaths
      /\ Segments(absolute(names)) = names
      /\ n - 1 # 0 => Segments(absolute(front)) = front
  <2>1. n - 1 # 0 => front # <<>>
    BY <1>2, EmptySeq
  <2> QED BY <1>2, <2>1, LengthOfNames, AbsolutePaths DEF n
<1>4. PICK a \in [0 .. n -> Numbers] :
         /\ a[0] = Start(absolute(names), from)
         /\ \A k \in 0 .. n - 1 : a[k + 1] = Onward(s, a[k], names[k + 1])
         /\ path_to_inode(s, absolute(names), from).inode = a[n]
  BY <1>3, WalkSteps
<1>5. PICK b \in [0 .. n - 1 -> Numbers] :
         /\ b[0] = Start(absolute(front), from)
         /\ \A k \in 0 .. n - 1 - 1 : b[k + 1] = Onward(s, b[k], Segments(absolute(front))[k + 1])
         /\ path_to_inode(s, absolute(front), from).inode = b[n - 1]
  BY <1>3, WalkSteps
<1>6. a[n - 1] = b[n - 1]
  <2> DEFINE m == n - 1
  <2>1. m \in Nat /\ a[0] = b[0] /\ m \in 0 .. m
    BY <1>1, <1>3, <1>4, <1>5
  <2>2. \A k \in 0 .. m - 1 : a[k + 1] = Onward(s, a[k], names[k + 1])
    BY <1>1, <1>4
  <2>3. ASSUME NEW k \in 0 .. m - 1 PROVE b[k + 1] = Onward(s, b[k], names[k + 1])
    <3>1. n - 1 # 0 /\ k + 1 \in 1 .. n - 1 /\ k \in 0 .. n - 1 - 1
      BY <1>1
    <3> QED BY <1>2, <1>3, <1>5, <3>1
  <2> HIDE DEF m
  <2>4. Walks(s, m, names, a) /\ Walks(s, m, names, b)
    BY <2>2, <2>3 DEF Walks
  <2>5. a[m] = b[m]
    BY <2>1, <2>4, WalkIsOne
  <2> QED BY <2>1, <2>5 DEF m
<1>7. a[n] = Onward(s, a[n - 1], names[n])
  <2>1. n - 1 \in 0 .. n - 1 /\ (n - 1) + 1 = n
    BY <1>1
  <2>2. a[(n - 1) + 1] = Onward(s, a[n - 1], names[(n - 1) + 1])
    BY <1>4, <2>1
  <2> QED BY <2>1, <2>2
<1> QED BY <1>4, <1>5, <1>6, <1>7 DEF n, front

LEMMA PathTyped ==
    ASSUME NEW s \in States, NEW path \in AllPaths, NEW from \in Inodes
    PROVE  path_to_inode(s, path, from).inode \in Numbers
<1>1. PICK at \in [0 .. Length(path) -> Numbers] :
         path_to_inode(s, path, from).inode = at[Length(path)]
  BY WalkSteps
<1> QED BY <1>1, LengthTyped

LEMMA ParentPathTyped ==
    ASSUME NEW path \in AllPaths
    PROVE  to_parent_path(path) \in AllPaths
<1> DEFINE Segs == NAMES \cup {EmptySegment}
<1>1. ASSUME NEW p \in Seq(Segs), Len(p) > 1
      PROVE  Front(p) \in Seq(Segs) /\ Len(Front(p)) = Len(p) - 1
  <2>1. Len(p) \in Nat /\ \A i \in 1 .. Len(p) - 1 : p[i] \in Segs
    BY ElementOfSeq, LenProperties
  <2>2. /\ SubSeq(p, 1, Len(p) - 1) \in Seq(Segs)
        /\ Len(SubSeq(p, 1, Len(p) - 1)) = IF 1 <= Len(p) - 1 THEN (Len(p) - 1) - 1 + 1 ELSE 0
    <3>1. 1 \in Int /\ Len(p) - 1 \in Int
      BY <2>1
    <3> HIDE DEF Segs
    <3> QED BY <2>1, <3>1, SubSeqProperties
  <2> QED BY <1>1, <2>1, <2>2 DEF Front
<1>2. path \in Seq(Segs) /\ Len(path) \in Nat \ {0}
  BY EmptySeq DEF AllPaths
<1>3. Searched(path) \in Seq(Segs) /\ Len(Searched(path)) \in Nat
  <2>1. Searched(path) \in Seq(Segs)
    BY <1>1, <1>2 DEF Searched
  <2> QED BY <2>1, LenProperties
<1>4. HasDelimiter(path) => Front(Searched(path)) \in Seq(Segs) /\ Len(Front(Searched(path))) > 0
  BY <1>1, <1>3 DEF HasDelimiter
<1>5. HasDelimiter(path) => Front(Searched(path)) \in AllPaths
  BY <1>4, EmptySeq DEF AllPaths
<1> QED BY <1>5, NamesOfPaths DEF to_parent_path

LEMMA ParentTyped ==
    ASSUME NEW s \in States, NEW path \in AllPaths, NEW from \in Inodes
    PROVE  path_to_parent_inode(s, path, from).inode \in Numbers
  BY PathTyped, ParentPathTyped DEF path_to_parent_inode

-----------------------------------------------------------------------------
(* The inductive invariant.  No name is twice in a row, and an inode that  *)
(* is not in use has no entries.                                           *)
OnlyOnce(row) ==
    \A k, l \in DOMAIN row : row[k].name = row[l].name => k = l \/ row[k] = FreeEntry

Tidy(s) == /\ \A d \in Inodes : d \notin s.used => s.entries[d] = <<>>
           /\ \A d \in Inodes : OnlyOnce(s.entries[d])

(* As long as deletions are exact: "." stands for its directory, ".." has  *)
(* the "." before it, so that no deletion by prefix reaches it, and what   *)
(* another name stands for is in use, is not the root nor the directory    *)
(* itself, has no second name, and has a ".." for the directory it is in,  *)
(* if any.  The root is in use, and is its own "..".                       *)
Dots(s, d) ==
    \A k \in DOMAIN s.entries[d] :
        /\ s.entries[d][k].name = FS_DIRECTORY_CURRENT_DIR_NAME => s.entries[d][k].inode = d
        /\ s.entries[d][k].name = FS_DIRECTORY_PARENT_DIR_NAME =>
               \E l \in DOMAIN s.entries[d] :
                   l < k /\ s.entries[d][l].name = FS_DIRECTORY_CURRENT_DIR_NAME

Proper(s, d) ==
    \A k \in DOMAIN s.entries[d] : s.entries[d][k].name \in Normals =>
        s.entries[d][k].inode \in s.used \ {d, FS_ROOT_DIRECTORY_INODE}

OneName(s, d, e) ==
    \A k \in DOMAIN s.entries[d] : \A l \in DOMAIN s.entries[e] :
        /\ s.entries[d][k].name \in Normals /\ s.entries[e][l].name \in Normals
        /\ s.entries[d][k].inode = s.entries[e][l].inode
        => d = e /\ k = l

(* The .. of e is d.                                                       *)
Above(s, e, d) ==
    \A l \in DOMAIN s.entries[e] :
        s.entries[e][l].name = FS_DIRECTORY_PARENT_DIR_NAME => s.entries[e][l].inode = d

Below(s, d) ==
    \A k \in DOMAIN s.entries[d] :
        s.entries[d][k].name \in Normals => Above(s, s.entries[d][k].inode, d)

Tree(s) ==
    /\ FS_ROOT_DIRECTORY_INODE \in s.used
    /\ Above(s, FS_ROOT_DIRECTORY_INODE, FS_ROOT_DIRECTORY_INODE)
    /\ \A d \in Inodes : /\ Dots(s, d) /\ Proper(s, d) /\ Below(s, d)
                         /\ \A e \in Inodes : OneName(s, d, e)

IInv ==
    /\ State \in States
    /\ cwd \in Inodes /\ cwd_path \in Seq(Normals) /\ exact \in BOOLEAN
    /\ sound => Tidy(State)
    /\ sound /\ exact => Tree(State)

(* The first entries of what is made.                                      *)
FirstEntries(d, f) == <<Entry(FS_DIRECTORY_CURRENT_DIR_NAME, f),
                        Entry(FS_DIRECTORY_PARENT_DIR_NAME, d)>>

LEMMA FirstEntriesTyped ==
    ASSUME NEW d \in Inodes, NEW f \in Inodes
    PROVE  /\ FirstEntries(d, f) \in Rows /\ DOMAIN FirstEntries(d, f) = {1, 2}
           /\ FirstEntries(d, f)[1] = Entry(FS_DIRECTORY_CURRENT_DIR_NAME, f)
           /\ FirstEntries(d, f)[2] = Entry(FS_DIRECTORY_PARENT_DIR_NAME, d)
           /\ OnlyOnce(FirstEntries(d, f))
<1> DEFINE a == Entry(FS_DIRECTORY_CURRENT_DIR_NAME, f)
           b == Entry(FS_DIRECTORY_PARENT_DIR_NAME, d)
<1>1. a \in Filled /\ b \in Filled /\ a.name # b.name
  BY NamesOfPaths DEF Entry, Filled
<1> HIDE DEF a, b
<1>2. /\ <<a, b>> \in Rows /\ DOMAIN <<a, b>> = {1, 2} /\ <<a, b>>[1] = a /\ <<a, b>>[2] = b
  BY <1>1 DEF Rows
<1>3. OnlyOnce(<<a, b>>)
  BY <1>1, <1>2 DEF OnlyOnce
<1> QED BY <1>2, <1>3 DEF FirstEntries, a, b

LEMMA EntryFields ==
    ASSUME NEW name \in NAMES, NEW f \in Inodes
    PROVE  /\ Entry(name, f).name = name /\ Entry(name, f).inode = f
           /\ Entry(name, f) # FreeEntry /\ Entry(name, f) \in Filled
           /\ FreeEntry.name = EmptySegment /\ FreeEntry.name \notin NAMES
           /\ FreeEntry.inode = FS_INODE_FAILURE
<1>1. /\ Entry(name, f).name = name /\ Entry(name, f).inode = f
      /\ FreeEntry.name = EmptySegment /\ FreeEntry.inode = FS_INODE_FAILURE
      /\ Entry(name, f) \in Filled
  BY DEF FreeEntry, Entry, Filled
<1>2. Entry(name, f) # FreeEntry /\ FreeEntry.name \notin NAMES
  BY <1>1, NamesOfPaths
<1> QED BY <1>1, <1>2

(* A row stays without a name twice when a new one is added.               *)
LEMMA AddingOnce ==
    ASSUME NEW old, NEW new, NEW k, NEW entry, OnlyOnce(old), AddsAt(old, new, k, entry),
           \A l \in DOMAIN old : old[l].name # entry.name
    PROVE  OnlyOnce(new)
<1>1. \A l \in DOMAIN new : l # k => l \in DOMAIN old /\ new[l] = old[l]
  BY DEF AddsAt
<1>2. new[k] = entry
  BY DEF AddsAt
<1> QED BY <1>1, <1>2 DEF OnlyOnce

LEMMA FreeingOnce ==
    ASSUME NEW old, NEW new, NEW k, NEW name, OnlyOnce(old), FreesAt(old, new, k, name),
           \A l \in DOMAIN old : old[l].name = FreeEntry.name => old[l] = FreeEntry
    PROVE  OnlyOnce(new)
<1>1. /\ DOMAIN new = DOMAIN old /\ new[k] = FreeEntry
      /\ \A l \in DOMAIN old : l # k => new[l] = old[l]
  BY DEF FreesAt
<1> QED BY <1>1 DEF OnlyOnce

LEMMA EnterTidy ==
    ASSUME NEW s \in States, NEW t \in States, NEW d \in Inodes, NEW name \in NAMES,
           NEW contents, NEW f, Enters(s, t, d, name, contents, f),
           OnlyOnce(contents), Tidy(s), d \in s.used,
           \A k \in DOMAIN s.entries[d] : s.entries[d][k].name # name
    PROVE  Tidy(t)
<1>1. /\ f \in Inodes /\ f \notin s.used /\ d # f /\ t.used = s.used \cup {f}
      /\ t.entries[f] = contents
      /\ \A e \in Inodes : e # d /\ e # f => t.entries[e] = s.entries[e]
  BY DEF Enters
<1>2. PICK k \in Nat : AddsAt(s.entries[d], t.entries[d], k, Entry(name, f))
  BY <1>1 DEF Enters
<1>3. OnlyOnce(t.entries[d])
  <2>1. Entry(name, f).name = name
    BY <1>1, EntryFields
  <2> QED BY <1>2, <2>1, AddingOnce DEF Tidy
<1> QED BY <1>1, <1>3 DEF Tidy

LEMMA EnterTree ==
    ASSUME NEW s \in States, NEW t \in States, NEW d \in Inodes, NEW name \in Normals,
           NEW contents, NEW f, Enters(s, t, d, name, contents, f),
           contents \in {<<>>, FirstEntries(d, f)}, Tidy(s), Tree(s), d \in s.used
    PROVE  Tree(t)
<1>1. /\ f \in Inodes /\ f \notin s.used /\ d # f /\ t.used = s.used \cup {f}
      /\ t.entries[f] = contents
      /\ \A e \in Inodes : e # d /\ e # f => t.entries[e] = s.entries[e]
  BY DEF Enters
<1>2. PICK m \in Nat : AddsAt(s.entries[d], t.entries[d], m, Entry(name, f))
  BY <1>1 DEF Enters
<1>3. /\ m \in DOMAIN t.entries[d] /\ t.entries[d][m].name = name /\ t.entries[d][m].inode = f
      /\ m \in DOMAIN s.entries[d] => s.entries[d][m] = FreeEntry
      /\ DOMAIN s.entries[d] \subseteq DOMAIN t.entries[d]
      /\ \A l \in DOMAIN t.entries[d] : l # m =>
            l \in DOMAIN s.entries[d] /\ t.entries[d][l] = s.entries[d][l]
  BY <1>1, <1>2, EntryFields, NamesOfPaths DEF AddsAt
<1>4. FreeEntry.name \notin NAMES
  BY <1>1, EntryFields, NamesOfPaths
<1>5. \A k \in DOMAIN contents : /\ k \in {1, 2} /\ contents[k].name \notin Normals
                                 /\ k = 1 => contents[k] = Entry(FS_DIRECTORY_CURRENT_DIR_NAME, f)
                                 /\ k = 2 => contents[k] = Entry(FS_DIRECTORY_PARENT_DIR_NAME, d)
                                 /\ k = 2 => 1 \in DOMAIN contents
  <2>1. CASE contents = <<>>
    BY <2>1
  <2>2. CASE contents = FirstEntries(d, f)
    <3>1. /\ Entry(FS_DIRECTORY_CURRENT_DIR_NAME, f).name = FS_DIRECTORY_CURRENT_DIR_NAME
          /\ Entry(FS_DIRECTORY_PARENT_DIR_NAME, d).name = FS_DIRECTORY_PARENT_DIR_NAME
      BY <1>1, EntryFields, NamesOfPaths
    <3> QED BY <1>1, <2>2, <3>1, FirstEntriesTyped DEF Normals
  <2> QED BY <2>1, <2>2
<1>6. \A e \in Inodes : e # f => \A k \in DOMAIN s.entries[e] : s.entries[e][k].name \in Normals =>
          s.entries[e][k].inode # f
  BY <1>1 DEF Tree, Proper
<1>7. ASSUME NEW e \in Inodes PROVE Dots(t, e)
  <2>1. CASE e = f
    <3>1. ASSUME NEW k \in DOMAIN contents
          PROVE  /\ contents[k].name = FS_DIRECTORY_CURRENT_DIR_NAME => contents[k].inode = f
                 /\ contents[k].name = FS_DIRECTORY_PARENT_DIR_NAME =>
                      \E l \in DOMAIN contents :
                         l < k /\ contents[l].name = FS_DIRECTORY_CURRENT_DIR_NAME
      <4>1. /\ Entry(FS_DIRECTORY_CURRENT_DIR_NAME, f).name = FS_DIRECTORY_CURRENT_DIR_NAME
            /\ Entry(FS_DIRECTORY_CURRENT_DIR_NAME, f).inode = f
            /\ Entry(FS_DIRECTORY_PARENT_DIR_NAME, d).name = FS_DIRECTORY_PARENT_DIR_NAME
        BY <1>1, EntryFields, NamesOfPaths
      <4> QED BY <1>5, <4>1, NamesOfPaths
    <3> QED BY <1>1, <2>1, <3>1 DEF Dots
  <2>2. CASE e # f /\ e # d
    <3>1. t.entries[e] = s.entries[e] /\ Dots(s, e)
      BY <1>1, <2>2 DEF Tree
    <3> QED BY <3>1 DEF Dots
  <2>3. CASE e = d
    <3>1. Dots(s, d)
      BY DEF Tree
    <3>2. name # FS_DIRECTORY_CURRENT_DIR_NAME /\ name # FS_DIRECTORY_PARENT_DIR_NAME
      BY DEF Normals
    <3>3. ASSUME NEW k \in DOMAIN t.entries[d]
          PROVE  /\ t.entries[d][k].name = FS_DIRECTORY_CURRENT_DIR_NAME => t.entries[d][k].inode = d
                 /\ t.entries[d][k].name = FS_DIRECTORY_PARENT_DIR_NAME =>
                      \E l \in DOMAIN t.entries[d] :
                         l < k /\ t.entries[d][l].name = FS_DIRECTORY_CURRENT_DIR_NAME
      <4>1. CASE k = m
        BY <1>3, <3>2, <4>1
      <4>2. CASE k # m
        <5>1. k \in DOMAIN s.entries[d] /\ t.entries[d][k] = s.entries[d][k]
          BY <1>3, <4>2
        <5>2. \A l \in DOMAIN s.entries[d] : s.entries[d][l].name = FS_DIRECTORY_CURRENT_DIR_NAME =>
                 l \in DOMAIN t.entries[d] /\ t.entries[d][l] = s.entries[d][l]
          <6>1. ASSUME NEW l \in DOMAIN s.entries[d],
                       s.entries[d][l].name = FS_DIRECTORY_CURRENT_DIR_NAME
                PROVE  l \in DOMAIN t.entries[d] /\ t.entries[d][l] = s.entries[d][l]
            <7>1. l # m
              BY <1>3, <1>4, <6>1, NamesOfPaths
            <7> QED BY <1>3, <7>1
          <6> QED BY <6>1
        <5> QED BY <3>1, <5>1, <5>2 DEF Dots
      <4> QED BY <4>1, <4>2
    <3> QED BY <2>3, <3>3 DEF Dots
  <2> QED BY <2>1, <2>2, <2>3
<1>8. \A e \in Inodes : \A k \in DOMAIN t.entries[e] : t.entries[e][k].name \in Normals =>
          \/ e = d /\ k = m
          \/ e # f /\ k \in DOMAIN s.entries[e] /\ t.entries[e][k] = s.entries[e][k]
  BY <1>1, <1>3, <1>5
<1>9. ASSUME NEW e \in Inodes PROVE Proper(t, e)
  <2>1. Proper(s, e)
    BY DEF Tree
  <2>2. FS_ROOT_DIRECTORY_INODE # f
    BY <1>1 DEF Tree
  <2> QED BY <1>1, <1>3, <1>8, <2>1, <2>2 DEF Proper
<1>10. ASSUME NEW e \in Inodes, NEW g \in Inodes PROVE OneName(t, e, g)
  <2>1. OneName(s, e, g)
    BY DEF Tree
  <2> QED BY <1>1, <1>3, <1>6, <1>8, <2>1 DEF OneName
<1>11. FS_ROOT_DIRECTORY_INODE \in t.used
  BY <1>1 DEF Tree
<1>12. ASSUME NEW g \in Inodes \ {f}, NEW x, Above(s, g, x) PROVE Above(t, g, x)
  <2>1. ASSUME NEW l \in DOMAIN t.entries[g],
               t.entries[g][l].name = FS_DIRECTORY_PARENT_DIR_NAME
        PROVE  t.entries[g][l].inode = x
    <3>1. name # FS_DIRECTORY_PARENT_DIR_NAME
      BY DEF Normals
    <3>2. l \in DOMAIN s.entries[g] /\ t.entries[g][l] = s.entries[g][l]
      <4>1. CASE g = d
        BY <1>3, <2>1, <3>1, <4>1
      <4>2. CASE g # d
        BY <1>1, <2>1, <4>2
      <4> QED BY <4>1, <4>2
    <3> QED BY <1>12, <2>1, <3>2 DEF Above
  <2> QED BY <2>1 DEF Above
<1>13. Above(t, FS_ROOT_DIRECTORY_INODE, FS_ROOT_DIRECTORY_INODE)
  BY <1>1, <1>12, NamesOfPaths DEF Tree
<1>14. ASSUME NEW e \in Inodes PROVE Below(t, e)
  <2>1. Below(s, e) /\ Proper(s, e)
    BY DEF Tree
  <2>2. Above(t, f, d)
    <3>1. \A l \in DOMAIN contents : contents[l].name = FS_DIRECTORY_PARENT_DIR_NAME =>
             contents[l].inode = d
      <4>1. /\ Entry(FS_DIRECTORY_CURRENT_DIR_NAME, f).name = FS_DIRECTORY_CURRENT_DIR_NAME
            /\ Entry(FS_DIRECTORY_PARENT_DIR_NAME, d).inode = d
        BY <1>1, EntryFields, NamesOfPaths
      <4> QED BY <1>5, <4>1, NamesOfPaths
    <3> QED BY <1>1, <3>1 DEF Above
  <2>3. ASSUME NEW k \in DOMAIN t.entries[e], t.entries[e][k].name \in Normals
        PROVE  Above(t, t.entries[e][k].inode, e)
    <3>1. CASE e = d /\ k = m
      BY <1>3, <2>2, <3>1
    <3>2. CASE e # f /\ k \in DOMAIN s.entries[e] /\ t.entries[e][k] = s.entries[e][k]
      <4>1. s.entries[e][k].inode \in Inodes \ {f} /\ Above(s, s.entries[e][k].inode, e)
        BY <1>1, <2>1, <2>3, <3>2, StateFields DEF Below, Proper
      <4> QED BY <1>12, <3>2, <4>1
    <3> QED BY <1>8, <2>3, <3>1, <3>2
  <2> QED BY <2>3 DEF Below
<1> QED BY <1>7, <1>9, <1>10, <1>11, <1>13, <1>14 DEF Tree


(* Freeing an entry keeps a tidy directory tidy, and so does deleting an   *)
(* inode with its entries.                                                 *)
LEMMA FreeTidy ==
    ASSUME NEW s \in States, NEW d \in Inodes, NEW name, Tidy(s)
    PROVE  Tidy(entry_del(s, d, name))
<1> DEFINE t == entry_del(s, d, name)
<1>1. /\ t \in States /\ t.used = s.used /\ \A e \in Inodes : e # d => t.entries[e] = s.entries[e]
      /\ t = s \/ \E k \in Nat : FreesAt(s.entries[d], t.entries[d], k, name)
  BY Deleting
<1> HIDE DEF t
<1>2. CASE t = s
  BY <1>2 DEF t
<1>3. ASSUME NEW k \in Nat, FreesAt(s.entries[d], t.entries[d], k, name) PROVE Tidy(t)
  <2>1. d \in s.used
    <3>1. DOMAIN s.entries[d] # {}
      BY <1>3 DEF FreesAt
    <3> QED BY <3>1 DEF Tidy
  <2>2. OnlyOnce(t.entries[d])
    <3>1. \A l \in DOMAIN s.entries[d] : s.entries[d][l].name = FreeEntry.name =>
             s.entries[d][l] = FreeEntry
      BY RowFields DEF FreeEntry, Entry
    <3> QED BY <1>3, <3>1, FreeingOnce DEF Tidy
  <2> QED BY <1>1, <2>1, <2>2 DEF Tidy
<1> QED BY <1>1, <1>2, <1>3 DEF t

LEMMA DestroyTidy ==
    ASSUME NEW s \in States, NEW i \in Inodes, Tidy(s)
    PROVE  Tidy(destroy(s, i))
<1> DEFINE t == destroy(s, i)
<1>1. /\ t.used = s.used \ {i} /\ t.entries[i] = <<>>
      /\ \A e \in Inodes : e # i => t.entries[e] = s.entries[e]
  BY Destroying
<1> HIDE DEF t
<1>2. OnlyOnce(<<>>)
  BY DEF OnlyOnce
<1>3. Tidy(t)
  BY <1>1, <1>2 DEF Tidy
<1> QED BY <1>3 DEF t

(* The name a deletion by prefix takes from its directory is the only one  *)
(* of its inode, when that is another directory.                           *)
LEMMA FreedName ==
    ASSUME NEW s \in States, Tree(s), NEW d \in Inodes, NEW name \in Seq(STRING), NEW new,
           NEW k, FreesAt(s.entries[d], new, k, name), s.entries[d][k].inode \in Inodes \ {d}
    PROVE  s.entries[d][k].name \in Normals
<1>1. /\ k \in DOMAIN s.entries[d] /\ IsPrefix(s.entries[d][k].name, name)
      /\ \A l \in DOMAIN s.entries[d] : l < k => ~ IsPrefix(s.entries[d][l].name, name)
  BY DEF FreesAt
<1>2. s.entries[d][k].name \in NAMES
  BY <1>1, RowFields, NamesOfPaths DEF FreeEntry, Entry
<1>3. Dots(s, d)
  BY DEF Tree
<1>4. s.entries[d][k].name # FS_DIRECTORY_CURRENT_DIR_NAME
  BY <1>1, <1>3 DEF Dots
<1>5. ASSUME s.entries[d][k].name = FS_DIRECTORY_PARENT_DIR_NAME PROVE FALSE
  <2>1. PICK l \in DOMAIN s.entries[d] :
           l < k /\ s.entries[d][l].name = FS_DIRECTORY_CURRENT_DIR_NAME
    BY <1>1, <1>3, <1>5 DEF Dots
  <2>2. ~ IsPrefix(<<".">>, name)
    BY <1>1, <2>1 DEF FS_DIRECTORY_CURRENT_DIR_NAME
  <2>3. IsPrefix(<<".", ".">>, name)
    BY <1>1, <1>5 DEF FS_DIRECTORY_PARENT_DIR_NAME
  <2>4. Len(name) \in Nat /\ 2 <= Len(name) /\ SubSeq(<<".", ".">>, 1, 2) = SubSeq(name, 1, 2)
    BY <2>3 DEF IsPrefix
  <2>5. SubSeq(name, 1, 2)[1] = name[1] /\ SubSeq(<<".", ".">>, 1, 2)[1] = "."
    BY <2>4
  <2>6. SubSeq(<<".">>, 1, 1) = SubSeq(name, 1, 1)
    BY <2>4, <2>5
  <2> QED BY <2>2, <2>4, <2>6 DEF IsPrefix
<1> QED BY <1>2, <1>4, <1>5 DEF Normals

(* Taking the only name of an inode away, and the inode with its entries.  *)
LEMMA RemoveTree ==
    ASSUME NEW s \in States, NEW t \in States, Tree(s), NEW d \in Inodes, NEW name \in Seq(STRING),
           NEW k, FreesAt(s.entries[d], t.entries[d], k, name),
           NEW i \in Inodes \ {d}, s.entries[d][k].inode = i,
           t.used = s.used \ {i}, t.entries[i] = <<>>,
           \A e \in Inodes \ {d, i} : t.entries[e] = s.entries[e]
    PROVE  Tree(t)
<1>1. s.entries[d][k].name \in Normals
  BY FreedName
<1>2. /\ k \in DOMAIN s.entries[d] /\ DOMAIN t.entries[d] = DOMAIN s.entries[d]
      /\ t.entries[d][k] = FreeEntry
      /\ \A l \in DOMAIN s.entries[d] : l # k => t.entries[d][l] = s.entries[d][l]
  BY DEF FreesAt
<1>3. FreeEntry.name = EmptySegment /\ EmptySegment \notin NAMES
  BY NamesOfPaths DEF FreeEntry, Entry
<1>4. i # FS_ROOT_DIRECTORY_INODE
  BY <1>1, <1>2 DEF Tree, Proper
<1>5. \A e \in Inodes : \A l \in DOMAIN t.entries[e] : t.entries[e][l].name \in NAMES =>
          /\ e # i /\ l \in DOMAIN s.entries[e] /\ t.entries[e][l] = s.entries[e][l]
          /\ ~ (e = d /\ l = k)
  BY <1>2, <1>3
<1>6. \A e \in Inodes \ {i} : \A l \in DOMAIN s.entries[e] : ~ (e = d /\ l = k) =>
          l \in DOMAIN t.entries[e] /\ t.entries[e][l] = s.entries[e][l]
  BY <1>2
<1>7. ASSUME NEW e \in Inodes PROVE Dots(t, e)
  <2>1. Dots(s, e)
    BY DEF Tree
  <2>2. ASSUME NEW l \in DOMAIN t.entries[e],
               t.entries[e][l].name = FS_DIRECTORY_PARENT_DIR_NAME
        PROVE  \E m \in DOMAIN t.entries[e] :
                  m < l /\ t.entries[e][m].name = FS_DIRECTORY_CURRENT_DIR_NAME
    <3>1. e # i /\ l \in DOMAIN s.entries[e] /\ t.entries[e][l] = s.entries[e][l]
      BY <1>5, <2>2, NamesOfPaths
    <3>2. PICK m \in DOMAIN s.entries[e] :
             m < l /\ s.entries[e][m].name = FS_DIRECTORY_CURRENT_DIR_NAME
      BY <2>1, <2>2, <3>1 DEF Dots
    <3>3. ~ (e = d /\ m = k)
      BY <1>1, <3>2 DEF Normals
    <3> QED BY <1>6, <3>1, <3>2, <3>3
  <2>3. ASSUME NEW l \in DOMAIN t.entries[e],
               t.entries[e][l].name = FS_DIRECTORY_CURRENT_DIR_NAME
        PROVE  t.entries[e][l].inode = e
    BY <1>5, <2>1, <2>3, NamesOfPaths DEF Dots
  <2> QED BY <2>2, <2>3 DEF Dots
<1>8. ASSUME NEW e \in Inodes PROVE Proper(t, e)
  <2>1. ASSUME NEW l \in DOMAIN t.entries[e], t.entries[e][l].name \in Normals
        PROVE  t.entries[e][l].inode \in t.used \ {e, FS_ROOT_DIRECTORY_INODE}
    <3>1. /\ l \in DOMAIN s.entries[e] /\ t.entries[e][l] = s.entries[e][l]
          /\ ~ (e = d /\ l = k)
      BY <1>5, <2>1, NamesOfPaths
    <3>2. Proper(s, e) /\ OneName(s, e, d)
      BY DEF Tree
    <3>3. s.entries[e][l].inode # i
      BY <1>1, <1>2, <2>1, <3>1, <3>2 DEF OneName
    <3> QED BY <2>1, <3>1, <3>2, <3>3 DEF Proper
  <2> QED BY <2>1 DEF Proper
<1>9. ASSUME NEW e \in Inodes, NEW g \in Inodes PROVE OneName(t, e, g)
  <2>1. OneName(s, e, g)
    BY DEF Tree
  <2>2. ASSUME NEW a \in DOMAIN t.entries[e], t.entries[e][a].name \in Normals,
               NEW b \in DOMAIN t.entries[g], t.entries[g][b].name \in Normals,
               t.entries[e][a].inode = t.entries[g][b].inode
        PROVE  e = g /\ a = b
    <3>1. a \in DOMAIN s.entries[e] /\ t.entries[e][a] = s.entries[e][a]
      BY <1>5, <2>2, NamesOfPaths
    <3>2. b \in DOMAIN s.entries[g] /\ t.entries[g][b] = s.entries[g][b]
      BY <1>5, <2>2, NamesOfPaths
    <3> QED BY <2>1, <2>2, <3>1, <3>2 DEF OneName
  <2> QED BY <2>2 DEF OneName
<1>10. FS_ROOT_DIRECTORY_INODE \in t.used
  BY <1>4 DEF Tree
<1>11. ASSUME NEW g \in Inodes, NEW x, Above(s, g, x) PROVE Above(t, g, x)
  BY <1>5, <1>11, NamesOfPaths DEF Above
<1>12. Above(t, FS_ROOT_DIRECTORY_INODE, FS_ROOT_DIRECTORY_INODE)
  BY <1>11, NamesOfPaths DEF Tree
<1>13. ASSUME NEW e \in Inodes PROVE Below(t, e)
  <2>1. ASSUME NEW l \in DOMAIN t.entries[e], t.entries[e][l].name \in Normals
        PROVE  Above(t, t.entries[e][l].inode, e)
    <3>1. l \in DOMAIN s.entries[e] /\ t.entries[e][l] = s.entries[e][l]
      BY <1>5, <2>1, NamesOfPaths
    <3>2. Above(s, s.entries[e][l].inode, e) /\ s.entries[e][l].inode \in Inodes
      BY <2>1, <3>1, StateFields DEF Tree, Below, Proper
    <3> QED BY <1>11, <3>1, <3>2
  <2> QED BY <2>1 DEF Below
<1> QED BY <1>7, <1>8, <1>9, <1>10, <1>12, <1>13 DEF Tree

(* The entry that is taken is the one that was freed.                      *)
LEMMA TakenIsFreed ==
    ASSUME NEW s \in States, NEW d \in Inodes, NEW name, NEW i \in Inodes,
           TakesEntryOf(s, d, name, i)
    PROVE  \E k \in Nat : /\ FreesAt(s.entries[d], entry_del(s, d, name).entries[d], k, name)
                          /\ s.entries[d][k].inode = i
<1> DEFINE t == entry_del(s, d, name)
<1>1. PICK k \in DOMAIN s.entries[d] : s.entries[d][k].inode = i /\ t.entries[d][k] = FreeEntry
  BY DEF TakesEntryOf
<1>2. t = s \/ \E m \in Nat : FreesAt(s.entries[d], t.entries[d], m, name)
  BY Deleting
<1> HIDE DEF t
<1>3. FreeEntry.inode # i
  BY NamesOfPaths DEF FreeEntry, Entry
<1>4. PICK m \in Nat : FreesAt(s.entries[d], t.entries[d], m, name)
  BY <1>1, <1>2, <1>3
<1>5. m = k
  BY <1>1, <1>3, <1>4 DEF FreesAt
<1> QED BY <1>1, <1>4, <1>5 DEF t

LEMMA NameTyped ==
    ASSUME NEW path \in AllPaths
    PROVE  to_name(path) \in Seq(STRING)
<1> DEFINE Segs == NAMES \cup {EmptySegment}
           p == Searched(path)
<1>1. path \in Seq(Segs) /\ Len(path) \in Nat \ {0}
  BY EmptySeq DEF AllPaths
<1>2. p \in Seq(Segs) /\ Len(p) \in Nat \ {0}
  <2>1. CASE ~ (Len(path) > 1 /\ Last(path) = EmptySegment)
    BY <1>1, <2>1 DEF Searched
  <2>2. CASE Len(path) > 1 /\ Last(path) = EmptySegment
    <3>1. p = SubSeq(path, 1, Len(path) - 1)
      BY <2>2 DEF Searched, Front
    <3>2. \A i \in 1 .. Len(path) - 1 : path[i] \in Segs
      BY <1>1, ElementOfSeq
    <3>3. /\ SubSeq(path, 1, Len(path) - 1) \in Seq(Segs)
          /\ Len(SubSeq(path, 1, Len(path) - 1))
               = IF 1 <= Len(path) - 1 THEN (Len(path) - 1) - 1 + 1 ELSE 0
      <4>1. 1 \in Int /\ Len(path) - 1 \in Int
        BY <1>1
      <4> HIDE DEF Segs
      <4> QED BY <3>2, <4>1, SubSeqProperties
    <3> QED BY <1>1, <2>2, <3>1, <3>3
  <2> QED BY <2>1, <2>2
<1>3. Last(p) \in Seq(STRING) /\ p[1] \in Seq(STRING)
  <2>1. Last(p) \in Segs /\ p[1] \in Segs
    BY <1>2, ElementOfSeq DEF Last
  <2>2. EmptySegment \in Seq(STRING)
    BY DEF EmptySegment
  <2>3. Segs \subseteq Seq(STRING)
    BY <2>2, NamesOfPaths
  <2> QED BY <2>1, <2>3
<1>4. FS_PATH_DELIMITER \in Seq(STRING) /\ <<>> \in Seq(STRING)
  BY NamesOfPaths
<1>5. p[1] \o FS_PATH_DELIMITER \in Seq(STRING) /\ p[1] \o <<>> \in Seq(STRING)
  BY <1>3, <1>4, ConcatProperties
<1> HIDE DEF p
<1> QED BY <1>3, <1>5 DEF to_name, p

-----------------------------------------------------------------------------
(* What making directories does to the entries: nothing, or a new inode in *)
(* the parent directory, when it has no such name.                         *)
Same(s, t) == t.entries = s.entries /\ t.used = s.used

LEMMA CreatingDirectory ==
    ASSUME NEW s \in States, NEW path \in AllPaths, to_name(path) \in Normals, NEW from \in Inodes
    PROVE  LET t == directory_create(s, path, from)
               d == path_to_parent_inode(s, path, from).inode
               name == to_name(path)
           IN  /\ t \in States
               /\ t.sound => s.sound
               /\ \/ /\ Same(s, t)
                     /\ t.ok /\ ~ t.null => d \in Inodes /\ entry_find(s, d, name) # FS_INODE_FAILURE
                  \/ /\ d \in Inodes /\ entry_find(s, d, name) = FS_INODE_FAILURE
                     /\ t.sound => d \in s.used
                     /\ \E f \in Inodes : Enters(s, t, d, name, FirstEntries(d, f), f)
<1> DEFINE t == directory_create(s, path, from)
           parent == path_to_parent_inode(s, path, from)
           d == parent.inode
           name == to_name(path)
           a == get(s, parent.got)
           b == get(s, parent.got \cup {d})
<1>1. d \in Numbers
  BY ParentTyped
<1>2. /\ a \in States /\ a.entries = s.entries /\ a.used = s.used
      /\ a.sound => s.sound
      /\ b \in States /\ b.entries = s.entries /\ b.used = s.used
      /\ b.sound => s.sound /\ d \in s.used
  BY Looking
<1>3. t = IF d = FS_INODE_FAILURE THEN [a EXCEPT !.ok = FALSE]
          ELSE IF entry_find(s, d, name) # FS_INODE_FAILURE THEN b
          ELSE IF s.used = Inodes THEN [b EXCEPT !.null = TRUE]
          ELSE enter(b, d, name, FirstEntries(d, Fresh(b)))
  BY DEF directory_create, FirstEntries
<1> HIDE DEF t, a, b, d, name
<1>4. CASE d = FS_INODE_FAILURE
  <2>1. t = [a EXCEPT !.ok = FALSE]
    BY <1>3, <1>4
  <2>2. t \in States /\ t.entries = a.entries /\ t.used = a.used /\ t.sound = a.sound /\ ~ t.ok
    BY <1>2, <2>1 DEF States
  <2> QED BY <1>2, <2>2 DEF Same, t, d, name
<1>5. CASE d \in Inodes /\ entry_find(s, d, name) # FS_INODE_FAILURE
  <2>1. t = b
    BY <1>3, <1>5, NamesOfPaths
  <2> QED BY <1>2, <1>5, <2>1 DEF Same, t, d, name
<1>6. CASE d \in Inodes /\ entry_find(s, d, name) = FS_INODE_FAILURE /\ s.used = Inodes
  <2>1. t = [b EXCEPT !.null = TRUE]
    BY <1>3, <1>6, NamesOfPaths
  <2>2. t \in States /\ t.entries = b.entries /\ t.used = b.used /\ t.sound = b.sound /\ t.null
    BY <1>2, <2>1 DEF States
  <2> QED BY <1>2, <2>2 DEF Same, t, d, name
<1>7. CASE d \in Inodes /\ entry_find(s, d, name) = FS_INODE_FAILURE /\ s.used # Inodes
  <2> DEFINE f == Fresh(b)
  <2>1. t = enter(b, d, name, FirstEntries(d, f))
    BY <1>3, <1>7, NamesOfPaths
  <2>2. f \in Inodes
    BY <1>2, <1>7, FreshIsFree
  <2>3. FirstEntries(d, f) \in Rows /\ name \in NAMES
    BY <1>7, <2>2, FirstEntriesTyped, NamesOfPaths DEF name
  <2>4. t \in States /\ t.sound = b.sound /\ Enters(b, t, d, name, FirstEntries(d, f), f)
    BY <1>2, <1>7, <2>1, <2>3, Creating
  <2> HIDE DEF f
  <2>5. Enters(s, t, d, name, FirstEntries(d, f), f)
    BY <1>2, <2>4 DEF Enters
  <2> QED BY <1>2, <1>7, <2>2, <2>4, <2>5 DEF t, d, name
<1> QED BY <1>1, <1>4, <1>5, <1>6, <1>7 DEF Numbers

(* In a directory without a name twice, a look-up finds the entry with the *)
(* name.                                                                   *)
LEMMA FindingOnce ==
    ASSUME NEW s \in States, NEW d \in Inodes, OnlyOnce(s.entries[d]), NEW name \in NAMES,
           NEW k \in DOMAIN s.entries[d], s.entries[d][k].name = name
    PROVE  entry_find(s, d, name) = s.entries[d][k].inode /\ s.entries[d][k].inode \in Inodes
<1>1. s.entries[d][k].inode \in Inodes /\ name # EmptySegment
  BY RowFields, NamesOfPaths
<1>2. entry_find(s, d, name) # FS_INODE_FAILURE
  BY <1>1, Finding
<1>3. PICK l \in DOMAIN s.entries[d] :
         s.entries[d][l].name = name /\ s.entries[d][l].inode = entry_find(s, d, name)
  BY <1>2, Finding
<1>4. s.entries[d][k] # FreeEntry
  BY <1>1 DEF FreeEntry, Entry
<1>5. l = k
  BY <1>3, <1>4 DEF OnlyOnce
<1> QED BY <1>1, <1>3, <1>5

(* What is found in s is found in t, the same.                             *)
Keeps(s, t) ==
    \A e \in Inodes : \A name \in NAMES :
        entry_find(s, e, name) # FS_INODE_FAILURE => entry_find(t, e, name) = entry_find(s, e, name)

LEMMA EnterKeeps ==
    ASSUME NEW s \in States, NEW t \in States, NEW d \in Inodes, NEW name \in NAMES,
           NEW contents, NEW f, Enters(s, t, d, name, contents, f), d \in s.used,
           Tidy(s), Tidy(t)
    PROVE  Keeps(s, t) /\ entry_find(t, d, name) = f
<1>1. /\ f \in Inodes /\ f \notin s.used /\ d # f
      /\ \A e \in Inodes : e # d /\ e # f => t.entries[e] = s.entries[e]
  BY DEF Enters
<1>2. PICK m \in Nat : AddsAt(s.entries[d], t.entries[d], m, Entry(name, f))
  BY <1>1 DEF Enters
<1>3. /\ m \in DOMAIN t.entries[d] /\ t.entries[d][m] = Entry(name, f)
      /\ m \in DOMAIN s.entries[d] => s.entries[d][m] = FreeEntry
      /\ DOMAIN s.entries[d] \subseteq DOMAIN t.entries[d]
      /\ \A l \in DOMAIN t.entries[d] : l # m => t.entries[d][l] = s.entries[d][l]
  BY <1>2 DEF AddsAt
<1>4. Entry(name, f).name = name /\ Entry(name, f).inode = f /\ FreeEntry.name \notin NAMES
  BY <1>1, EntryFields
<1>5. entry_find(t, d, name) = f
  <2>1. OnlyOnce(t.entries[d])
    BY DEF Tidy
  <2>2. entry_find(t, d, name) = t.entries[d][m].inode
    BY <1>3, <1>4, <2>1, FindingOnce
  <2> QED BY <1>3, <1>4, <2>2
<1>6. ASSUME NEW e \in Inodes, NEW n \in NAMES, entry_find(s, e, n) # FS_INODE_FAILURE
      PROVE  entry_find(t, e, n) = entry_find(s, e, n)
  <2>1. PICK k \in DOMAIN s.entries[e] :
           s.entries[e][k].name = n /\ s.entries[e][k].inode = entry_find(s, e, n)
    BY <1>6, Finding
  <2>2. e # f
    <3>1. ASSUME e = f PROVE FALSE
      <4>1. s.entries[e] = <<>>
        BY <1>1, <3>1 DEF Tidy
      <4> QED BY <2>1, <4>1
    <3> QED BY <3>1
  <2>3. k \in DOMAIN t.entries[e] /\ t.entries[e][k] = s.entries[e][k]
    <3>1. CASE e = d
      BY <1>3, <1>4, <2>1, <3>1
    <3>2. CASE e # d
      BY <1>1, <2>1, <2>2, <3>2
    <3> QED BY <3>1, <3>2
  <2>4. OnlyOnce(t.entries[e])
    BY DEF Tidy
  <2>5. entry_find(t, e, n) = t.entries[e][k].inode
    BY <2>1, <2>3, <2>4, FindingOnce
  <2> QED BY <2>1, <2>3, <2>5
<1> QED BY <1>5, <1>6 DEF Keeps

LEMMA StepsKept ==
    ASSUME NEW s, NEW t, Keeps(s, t), NEW n \in Nat, NEW row, NEW a, NEW b, a[0] = b[0],
           Walks(s, n, row, a), Walks(t, n, row, b),
           \A k \in 0 .. n : a[k] \in Numbers, \A k \in 1 .. n : row[k] \in NAMES
    PROVE  a[n] = FS_INODE_FAILURE \/ a[n] = b[n]
<1> DEFINE T == {k \in 0 .. n : a[k] = FS_INODE_FAILURE \/ a[k] = b[k]}
<1>1. 0 \in T
  OBVIOUS
<1>2. ASSUME NEW k \in 0 .. n - 1, k \in T PROVE k + 1 \in T
  <2>1. k + 1 \in 0 .. n /\ k + 1 \in 1 .. n /\ k \in 0 .. n
    OBVIOUS
  <2>2. a[k + 1] = Onward(s, a[k], row[k + 1]) /\ b[k + 1] = Onward(t, b[k], row[k + 1])
    BY DEF Walks
  <2>3. a[k] \in Numbers /\ row[k + 1] \in NAMES
    BY <2>1
  <2>4. a[k] = FS_INODE_FAILURE \/ a[k] = b[k]
    BY <1>2
  <2>5. a[k + 1] = FS_INODE_FAILURE \/ a[k + 1] = b[k + 1]
    <3>1. CASE a[k] = FS_INODE_FAILURE
      BY <2>2, <3>1 DEF Onward
    <3>2. CASE a[k] \in Inodes /\ a[k] = b[k]
      <4>1. /\ a[k + 1] = entry_find(s, a[k], row[k + 1])
            /\ b[k + 1] = entry_find(t, a[k], row[k + 1])
        BY <2>2, <3>2, NamesOfPaths DEF Onward
      <4> QED BY <2>3, <3>2, <4>1 DEF Keeps
    <3> QED BY <2>3, <2>4, <3>1, <3>2 DEF Numbers
  <2> QED BY <2>1, <2>5
<1>3. \A k \in 0 .. n : k \in T
  <2> HIDE DEF T
  <2> QED BY <1>1, <1>2, UpTo
<1> QED BY <1>3

LEMMA WalkKept ==
    ASSUME NEW s \in States, NEW t \in States, Keeps(s, t), NEW names \in Seq(Normals),
           NEW from \in Inodes, path_to_inode(s, absolute(names), from).inode # FS_INODE_FAILURE
    PROVE  path_to_inode(t, absolute(names), from).inode
             = path_to_inode(s, absolute(names), from).inode
<1> DEFINE n == Len(names)
           path == absolute(names)
<1>1. n \in Nat /\ \A k \in 1 .. n : names[k] \in NAMES
  BY ElementOfSeq, LenProperties, NamesOfPaths
<1>2. path \in AllPaths /\ Length(path) = n /\ (n # 0 => Segments(path) = names)
  BY LengthOfNames, AbsolutePaths
<1>3. PICK a \in [0 .. n -> Numbers] :
         /\ a[0] = Start(path, from)
         /\ \A k \in 0 .. n - 1 : a[k + 1] = Onward(s, a[k], Segments(path)[k + 1])
         /\ path_to_inode(s, path, from).inode = a[n]
  BY <1>2, WalkSteps
<1>4. PICK b \in [0 .. n -> Numbers] :
         /\ b[0] = Start(path, from)
         /\ \A k \in 0 .. n - 1 : b[k + 1] = Onward(t, b[k], Segments(path)[k + 1])
         /\ path_to_inode(t, path, from).inode = b[n]
  BY <1>2, WalkSteps
<1> HIDE DEF n, path
<1>5. Walks(s, n, Segments(path), a) /\ Walks(t, n, Segments(path), b) /\ a[0] = b[0]
  BY <1>3, <1>4 DEF Walks
<1>6. \A k \in 1 .. n : Segments(path)[k] \in NAMES
  BY <1>1, <1>2
<1>7. \A k \in 0 .. n : a[k] \in Numbers
  BY <1>3
<1>8. a[n] = FS_INODE_FAILURE \/ a[n] = b[n]
  BY <1>1, <1>5, <1>6, <1>7, StepsKept
<1> QED BY <1>3, <1>4, <1>8 DEF path

(* One directory d that was in use has one name more.  The others that     *)
(* were in use are as they were.                                           *)
Grown(s, t) ==
    \E d \in s.used : \E name \in NAMES : \E f \in Inodes :
        /\ \A k \in DOMAIN s.entries[d] : s.entries[d][k].name # name
        /\ \E k \in Nat : AddsAt(s.entries[d], t.entries[d], k, Entry(name, f))
        /\ \A e \in s.used \ {d} : t.entries[e] = s.entries[e]
        /\ s.used \subseteq t.used

Made(s, t) ==
    /\ t \in States
    /\ t.sound => /\ s.sound /\ Tidy(t)
                  /\ Tree(s) => Tree(t)
                  /\ Same(s, t) \/ Grown(s, t)

(* What was made on the way to path ends in a new directory, in which      *)
(* nothing was made yet.                                                   *)
LeadsTo(s, t, path, from) ==
    t.sound /\ ~ Same(s, t) /\ t.ok /\ ~ t.null =>
        LET e == path_to_inode(t, path, from).inode
        IN  /\ e \in Inodes \ s.used
            /\ \A m \in DOMAIN t.entries[e] : t.entries[e][m].name \notin Normals

LEMMA SameIsMade ==
    ASSUME NEW s \in States, NEW t \in States, Same(s, t), t.sound => s.sound, s.sound => Tidy(s)
    PROVE  Made(s, t)
<1>1. s.entries = t.entries /\ s.used = t.used
  BY DEF Same
<1>2. Tidy(s) => Tidy(t)
  BY <1>1 DEF Tidy
<1>3. Tree(s) => Tree(t)
  BY <1>1 DEF Tree, Dots, Proper, OneName, Above, Below
<1> QED BY <1>2, <1>3 DEF Made

LEMMA SameAgain ==
    ASSUME NEW s \in States, NEW t \in States, NEW r \in States, Made(s, t), Same(t, r),
           r.sound => t.sound
    PROVE  Made(s, r)
<1>1. r.entries = t.entries /\ r.used = t.used
  BY DEF Same
<1>2. (Tidy(t) => Tidy(r)) /\ (Tree(t) => Tree(r))
  BY <1>1 DEF Tidy, Tree, Dots, Proper, OneName, Above, Below
<1>3. (Same(s, t) => Same(s, r)) /\ (Grown(s, t) => Grown(s, r))
  BY <1>1 DEF Same, Grown
<1> QED BY <1>2, <1>3 DEF Made

(* A name that is entered.                                                 *)
LEMMA EnterIsMade ==
    ASSUME NEW s \in States, NEW t \in States, NEW d \in s.used, NEW name \in Normals,
           NEW contents, NEW f, Enters(s, t, d, name, contents, f), s.sound, Tidy(s),
           contents \in {<<>>, FirstEntries(d, f)}, entry_find(s, d, name) = FS_INODE_FAILURE
    PROVE  Made(s, t) /\ Grown(s, t) /\ Tidy(t)
<1>1. /\ d \in Inodes /\ f \in Inodes /\ f \notin s.used /\ d # f /\ t.used = s.used \cup {f}
      /\ \A e \in Inodes \ {d, f} : t.entries[e] = s.entries[e]
      /\ \E k \in Nat : AddsAt(s.entries[d], t.entries[d], k, Entry(name, f))
      /\ s.used \subseteq Inodes /\ name \in NAMES /\ name # EmptySegment
  BY StateFields, NamesOfPaths DEF Enters
<1>2. \A k \in DOMAIN s.entries[d] : s.entries[d][k].name # name
  BY <1>1, Finding
<1>3. OnlyOnce(contents)
  <2>1. OnlyOnce(<<>>)
    BY DEF OnlyOnce
  <2> QED BY <1>1, <2>1, FirstEntriesTyped
<1>4. Tidy(t)
  BY <1>1, <1>2, <1>3, EnterTidy
<1>5. Tree(s) => Tree(t)
  BY <1>1, EnterTree
<1>6. Grown(s, t)
  BY <1>1, <1>2 DEF Grown
<1> QED BY <1>4, <1>5, <1>6 DEF Made

LEMMA MakeStep ==
    ASSUME NEW s \in States, s.sound => Tidy(s), NEW t \in States, t.ok, ~ t.null,
           NEW names \in Seq(Normals), names # <<>>, NEW from \in Inodes, Made(s, t),
           LeadsTo(s, t, absolute(SubSeq(names, 1, Len(names) - 1)), from)
    PROVE  LET r == directory_create(t, absolute(names), from)
           IN  Made(s, r) /\ LeadsTo(s, r, absolute(names), from)
<1> DEFINE path == absolute(names)
           front == SubSeq(names, 1, Len(names) - 1)
           r == directory_create(t, path, from)
           d == path_to_parent_inode(t, path, from).inode
           name == names[Len(names)]
<1>1. /\ path \in AllPaths /\ to_name(path) = name /\ name \in Normals /\ name \in NAMES
      /\ d = path_to_inode(t, absolute(front), from).inode
  <2>1. name \in Normals
    <3>1. Len(names) \in Nat \ {0}
      BY EmptySeq
    <3> QED BY <3>1, ElementOfSeq
  <2> QED BY <2>1, AbsolutePaths, NamesOfPaths DEF path_to_parent_inode
<1>2. front \in Seq(Normals)
  <2>1. Len(names) \in Nat /\ \A k \in 1 .. Len(names) - 1 : names[k] \in Normals
    BY ElementOfSeq, LenProperties
  <2>2. 1 \in Int /\ Len(names) - 1 \in Int
    BY <2>1
  <2> QED BY <2>1, <2>2, SubSeqProperties
<1>3. /\ r \in States
      /\ r.sound => t.sound
      /\ \/ /\ Same(t, r)
            /\ r.ok /\ ~ r.null => d \in Inodes /\ entry_find(t, d, name) # FS_INODE_FAILURE
         \/ /\ d \in Inodes /\ entry_find(t, d, name) = FS_INODE_FAILURE
            /\ r.sound => d \in t.used
            /\ \E f \in Inodes : Enters(t, r, d, name, FirstEntries(d, f), f)
  BY <1>1, CreatingDirectory
<1>4. path_to_inode(r, path, from).inode
        = Onward(r, path_to_inode(r, absolute(front), from).inode, name)
  BY <1>3, LastStep
<1> HIDE DEF r, d, name, path
<1>5. CASE /\ Same(t, r)
           /\ r.ok /\ ~ r.null => d \in Inodes /\ entry_find(t, d, name) # FS_INODE_FAILURE
  <2>1. Made(s, r)
    BY <1>3, <1>5, SameAgain
  <2>2. ASSUME r.sound, ~ Same(s, r), r.ok, ~ r.null PROVE FALSE
    <3>1. d \in Inodes /\ entry_find(t, d, name) # FS_INODE_FAILURE /\ t.sound
      BY <1>3, <1>5, <2>2
    <3>2. ~ Same(s, t)
      BY <1>5, <2>2 DEF Same
    <3>3. \A m \in DOMAIN t.entries[d] : t.entries[d][m].name \notin Normals
      BY <1>1, <3>1, <3>2 DEF LeadsTo
    <3> QED BY <1>1, <3>1, <3>3, Finding
  <2>3. LeadsTo(s, r, path, from)
    BY <2>2 DEF LeadsTo
  <2> QED BY <2>1, <2>3 DEF r, path
<1>6. ASSUME NEW f \in Inodes, d \in Inodes, entry_find(t, d, name) = FS_INODE_FAILURE,
             r.sound => d \in t.used, Enters(t, r, d, name, FirstEntries(d, f), f)
      PROVE  Made(s, r) /\ LeadsTo(s, r, path, from)
  <2>1. CASE ~ r.sound
    BY <1>3, <2>1 DEF Made, LeadsTo
  <2>2. CASE r.sound
    <3>1. t.sound /\ s.sound /\ d \in t.used /\ Tidy(t) /\ Tidy(s)
      BY <1>3, <1>6, <2>2 DEF Made
    <3>2. Made(t, r) /\ Grown(t, r) /\ Tidy(r)
      BY <1>1, <1>3, <1>6, <3>1, EnterIsMade
    <3>3. /\ f \notin t.used /\ d # f /\ r.used = t.used \cup {f}
          /\ r.entries[f] = FirstEntries(d, f)
          /\ \A e \in Inodes \ {d, f} : r.entries[e] = t.entries[e]
      BY <1>6, <3>1 DEF Enters
    <3>4. Keeps(t, r) /\ entry_find(r, d, name) = f
      BY <1>1, <1>3, <1>6, <3>1, <3>2, EnterKeeps
    <3>5. path_to_inode(r, path, from).inode = f
      <4>1. path_to_inode(r, absolute(front), from).inode = d
        <5> HIDE DEF front
        <5>1. path_to_inode(t, absolute(front), from).inode # FS_INODE_FAILURE
          BY <1>1, <1>6, NamesOfPaths
        <5>2. path_to_inode(r, absolute(front), from).inode
                = path_to_inode(t, absolute(front), from).inode
          BY <1>2, <1>3, <3>4, <5>1, WalkKept
        <5> QED BY <1>1, <5>2
      <4> QED BY <1>4, <1>6, <3>4, <4>1, NamesOfPaths DEF Onward
    <3>6. s.used \subseteq t.used /\ s.used \subseteq Inodes
      BY <3>1, StateFields DEF Made, Same, Grown
    <3>7. LeadsTo(s, r, path, from)
      <4>1. \A m \in DOMAIN FirstEntries(d, f) : FirstEntries(d, f)[m].name \notin Normals
        <5>1. /\ Entry(FS_DIRECTORY_CURRENT_DIR_NAME, f).name = FS_DIRECTORY_CURRENT_DIR_NAME
              /\ Entry(FS_DIRECTORY_PARENT_DIR_NAME, d).name = FS_DIRECTORY_PARENT_DIR_NAME
          BY <1>6, EntryFields, NamesOfPaths
        <5> QED BY <1>6, <5>1, FirstEntriesTyped DEF Normals
      <4> QED BY <3>3, <3>5, <3>6, <4>1 DEF LeadsTo
    <3>8. Grown(s, r)
      <4>1. CASE Same(s, t)
        BY <3>2, <4>1 DEF Same, Grown
      <4>2. CASE ~ Same(s, t)
        <5>1. d \notin s.used
          BY <1>1, <3>1, <4>2 DEF LeadsTo
        <5>2. \A e \in s.used : r.entries[e] = t.entries[e]
          BY <3>3, <3>6, <5>1
        <5>3. Grown(s, t)
          BY <3>1, <4>2 DEF Made
        <5>4. s.used \subseteq r.used
          BY <3>3, <3>6
        <5> QED BY <5>2, <5>3, <5>4 DEF Grown
      <4> QED BY <4>1, <4>2
    <3>9. Made(s, r)
      BY <3>1, <3>2, <3>8 DEF Made
    <3> QED BY <3>7, <3>9
  <2> QED BY <2>1, <2>2
<1>7. Made(s, r) /\ LeadsTo(s, r, path, from)
  BY <1>3, <1>5, <1>6 DEF r, path
<1> QED BY <1>7 DEF r, path

(* The loop over the directories on an absolute path.                      *)
MadeFrom(s, names, from) ==
    LET made[k \in 0 .. Len(names)] ==
            IF k = 0 THEN s
            ELSE IF ~ made[k - 1].ok \/ made[k - 1].null THEN made[k - 1]
            ELSE directory_create(made[k - 1], absolute(SubSeq(names, 1, k)), from)
    IN  made[Len(names)]

LEMMA MakingAll ==
    ASSUME NEW s \in States, s.sound => Tidy(s), NEW names \in Seq(Normals), NEW from \in Inodes
    PROVE  Made(s, MadeFrom(s, names, from))
<1> DEFINE n == Len(names)
           path(k) == absolute(SubSeq(names, 1, k))
           Good(t) == t = [k \in 0 .. n |->
                             IF k = 0 THEN s
                             ELSE IF ~ t[k - 1].ok \/ t[k - 1].null THEN t[k - 1]
                             ELSE directory_create(t[k - 1], path(k), from)]
           F == [k \in Nat |->
                   [x \in States |->
                      IF k + 1 \in 1 .. n /\ x.ok /\ ~ x.null
                      THEN directory_create(x, path(k + 1), from) ELSE x]]
           c == CHOOSE t : Good(t)
<1>1. n \in Nat /\ \A k \in 1 .. n : names[k] \in Normals
  BY ElementOfSeq, LenProperties
<1>2. MadeFrom(s, names, from) = c[n]
  BY DEF MadeFrom
<1>3. ASSUME NEW k \in 1 .. n
      PROVE  LET front == SubSeq(names, 1, k)
             IN  /\ front \in Seq(Normals) /\ front # <<>> /\ Len(front) = k
                 /\ SubSeq(front, 1, Len(front) - 1) = SubSeq(names, 1, k - 1)
                 /\ absolute(front) \in AllPaths /\ to_name(absolute(front)) \in Normals
  <2> DEFINE front == SubSeq(names, 1, k)
             back == SubSeq(front, 1, k - 1)
             other == SubSeq(names, 1, k - 1)
  <2>1. /\ front \in Seq(Normals) /\ Len(front) = k
        /\ \A i \in 1 .. k : front[i] = names[i] /\ front[i] \in Normals
    <3>1. \A i \in 1 .. k : names[i] \in Normals
      BY <1>1
    <3>2. 1 \in Int /\ k \in Int /\ 1 <= k
      BY <1>1
    <3>3. /\ front \in Seq(Normals) /\ Len(front) = IF 1 <= k THEN k - 1 + 1 ELSE 0
          /\ \A i \in 1 .. k - 1 + 1 : front[i] = names[1 + i - 1]
      BY <3>1, <3>2, SubSeqProperties
    <3> HIDE DEF front
    <3> QED BY <3>1, <3>2, <3>3
  <2> HIDE DEF front
  <2>2. /\ back \in Seq(Normals) /\ Len(back) = k - 1
        /\ \A i \in 1 .. k - 1 : back[i] = names[i]
    <3>1. \A i \in 1 .. k - 1 : front[i] \in Normals /\ front[i] = names[i]
      BY <1>1, <2>1
    <3>2. 1 \in Int /\ k - 1 \in Int
      BY <1>1
    <3>3. /\ back \in Seq(Normals) /\ Len(back) = IF 1 <= k - 1 THEN (k - 1) - 1 + 1 ELSE 0
          /\ \A i \in 1 .. (k - 1) - 1 + 1 : back[i] = front[1 + i - 1]
      BY <2>1, <3>1, <3>2, SubSeqProperties
    <3> HIDE DEF back
    <3> QED BY <1>1, <3>1, <3>3
  <2>3. /\ other \in Seq(Normals) /\ Len(other) = k - 1
        /\ \A i \in 1 .. k - 1 : other[i] = names[i]
    <3>1. \A i \in 1 .. k - 1 : names[i] \in Normals
      BY <1>1
    <3>2. 1 \in Int /\ k - 1 \in Int
      BY <1>1
    <3>3. /\ other \in Seq(Normals) /\ Len(other) = IF 1 <= k - 1 THEN (k - 1) - 1 + 1 ELSE 0
          /\ \A i \in 1 .. (k - 1) - 1 + 1 : other[i] = names[1 + i - 1]
      BY <3>1, <3>2, SubSeqProperties
    <3> HIDE DEF other
    <3> QED BY <1>1, <3>1, <3>3
  <2> HIDE DEF back, other
  <2>4. back = other
    BY <2>2, <2>3, SeqEqual
  <2>5. front # <<>>
    BY <1>1, <2>1, EmptySeq
  <2>6. absolute(front) \in AllPaths /\ to_name(absolute(front)) \in Normals
    <3>1. to_name(absolute(front)) = front[k]
      BY <2>1, <2>5, AbsolutePaths
    <3> QED BY <1>1, <2>1, <3>1, AbsolutePaths
  <2> QED BY <2>1, <2>4, <2>5, <2>6 DEF front, back, other
<1> HIDE DEF c, n, path
<1>4. \A k \in 1 .. n : path(k) \in AllPaths /\ to_name(path(k)) \in Normals
  BY <1>3 DEF path
<1>5. F \in [Nat -> [States -> States]]
  <2>1. ASSUME NEW k \in 1 .. n, NEW x \in States
        PROVE  directory_create(x, path(k), from) \in States
    BY <1>4, CreatingDirectory
  <2> QED BY <2>1
<1>6. PICK t \in [0 .. n -> States] : Iterates(t, s, F, n)
  <2> HIDE DEF F
  <2> QED BY <1>1, <1>5, RecursionUpTo
<1>7. Good(t)
  <2>1. ASSUME NEW k \in 0 .. n, k # 0
        PROVE  F[k - 1][t[k - 1]] = IF ~ t[k - 1].ok \/ t[k - 1].null THEN t[k - 1]
                                    ELSE directory_create(t[k - 1], path(k), from)
    <3>1. k - 1 \in Nat /\ k - 1 \in 0 .. n /\ (k - 1) + 1 = k /\ k \in 1 .. n
      BY <1>1, <2>1
    <3>2. t[k - 1] \in States
      BY <3>1
    <3> QED BY <3>1, <3>2
  <2>2. t = [k \in 0 .. n |-> t[k]]
    OBVIOUS
  <2> HIDE DEF F
  <2> QED BY <1>6, <2>1, <2>2 DEF Iterates
<1>8. Good(c)
  BY <1>7 DEF c
<1>9. \A k \in 0 .. n : c[k] = IF k = 0 THEN s
                               ELSE IF ~ c[k - 1].ok \/ c[k - 1].null THEN c[k - 1]
                               ELSE directory_create(c[k - 1], path(k), from)
  BY <1>8
<1> HIDE DEF Good
<1> DEFINE T == {k \in 0 .. n : Made(s, c[k]) /\ LeadsTo(s, c[k], path(k), from)}
<1>10. 0 \in T
  <2>1. c[0] = s
    BY <1>1, <1>9
  <2>2. Same(s, s)
    BY DEF Same
  <2>3. Made(s, s)
    BY <2>2, SameIsMade
  <2>4. LeadsTo(s, s, path(0), from)
    BY <2>2 DEF LeadsTo
  <2> QED BY <1>1, <2>1, <2>3, <2>4
<1>11. ASSUME NEW k \in 0 .. n - 1, k \in T PROVE k + 1 \in T
  <2>1. k + 1 \in 0 .. n /\ k + 1 # 0 /\ (k + 1) - 1 = k /\ k + 1 \in 1 .. n
    BY <1>1
  <2> DEFINE x == c[k]
             y == c[k + 1]
             front == SubSeq(names, 1, k + 1)
  <2>2. y = IF ~ x.ok \/ x.null THEN x ELSE directory_create(x, path(k + 1), from)
    BY <1>9, <2>1
  <2>3. Made(s, x) /\ LeadsTo(s, x, path(k), from) /\ x \in States
    BY <1>11 DEF Made
  <2> HIDE DEF x, y
  <2>4. CASE ~ x.ok \/ x.null
    <3>1. LeadsTo(s, x, path(k + 1), from)
      BY <2>4 DEF LeadsTo
    <3> QED BY <2>1, <2>2, <2>3, <2>4, <3>1 DEF y
  <2>5. CASE x.ok /\ ~ x.null
    <3>1. /\ front \in Seq(Normals) /\ front # <<>>
          /\ SubSeq(front, 1, Len(front) - 1) = SubSeq(names, 1, k)
      BY <1>3, <2>1
    <3> HIDE DEF front
    <3>2. LeadsTo(s, x, absolute(SubSeq(front, 1, Len(front) - 1)), from)
      BY <2>3, <3>1 DEF path
    <3>3. /\ Made(s, directory_create(x, absolute(front), from))
          /\ LeadsTo(s, directory_create(x, absolute(front), from), absolute(front), from)
      BY <2>3, <2>5, <3>1, <3>2, MakeStep
    <3>4. path(k + 1) = absolute(front)
      BY DEF path, front
    <3> QED BY <2>1, <2>2, <2>5, <3>3, <3>4 DEF y
  <2> QED BY <2>4, <2>5
<1>12. n \in T
  <2>1. \A k \in 0 .. n : k \in T
    <3> HIDE DEF T
    <3> QED BY <1>1, <1>10, <1>11, UpTo
  <2> QED BY <1>1, <2>1
<1> QED BY <1>2, <1>12

LEMMA MakingOne ==
    ASSUME NEW s \in States, s.sound => Tidy(s), NEW path \in AllPaths, to_name(path) \in Normals,
           NEW from \in Inodes
    PROVE  Made(s, directory_create(s, path, from))
<1> DEFINE t == directory_create(s, path, from)
           d == path_to_parent_inode(s, path, from).inode
           name == to_name(path)
<1>1. /\ t \in States
      /\ t.sound => s.sound
      /\ \/ Same(s, t)
         \/ /\ d \in Inodes /\ entry_find(s, d, name) = FS_INODE_FAILURE
            /\ t.sound => d \in s.used
            /\ \E f \in Inodes : Enters(s, t, d, name, FirstEntries(d, f), f)
  BY CreatingDirectory
<1> HIDE DEF t, d, name
<1>2. CASE Same(s, t)
  BY <1>1, <1>2, SameIsMade DEF t
<1>3. ASSUME t.sound, NEW f \in Inodes, Enters(s, t, d, name, FirstEntries(d, f), f),
             d \in s.used, entry_find(s, d, name) = FS_INODE_FAILURE
      PROVE  Made(s, t)
  <2>1. name \in Normals
    BY DEF name
  <2> QED BY <1>1, <1>3, <2>1, EnterIsMade
<1>4. ~ t.sound => Made(s, t)
  BY <1>1 DEF Made
<1> QED BY <1>1, <1>2, <1>3, <1>4 DEF t

-----------------------------------------------------------------------------
(* One directory has lost an entry at most, and an inode all of them.      *)
Shrunk(s, t) ==
    \E d, i \in Inodes :
        /\ \A e \in Inodes \ {d, i} : t.entries[e] = s.entries[e]
        /\ t.entries[i] = <<>>
        /\ d # i => \/ t.entries[d] = s.entries[d]
                    \/ \E k \in Nat : \E name : FreesAt(s.entries[d], t.entries[d], k, name)

(* What a step does to the directories, as long as the history is sound.   *)
Changes(s, t) == t.sound => s.sound /\ (Same(s, t) \/ Grown(s, t) \/ Shrunk(s, t))

LEMMA Becoming ==
    ASSUME IInv, NEW s \in States, Become(s)
    PROVE  /\ State' \in States
           /\ State'.entries = s.entries /\ State'.used = s.used /\ State'.sound = s.sound
           /\ sound' = s.sound
           /\ Tidy(s) => Tidy(State')
           /\ Tree(s) => Tree(State')
           /\ Changes(State, s) => Changes(State, State')
<1> DEFINE t == [entries |-> s.entries, used |-> s.used, sound |-> s.sound,
                 ok |-> TRUE, null |-> FALSE]
<1>1. State' = t /\ sound' = s.sound
  BY DEF State, Become
<1>2. t \in States /\ t.entries = s.entries /\ t.used = s.used /\ t.sound = s.sound
  BY StateFields DEF States
<1> HIDE DEF t
<1>3. (Tidy(s) => Tidy(t)) /\ (Tree(s) => Tree(t))
  BY <1>2 DEF Tidy, Tree, Dots, Proper, OneName, Above, Below
<1>4. Changes(State, s) => Changes(State, t)
  BY <1>2 DEF Changes, Same, Grown, Shrunk
<1> QED BY <1>1, <1>2, <1>3, <1>4

LEMMA StateNow ==
    /\ State.entries = entries /\ State.used = inode_bitmap /\ State.sound = sound
    /\ State.ok /\ ~ State.null
  BY DEF State

(* Inodes are looked into, and no more.                                    *)
LEMMA LookingOnly ==
    ASSUME IInv, NEW X, Become(get(State, X)), UNCHANGED exact
    PROVE  /\ State' \in States
           /\ sound' => Tidy(State')
           /\ sound' /\ exact' => Tree(State')
           /\ Changes(State, State')
<1> DEFINE s == get(State, X)
<1>1. /\ s \in States /\ s.entries = State.entries /\ s.used = State.used
      /\ s.sound => State.sound
  BY Looking DEF IInv
<1> HIDE DEF s
<1>2. (Tidy(State) => Tidy(s)) /\ (Tree(State) => Tree(s))
  BY <1>1 DEF Tidy, Tree, Dots, Proper, OneName, Above, Below
<1>3. Changes(State, s)
  BY <1>1 DEF Changes, Same
<1>4. Become(s)
  BY DEF s
<1>5. /\ State' \in States /\ sound' = s.sound
      /\ Tidy(s) => Tidy(State')
      /\ Tree(s) => Tree(State')
      /\ Changes(State, State')
  BY <1>1, <1>3, <1>4, Becoming
<1> QED BY <1>1, <1>2, <1>5, StateNow DEF IInv

(* Something is made.                                                      *)
LEMMA MakingOnly ==
    ASSUME IInv, NEW s, Made(State, s), Become(s), UNCHANGED exact
    PROVE  /\ State' \in States
           /\ sound' => Tidy(State')
           /\ sound' /\ exact' => Tree(State')
           /\ Changes(State, State')
<1>1. s \in States
  BY DEF Made
<1>2. Changes(State, s)
  BY DEF Made, Changes
<1>3. /\ State' \in States /\ sound' = s.sound
      /\ Tidy(s) => Tidy(State')
      /\ Tree(s) => Tree(State')
      /\ Changes(State, State')
  BY <1>1, <1>2, Becoming
<1> QED BY <1>3, StateNow DEF IInv, Made

LEMMA OpenKeeps ==
    ASSUME IInv, NEW path \in AllPaths, dir_open(path)
    PROVE  IInv' /\ Changes(State, State')
<1>1. /\ State' \in States
      /\ sound' => Tidy(State')
      /\ sound' /\ exact' => Tree(State')
      /\ Changes(State, State')
  BY LookingOnly DEF dir_open
<1> QED BY <1>1 DEF dir_open, IInv

LEMMA ChangeKeeps ==
    ASSUME IInv, NEW path \in AllPaths, NEW behind \in AllPaths, dir_change(path, behind)
    PROVE  IInv' /\ Changes(State, State')
<1>1. /\ State' \in States
      /\ sound' => Tidy(State')
      /\ sound' /\ exact' => Tree(State')
      /\ Changes(State, State')
  BY LookingOnly DEF dir_change
<1>2. cwd' \in Inodes
  BY PathTyped DEF dir_change, IInv, Numbers
<1>3. cwd_path' \in Seq(Normals)
  BY Normalizing DEF dir_change, IInv
<1> QED BY <1>1, <1>2, <1>3 DEF dir_change, IInv

LEMMA MakeKeeps ==
    ASSUME IInv, NEW path \in AllPaths, NEW behind \in AllPaths, dir_make(path, behind)
    PROVE  IInv' /\ Changes(State, State')
<1> DEFINE names == normalize(path, cwd_path, behind)
           s == IF names = <<>> THEN directory_create(State, RootPath, cwd)
                ELSE MadeFrom(State, names, cwd)
<1>1. Become(s) /\ UNCHANGED <<cwd, cwd_path, exact>>
  BY DEF dir_make, MadeFrom
<1>2. names \in Seq(Normals)
  BY Normalizing DEF IInv
<1> HIDE DEF names
<1>3. Made(State, s)
  <2>1. State \in States /\ (State.sound => Tidy(State)) /\ cwd \in Inodes
    BY StateNow DEF IInv
  <2>2. RootPath \in AllPaths /\ to_name(RootPath) \in Normals
    BY AbsolutePaths, NamesOfPaths, <1>2
  <2> QED BY <1>2, <2>1, <2>2, MakingOne, MakingAll
<1> HIDE DEF s
<1>4. /\ State' \in States
      /\ sound' => Tidy(State')
      /\ sound' /\ exact' => Tree(State')
      /\ Changes(State, State')
  BY <1>1, <1>3, MakingOnly
<1> QED BY <1>1, <1>4 DEF IInv

LEMMA NameOfNames ==
    ASSUME NEW names \in Seq(Normals)
    PROVE  to_name(absolute(names)) \in Normals
<1>1. CASE names = <<>>
  BY <1>1, AbsolutePaths, NamesOfPaths DEF absolute
<1>2. CASE names # <<>>
  <2>1. Len(names) \in 1 .. Len(names)
    BY <1>2, EmptySeq
  <2> QED BY <1>2, <2>1, ElementOfSeq, AbsolutePaths
<1> QED BY <1>1, <1>2

LEMMA CreateKeeps ==
    ASSUME IInv, NEW path \in AllPaths, NEW behind \in AllPaths, file_create(path, behind)
    PROVE  IInv' /\ Changes(State, State')
<1> DEFINE parent == path_to_parent_inode(State, path, cwd)
           d == parent.inode
           name == to_name(absolute(normalize(path, cwd_path, behind)))
           s == get(State, parent.got \cup {d})
           t == enter(s, d, name, <<>>)
<1>1. /\ d # FS_INODE_FAILURE /\ UNCHANGED <<cwd, cwd_path, exact>>
      /\ \/ Become(s)
         \/ /\ entry_find(State, d, name) = FS_INODE_FAILURE
            /\ inode_bitmap # Inodes
            /\ Become(t)
  BY DEF file_create
<1>2. /\ State' \in States
      /\ sound' => Tidy(State')
      /\ sound' /\ exact' => Tree(State')
      /\ Changes(State, State')
  <2>1. CASE Become(s)
    BY <1>1, <2>1, LookingOnly
  <2>2. CASE /\ entry_find(State, d, name) = FS_INODE_FAILURE
             /\ inode_bitmap # Inodes
             /\ Become(t)
    <3>1. d \in Inodes
      BY <1>1, ParentTyped DEF IInv, Numbers
    <3>2. name \in Normals
      BY Normalizing, NameOfNames DEF IInv
    <3>3. /\ s \in States /\ s.entries = State.entries /\ s.used = State.used
          /\ s.sound => State.sound /\ d \in State.used
      BY Looking DEF IInv
    <3> HIDE DEF d, name, s
    <3>4. <<>> \in Rows
      BY DEF Rows
    <3>5. t \in States /\ t.sound = s.sound /\ Enters(s, t, d, name, <<>>, Fresh(s))
      BY <2>2, <3>1, <3>2, <3>3, <3>4, Creating, StateNow, NamesOfPaths
    <3>6. Enters(State, t, d, name, <<>>, Fresh(s))
      BY <3>3, <3>5 DEF Enters
    <3> HIDE DEF t
    <3>7. Made(State, t)
      <4>1. ASSUME t.sound PROVE Made(State, t)
        <5>1. State \in States /\ d \in State.used /\ State.sound /\ Tidy(State)
          BY <3>3, <3>5, <4>1, StateNow DEF IInv
        <5> QED BY <2>2, <3>2, <3>5, <3>6, <5>1, EnterIsMade
      <4> QED BY <3>5, <4>1 DEF Made
    <3> QED BY <1>1, <2>2, <3>7, MakingOnly
  <2> QED BY <1>1, <2>1, <2>2
<1> QED BY <1>1, <1>2 DEF IInv

(* An entry is taken from d, then the inode goes, or the other way round.  *)
LEMMA RemoveKeeps ==
    ASSUME IInv, NEW path \in AllPaths, dir_remove(path)
    PROVE  IInv' /\ Changes(State, State')
<1> DEFINE to == path_to_inode(State, path, cwd)
           i == to.inode
           parent == path_to_parent_inode(State, path, cwd)
           p == parent.inode
           name == to_name(path)
           X == to.got \cup {i} \cup parent.got
           s == get(State, X)
           u == destroy(s, i)
           t == get(u, {p})
           r == entry_del(t, p, name)
<1>1. /\ i # FS_INODE_FAILURE /\ UNCHANGED <<cwd, cwd_path>>
      /\ \/ Become(s) /\ UNCHANGED exact
         \/ Become(r) /\ exact' = (exact /\ TakesEntryOf(t, p, name, i))
  BY DEF dir_remove
<1>2. i \in Inodes /\ p \in Numbers /\ name \in Seq(STRING)
  BY <1>1, PathTyped, ParentTyped, NameTyped DEF IInv, Numbers
<1> HIDE DEF i, p, name, X
<1>3. /\ s \in States /\ s.entries = State.entries /\ s.used = State.used
      /\ s.sound => State.sound
  BY Looking DEF IInv
<1>4. /\ exact' \in BOOLEAN /\ State' \in States
      /\ sound' => Tidy(State')
      /\ sound' /\ exact' => Tree(State')
      /\ Changes(State, State')
  <2>1. CASE Become(s) /\ UNCHANGED exact
    BY <2>1, LookingOnly DEF IInv
  <2>2. CASE Become(r) /\ exact' = (exact /\ TakesEntryOf(t, p, name, i))
    <3> HIDE DEF s
    <3>1. /\ u \in States /\ u.used = State.used \ {i} /\ u.sound = s.sound
          /\ u.entries[i] = <<>>
          /\ \A e \in Inodes \ {i} : u.entries[e] = State.entries[e]
      BY <1>2, <1>3, Destroying
    <3>2. s.sound => Tidy(s)
      BY <1>3, StateNow DEF IInv, Tidy
    <3>3. s.sound => Tidy(u)
      BY <1>2, <1>3, <3>2, DestroyTidy
    <3> HIDE DEF u
    <3>4. /\ t \in States /\ t.entries = u.entries /\ t.used = u.used
          /\ t.sound => s.sound /\ p \in State.used \ {i}
      BY <3>1, Looking
    <3>5. s.sound => Tidy(t)
      BY <3>3, <3>4 DEF Tidy
    <3> HIDE DEF t
    <3>6. CASE p = FS_INODE_FAILURE
      <4>1. r = t
        BY <3>4, <3>6, NamesOfPaths, DeletingNowhere
      <4>2. ~ t.sound
        BY <3>4, <3>6, NamesOfPaths, StateFields DEF IInv
      <4>3. Changes(State, t)
        BY <4>2 DEF Changes
      <4>4. State' \in States /\ sound' = t.sound /\ Changes(State, State')
        BY <2>2, <3>4, <4>1, <4>3, Becoming
      <4> QED BY <2>2, <4>2, <4>4 DEF IInv
    <3>7. CASE p \in Inodes
      <4>1. /\ r \in States /\ r.used = t.used /\ r.sound = t.sound
            /\ \A e \in Inodes \ {p} : r.entries[e] = t.entries[e]
            /\ r = t \/ \E k \in Nat : FreesAt(t.entries[p], r.entries[p], k, name)
        BY <3>4, <3>7, Deleting
      <4>2. r.sound => Tidy(r)
        BY <3>4, <3>5, <3>7, <4>1, FreeTidy
      <4>3. ASSUME r.sound, exact, TakesEntryOf(t, p, name, i) PROVE Tree(r)
        <5>1. PICK k \in Nat : /\ FreesAt(t.entries[p], r.entries[p], k, name)
                               /\ t.entries[p][k].inode = i
          BY <1>2, <3>4, <3>7, <4>3, TakenIsFreed
        <5>2. i # p /\ t.entries[p] = State.entries[p]
          BY <3>1, <3>4, <3>7, <4>1, <4>3
        <5>3. State \in States /\ Tree(State)
          BY <1>3, <3>4, <4>1, <4>3, StateNow DEF IInv
        <5>4. /\ r.used = State.used \ {i} /\ r.entries[i] = <<>>
              /\ \A e \in Inodes \ {p, i} : r.entries[e] = State.entries[e]
          BY <1>2, <3>1, <3>4, <4>1, <5>2
        <5>5. /\ FreesAt(State.entries[p], r.entries[p], k, name)
              /\ State.entries[p][k].inode = i /\ i \in Inodes \ {p}
          BY <1>2, <5>1, <5>2
        <5> HIDE DEF r
        <5> QED BY <1>2, <3>7, <4>1, <5>3, <5>4, <5>5, RemoveTree
      <4>4. Changes(State, r)
        <5>1. ASSUME r.sound PROVE State.sound /\ Shrunk(State, r)
          <6>1. i # p /\ State.sound
            BY <1>3, <3>4, <4>1, <5>1
          <6>2. /\ \A e \in Inodes \ {p, i} : r.entries[e] = State.entries[e]
                /\ r.entries[i] = <<>>
                /\ t.entries[p] = State.entries[p]
            BY <1>2, <3>1, <3>4, <3>7, <4>1, <6>1
          <6>3. \/ r.entries[p] = State.entries[p]
                \/ \E k \in Nat : FreesAt(State.entries[p], r.entries[p], k, name)
            BY <4>1, <6>2
          <6> HIDE DEF r
          <6> QED BY <1>2, <3>7, <6>1, <6>2, <6>3 DEF Shrunk
        <5> QED BY <5>1 DEF Changes
      <4> HIDE DEF r
      <4>5. /\ State' \in States /\ sound' = r.sound
            /\ Tidy(r) => Tidy(State')
            /\ Tree(r) => Tree(State')
            /\ Changes(State, State')
        BY <2>2, <4>1, <4>4, Becoming
      <4> QED BY <2>2, <4>2, <4>3, <4>5 DEF IInv
    <3> QED BY <1>2, <3>6, <3>7 DEF Numbers
  <2> QED BY <1>1, <2>1, <2>2
<1> QED BY <1>1, <1>4 DEF IInv

(* The root has no name that a deletion of "/" could take.                 *)
LEMMA RootIsKept ==
    ASSUME NEW s \in States, Tree(s), NEW d \in Inodes
    PROVE  ~ TakesEntryOf(s, d, FS_PATH_DELIMITER, FS_ROOT_DIRECTORY_INODE)
<1>1. SUFFICES ASSUME TakesEntryOf(s, d, FS_PATH_DELIMITER, FS_ROOT_DIRECTORY_INODE)
               PROVE  FALSE
  OBVIOUS
<1>2. PICK k \in Nat :
         /\ k \in DOMAIN s.entries[d] /\ IsPrefix(s.entries[d][k].name, FS_PATH_DELIMITER)
         /\ s.entries[d][k].inode = FS_ROOT_DIRECTORY_INODE
  BY <1>1, TakenIsFreed, NamesOfPaths DEF FreesAt
<1>3. s.entries[d][k].name \in NAMES
  BY <1>2, RowFields, NamesOfPaths DEF FreeEntry, Entry
<1>4. ~ IsPrefix(<<".", ".">>, <<"/">>)
  BY DEF IsPrefix
<1>5. ~ IsPrefix(<<".">>, <<"/">>)
  <2>1. SubSeq(<<".">>, 1, 1)[1] = "." /\ SubSeq(<<"/">>, 1, 1)[1] = "/"
    OBVIOUS
  <2>2. SubSeq(<<".">>, 1, 1) # SubSeq(<<"/">>, 1, 1)
    BY <2>1
  <2> QED BY <2>2 DEF IsPrefix
<1>6. s.entries[d][k].name \in Normals
  BY <1>2, <1>3, <1>4, <1>5
     DEF Normals, FS_DIRECTORY_CURRENT_DIR_NAME, FS_DIRECTORY_PARENT_DIR_NAME, FS_PATH_DELIMITER
<1> QED BY <1>2, <1>6 DEF Tree, Proper

LEMMA DeleteKeeps ==
    ASSUME IInv, NEW path \in AllPaths, NEW behind \in AllPaths, file_delete(path, behind)
    PROVE  IInv' /\ Changes(State, State')
<1> DEFINE names == normalize(path, cwd_path, behind)
           full == absolute(names)
           to == path_to_inode(State, full, cwd)
           parent == path_to_parent_inode(State, full, cwd)
           i == to.inode
           d == parent.inode
           name == to_name(full)
           X == to.got \cup parent.got \cup {d}
           s == get(State, X)
           u == entry_del(s, d, name)
           t == get(u, {i})
           r == destroy(t, i)
<1>1. /\ i # FS_INODE_FAILURE /\ d # FS_INODE_FAILURE /\ UNCHANGED <<cwd, cwd_path>>
      /\ \/ Become(s) /\ UNCHANGED exact
         \/ Become(r) /\ exact' = (exact /\ TakesEntryOf(s, d, name, i))
  BY DEF file_delete
<1>2. names \in Seq(Normals)
  BY Normalizing DEF IInv
<1>3. i \in Inodes /\ d \in Inodes /\ name \in Seq(STRING)
  <2>1. full \in AllPaths
    BY <1>2, AbsolutePaths
  <2> QED BY <1>1, <2>1, PathTyped, ParentTyped, NameTyped DEF IInv, Numbers
<1>4. ASSUME Tree(State), TakesEntryOf(s, d, name, i), s \in States, s.entries = State.entries,
             s.used = State.used
      PROVE  i # d
  <2> HIDE DEF names
  <2>1. CASE names = <<>>
    <3>1. name = FS_PATH_DELIMITER
      BY <2>1, AbsolutePaths, <1>2 DEF absolute
    <3>2. i = FS_ROOT_DIRECTORY_INODE
      <4>1. full \in AllPaths /\ Length(full) = 0 /\ Start(full, cwd) = FS_ROOT_DIRECTORY_INODE
        BY <1>2, <2>1, AbsolutePaths, LengthOfNames, EmptySeq
      <4> QED BY <4>1, WalkSteps DEF IInv
    <3>3. Tree(s)
      <4> HIDE DEF s
      <4> QED BY <1>4 DEF Tree, Dots, Proper, OneName, Above, Below
    <3> HIDE DEF s, d, i, name
    <3> QED BY <1>3, <1>4, <3>1, <3>2, <3>3, RootIsKept
  <2>2. CASE names # <<>>
    <3>1. name = names[Len(names)] /\ name \in Normals
      BY <1>2, <2>2, AbsolutePaths, NameOfNames
    <3>2. d = path_to_inode(State, absolute(SubSeq(names, 1, Len(names) - 1)), cwd).inode
      BY <1>2, <2>2, AbsolutePaths DEF path_to_parent_inode
    <3>3. i = Onward(State, d, name)
      BY <1>2, <2>2, <3>1, <3>2, LastStep DEF IInv
    <3> HIDE DEF d, i, name
    <3>4. State \in States /\ i = entry_find(State, d, name) /\ i # FS_INODE_FAILURE
      BY <1>1, <3>3 DEF Onward, IInv
    <3>5. PICK k \in DOMAIN State.entries[d] :
             State.entries[d][k].name = name /\ State.entries[d][k].inode = i
      BY <1>3, <3>4, Finding
    <3>6. Proper(State, d)
      BY <1>3, <1>4 DEF Tree
    <3> QED BY <3>1, <3>5, <3>6 DEF Proper
  <2> QED BY <2>1, <2>2
<1> HIDE DEF i, d, name, X
<1>5. /\ s \in States /\ s.entries = State.entries /\ s.used = State.used
      /\ s.sound => State.sound /\ d \in State.used
  <2>1. s.sound => State.sound /\ X \subseteq State.used
    BY Looking DEF IInv
  <2>2. d \in X
    BY DEF X
  <2> QED BY <2>1, <2>2, Looking DEF IInv
<1>6. /\ exact' \in BOOLEAN /\ State' \in States
      /\ sound' => Tidy(State')
      /\ sound' /\ exact' => Tree(State')
      /\ Changes(State, State')
  <2>1. CASE Become(s) /\ UNCHANGED exact
    BY <2>1, LookingOnly DEF IInv
  <2>2. CASE Become(r) /\ exact' = (exact /\ TakesEntryOf(s, d, name, i))
    <3> HIDE DEF s
    <3>1. /\ u \in States /\ u.used = State.used /\ u.sound = s.sound
          /\ \A e \in Inodes \ {d} : u.entries[e] = State.entries[e]
          /\ u = s \/ \E k \in Nat : FreesAt(State.entries[d], u.entries[d], k, name)
      BY <1>3, <1>5, Deleting
    <3>2. s.sound => Tidy(s)
      BY <1>5, StateNow DEF IInv, Tidy
    <3>3. s.sound => Tidy(u)
      BY <1>3, <1>5, <3>2, FreeTidy
    <3>4. TakesEntryOf(s, d, name, i) =>
             \E k \in Nat : /\ FreesAt(State.entries[d], u.entries[d], k, name)
                            /\ State.entries[d][k].inode = i
      BY <1>3, <1>5, TakenIsFreed
    <3> HIDE DEF u
    <3>5. /\ t \in States /\ t.entries = u.entries /\ t.used = u.used
          /\ t.sound => s.sound
      BY <3>1, Looking
    <3>6. s.sound => Tidy(t)
      BY <3>3, <3>5 DEF Tidy
    <3> HIDE DEF t
    <3>7. /\ r \in States /\ r.used = State.used \ {i} /\ r.sound = t.sound
          /\ r.entries[i] = <<>>
          /\ \A e \in Inodes \ {i} : r.entries[e] = u.entries[e]
      <4>1. /\ r \in States /\ r.used = t.used \ {i} /\ r.sound = t.sound
            /\ r.entries[i] = <<>>
            /\ \A e \in Inodes \ {i} : r.entries[e] = t.entries[e]
        BY <1>3, <3>5, Destroying
      <4> HIDE DEF r
      <4> QED BY <3>1, <3>5, <4>1
    <3>8. r.sound => Tidy(r)
      BY <1>3, <3>5, <3>6, <3>7, DestroyTidy
    <3> HIDE DEF r
    <3>9. ASSUME r.sound, exact, TakesEntryOf(s, d, name, i) PROVE Tree(r)
      <4>1. PICK k \in Nat : /\ FreesAt(State.entries[d], u.entries[d], k, name)
                             /\ State.entries[d][k].inode = i
        BY <3>4, <3>9
      <4>2. State \in States /\ Tree(State)
        BY <1>5, <3>5, <3>7, <3>9, StateNow DEF IInv
      <4>3. i \in Inodes \ {d}
        BY <1>3, <1>4, <1>5, <3>9, <4>2
      <4>4. /\ FreesAt(State.entries[d], r.entries[d], k, name)
            /\ \A e \in Inodes \ {d, i} : r.entries[e] = State.entries[e]
        BY <1>3, <3>1, <3>7, <4>1, <4>3
      <4> QED BY <1>3, <3>7, <4>1, <4>2, <4>3, <4>4, RemoveTree
    <3>10. Changes(State, r)
      <4>1. \A e \in Inodes \ {d, i} : r.entries[e] = State.entries[e]
        BY <3>1, <3>7
      <4>2. d # i => \/ r.entries[d] = State.entries[d]
                     \/ \E k \in Nat : FreesAt(State.entries[d], r.entries[d], k, name)
        BY <1>3, <1>5, <3>1, <3>7
      <4>3. Shrunk(State, r)
        BY <1>3, <3>7, <4>1, <4>2 DEF Shrunk
      <4> QED BY <1>5, <3>5, <3>7, <4>3 DEF Changes
    <3>11. /\ State' \in States /\ sound' = r.sound
           /\ Tidy(r) => Tidy(State')
           /\ Tree(r) => Tree(State')
           /\ Changes(State, State')
      BY <2>2, <3>7, <3>10, Becoming
    <3> QED BY <2>2, <3>8, <3>9, <3>11 DEF IInv
  <2> QED BY <1>1, <2>1, <2>2
<1> QED BY <1>1, <1>6 DEF IInv

-----------------------------------------------------------------------------
LEMMA InitIInv == Init => IInv
<1> SUFFICES ASSUME Init PROVE IInv
  OBVIOUS
<1> DEFINE root == FS_ROOT_DIRECTORY_INODE
           first == FirstEntries(root, root)
<1>1. /\ first \in Rows /\ DOMAIN first = {1, 2} /\ OnlyOnce(first)
      /\ first[1] = Entry(FS_DIRECTORY_CURRENT_DIR_NAME, root)
      /\ first[2] = Entry(FS_DIRECTORY_PARENT_DIR_NAME, root)
      /\ <<>> \in Rows
  BY FirstEntriesTyped, NamesOfPaths DEF Rows
<1>2. entries = [d \in Inodes |-> IF d = root THEN first ELSE <<>>]
  BY DEF Init, FirstEntries
<1>3. /\ first[1].name = FS_DIRECTORY_CURRENT_DIR_NAME /\ first[1].inode = root
      /\ first[2].name = FS_DIRECTORY_PARENT_DIR_NAME
  BY <1>1, EntryFields, NamesOfPaths
<1> HIDE DEF first
<1>4. State \in States
  <2>1. entries \in [Inodes -> Rows]
    BY <1>1, <1>2
  <2> QED BY <2>1, NamesOfPaths DEF Init, State, States
<1>5. State.entries = entries /\ State.used = {root}
  BY DEF State, Init
<1>6. Tidy(State)
  <2>1. OnlyOnce(<<>>)
    BY DEF OnlyOnce
  <2> QED BY <1>1, <1>2, <1>5, <2>1 DEF Tidy
<1>7. Tree(State)
  <2>1. \A d \in Inodes : \A k \in DOMAIN entries[d] :
           /\ d = root /\ k \in {1, 2} /\ entries[d][k] = first[k]
           /\ DOMAIN entries[d] = {1, 2} /\ entries[d][1] = first[1]
    BY <1>1, <1>2
  <2>2. \A d \in Inodes : \A k \in DOMAIN entries[d] : entries[d][k].name \notin Normals
    BY <1>3, <2>1 DEF Normals
  <2>3. \A d \in Inodes : Dots(State, d)
    BY <1>3, <1>5, <2>1, NamesOfPaths DEF Dots
  <2>4. Above(State, root, root)
    <3>1. \A l \in DOMAIN entries[root] : entries[root][l].name = FS_DIRECTORY_PARENT_DIR_NAME =>
             entries[root][l].inode = root
      <4>1. first[2].inode = root
        BY <1>1, EntryFields, NamesOfPaths
      <4> QED BY <1>3, <2>1, <4>1, NamesOfPaths
    <3> QED BY <1>5, <3>1 DEF Above
  <2> QED BY <1>5, <2>2, <2>3, <2>4 DEF Tree, Proper, OneName, Below
<1>8. cwd \in Inodes /\ cwd_path \in Seq(Normals) /\ exact \in BOOLEAN
  BY NamesOfPaths DEF Init
<1> QED BY <1>4, <1>6, <1>7, <1>8 DEF IInv

(* Every step keeps the invariant, and changes the directories as it may.  *)
LEMMA NextKeeps ==
    ASSUME IInv, [Next]_vars
    PROVE  IInv' /\ Changes(State, State')
<1>1. InputPaths \subseteq AllPaths /\ \A path : Tails(path) \subseteq AllPaths
  BY NamesOfPaths DEF Tails
<1>2. ASSUME NEW path \in InputPaths, dir_open(path) PROVE IInv' /\ Changes(State, State')
  BY <1>1, <1>2, OpenKeeps
<1>3. ASSUME NEW path \in InputPaths, dir_remove(path) PROVE IInv' /\ Changes(State, State')
  BY <1>1, <1>3, RemoveKeeps
<1>4. ASSUME NEW path \in InputPaths, NEW behind \in Tails(path), dir_make(path, behind)
      PROVE  IInv' /\ Changes(State, State')
  BY <1>1, <1>4, MakeKeeps
<1>5. ASSUME NEW path \in InputPaths, NEW behind \in Tails(path), dir_change(path, behind)
      PROVE  IInv' /\ Changes(State, State')
  BY <1>1, <1>5, ChangeKeeps
<1>6. ASSUME NEW path \in InputPaths, NEW behind \in Tails(path), file_create(path, behind)
      PROVE  IInv' /\ Changes(State, State')
  BY <1>1, <1>6, CreateKeeps
<1>7. ASSUME NEW path \in InputPaths, NEW behind \in Tails(path), file_delete(path, behind)
      PROVE  IInv' /\ Changes(State, State')
  BY <1>1, <1>7, DeleteKeeps
<1>8. CASE UNCHANGED vars
  <2>1. State' = State
    BY <1>8 DEF vars, State
  <2>2. Changes(State, State')
    BY <2>1 DEF Changes, Same
  <2>3. Tidy(State') = Tidy(State) /\ Tree(State') = Tree(State)
    BY <2>1
  <2> QED BY <1>8, <2>1, <2>2, <2>3 DEF vars, IInv
<1> QED BY <1>2, <1>3, <1>4, <1>5, <1>6, <1>7, <1>8 DEF Next

(* The invariant: what the theorems below rest on.                         *)
THEOREM Invariance == Spec => []IInv
<1>1. IInv /\ [Next]_vars => IInv'
  BY NextKeeps
<1> QED BY <1>1, InitIInv, PTL DEF Spec

(* No directory has a name twice, whatever the inodes and paths: creations *)
(* look for the name among all entries, and use a free one again.          *)
THEOREM NamesAreUnique == Spec => []UniqueNames
<1>1. IInv => UniqueNames
  BY StateNow DEF IInv, Tidy, OnlyOnce, UniqueNames
<1> QED BY <1>1, Invariance, PTL

(* While deletions are exact no entry but .. outlives its inode.           *)
THEOREM EntriesAreInUse == Spec => []EntriesInUse
<1>1. IInv => EntriesInUse
  <2> SUFFICES ASSUME IInv, sound, exact, NEW d \in Inodes, NEW k \in DOMAIN entries[d],
                      entries[d][k].name \notin {EmptySegment, FS_DIRECTORY_PARENT_DIR_NAME}
               PROVE  entries[d][k].inode \in inode_bitmap
    BY DEF EntriesInUse
  <2>1. /\ State \in States /\ Tidy(State) /\ Dots(State, d) /\ Proper(State, d)
        /\ k \in DOMAIN State.entries[d]
    BY StateNow DEF IInv, Tree
  <2>2. State.entries[d][k].name \in NAMES
    BY <2>1, StateNow, RowFields
  <2>3. CASE entries[d][k].name = FS_DIRECTORY_CURRENT_DIR_NAME
    <3>1. entries[d][k].inode = d
      BY <2>1, <2>3, StateNow DEF Dots
    <3>2. d \in inode_bitmap
      <4>1. ASSUME d \notin inode_bitmap PROVE FALSE
        <5>1. State.entries[d] = <<>>
          BY <2>1, <4>1, StateNow DEF Tidy
        <5> QED BY <2>1, <5>1
      <4> QED BY <4>1
    <3> QED BY <3>1, <3>2
  <2>4. CASE entries[d][k].name \in Normals
    BY <2>1, <2>4, StateNow DEF Proper
  <2> QED BY <2>2, <2>3, <2>4, StateNow DEF Normals
<1> QED BY <1>1, Invariance, PTL

-----------------------------------------------------------------------------
(* The directories as functions of the name.                               *)
RowNames(s, d) == {s.entries[d][k].name : k \in DOMAIN s.entries[d]} \ {EmptySegment}

BoundOf(s) == [d \in Inodes |-> [name \in RowNames(s, d) |-> entry_find(s, d, name)]]

LEMMA BoundFields ==
    ASSUME NEW s, NEW d \in Inodes
    PROVE  /\ BoundOf(s)[d] = [name \in RowNames(s, d) |-> entry_find(s, d, name)]
           /\ DOMAIN BoundOf(s)[d] = RowNames(s, d)
           /\ \A name \in RowNames(s, d) : BoundOf(s)[d][name] = entry_find(s, d, name)
<1>1. BoundOf(s)[d] = [name \in RowNames(s, d) |-> entry_find(s, d, name)]
  BY DEF BoundOf
<1> QED BY <1>1

(* A directory without entries has no names, and the same entries give the *)
(* same function.                                                          *)
LEMMA BoundSame ==
    ASSUME NEW s, NEW t, NEW d \in Inodes
    PROVE  /\ s.entries[d] = <<>> => RowNames(s, d) = {} /\ BoundOf(s)[d] = NameSpaceOf!NoNames
           /\ s.entries[d] = t.entries[d] => BoundOf(s)[d] = BoundOf(t)[d]
<1>1. ASSUME s.entries[d] = <<>>
      PROVE  RowNames(s, d) = {} /\ BoundOf(s)[d] = NameSpaceOf!NoNames
  <2>1. RowNames(s, d) = {}
    BY <1>1 DEF RowNames
  <2> QED BY <2>1, BoundFields DEF NameSpaceOf!NoNames
<1>2. ASSUME s.entries[d] = t.entries[d] PROVE BoundOf(s)[d] = BoundOf(t)[d]
  <2>1. RowNames(s, d) = RowNames(t, d)
    BY <1>2 DEF RowNames
  <2>2. \A name : entry_find(s, d, name) = entry_find(t, d, name)
    BY <1>2 DEF entry_find, Named
  <2>3. /\ BoundOf(s)[d] = [name \in RowNames(s, d) |-> entry_find(s, d, name)]
        /\ BoundOf(t)[d] = [name \in RowNames(t, d) |-> entry_find(t, d, name)]
    BY BoundFields
  <2> QED BY <2>1, <2>2, <2>3
<1> QED BY <1>1, <1>2

LEMMA RowNamesTyped ==
    ASSUME NEW s \in States, NEW d \in Inodes, NEW name
    PROVE  name \in RowNames(s, d) <=>
              name \in NAMES /\ \E k \in DOMAIN s.entries[d] : s.entries[d][k].name = name
  BY RowFields, NamesOfPaths DEF RowNames

(* A directory that has one name more maps to a creation, ...              *)
LEMMA GrownIsCreated ==
    ASSUME NEW s \in States, NEW t \in States, Tidy(s), Tidy(t), Grown(s, t)
    PROVE  NameSpaceOf!Created(BoundOf(s), BoundOf(t))
<1>1. PICK d \in s.used, name \in NAMES, f \in Inodes :
         /\ \A k \in DOMAIN s.entries[d] : s.entries[d][k].name # name
         /\ \E k \in Nat : AddsAt(s.entries[d], t.entries[d], k, Entry(name, f))
         /\ \A e \in s.used \ {d} : t.entries[e] = s.entries[e]
  BY DEF Grown
<1>2. d \in Inodes
  BY StateFields
<1>3. PICK k \in Nat :
         /\ k \in DOMAIN t.entries[d] /\ t.entries[d][k].name = name
         /\ k \in DOMAIN s.entries[d] => s.entries[d][k] = FreeEntry
         /\ DOMAIN s.entries[d] \subseteq DOMAIN t.entries[d]
         /\ \A l \in DOMAIN t.entries[d] : l # k =>
               l \in DOMAIN s.entries[d] /\ t.entries[d][l] = s.entries[d][l]
  BY <1>1, EntryFields DEF AddsAt
<1>4. FreeEntry.name \notin NAMES
  BY NamesOfPaths DEF FreeEntry, Entry
<1>5. RowNames(t, d) = RowNames(s, d) \cup {name} /\ name \notin RowNames(s, d)
  <2>1. name \notin RowNames(s, d)
    BY <1>1, <1>2, RowNamesTyped
  <2>2. ASSUME NEW n, n \in RowNames(t, d), n # name PROVE n \in RowNames(s, d)
    <3>1. n \in NAMES /\ \E l \in DOMAIN t.entries[d] : t.entries[d][l].name = n
      BY <1>2, <2>2, RowNamesTyped
    <3>2. \E l \in DOMAIN s.entries[d] : s.entries[d][l].name = n
      BY <1>3, <2>2, <3>1
    <3> QED BY <1>2, <3>1, <3>2, RowNamesTyped
  <2>3. ASSUME NEW n, n \in RowNames(s, d) PROVE n \in RowNames(t, d)
    <3>1. n \in NAMES /\ \E l \in DOMAIN s.entries[d] : s.entries[d][l].name = n
      BY <1>2, <2>3, RowNamesTyped
    <3>2. \E l \in DOMAIN t.entries[d] : t.entries[d][l].name = n
      BY <1>3, <1>4, <3>1
    <3> QED BY <1>2, <3>1, <3>2, RowNamesTyped
  <2>4. name \in RowNames(t, d)
    BY <1>2, <1>3, RowNamesTyped
  <2> QED BY <2>1, <2>2, <2>3, <2>4
<1>6. ASSUME NEW n \in RowNames(s, d) PROVE entry_find(t, d, n) = entry_find(s, d, n)
  <2>1. PICK l \in DOMAIN s.entries[d] : s.entries[d][l].name = n
    BY <1>2, RowNamesTyped
  <2>2. n \in NAMES
    BY <1>2, RowNamesTyped
  <2>3. l \in DOMAIN t.entries[d] /\ t.entries[d][l] = s.entries[d][l]
    BY <1>3, <1>4, <2>1, <2>2
  <2>4. OnlyOnce(s.entries[d]) /\ OnlyOnce(t.entries[d])
    BY <1>2 DEF Tidy
  <2>5. entry_find(s, d, n) = s.entries[d][l].inode
    BY <1>2, <2>1, <2>2, <2>4, FindingOnce
  <2>6. entry_find(t, d, n) = t.entries[d][l].inode
    BY <1>2, <2>1, <2>2, <2>3, <2>4, FindingOnce
  <2> QED BY <2>3, <2>5, <2>6
<1>7. \A e \in Inodes : e \notin s.used => RowNames(s, e) = {} /\ BoundOf(s)[e] = NameSpaceOf!NoNames
  BY BoundSame DEF Tidy
<1>8. \A e \in s.used : e # d => BoundOf(t)[e] = BoundOf(s)[e]
  BY <1>1, BoundSame, StateFields
<1>9. ASSUME NEW e \in Inodes
      PROVE  /\ NameSpaceOf!Without(BoundOf(t)[e], DOMAIN BoundOf(t)[e] \ DOMAIN BoundOf(s)[e])
                  = BoundOf(s)[e]
             /\ e # d /\ BoundOf(s)[e] # NameSpaceOf!NoNames => BoundOf(t)[e] = BoundOf(s)[e]
  <2>1. /\ DOMAIN BoundOf(s)[e] \subseteq DOMAIN BoundOf(t)[e]
        /\ \A n \in DOMAIN BoundOf(s)[e] : BoundOf(t)[e][n] = BoundOf(s)[e][n]
    <3>1. CASE e = d
      <4>1. /\ DOMAIN BoundOf(s)[d] = RowNames(s, d) /\ DOMAIN BoundOf(t)[d] = RowNames(t, d)
            /\ \A n \in RowNames(s, d) : BoundOf(s)[d][n] = entry_find(s, d, n)
            /\ \A n \in RowNames(t, d) : BoundOf(t)[d][n] = entry_find(t, d, n)
        BY <1>2, BoundFields
      <4> QED BY <1>5, <1>6, <3>1, <4>1
    <3>2. CASE e # d /\ e \in s.used
      BY <1>8, <3>2
    <3>3. CASE e \notin s.used
      BY <1>7, <3>3, BoundFields
    <3> QED BY <3>1, <3>2, <3>3
  <2>2. BoundOf(s)[e] = [n \in DOMAIN BoundOf(s)[e] |-> BoundOf(s)[e][n]]
    BY BoundFields
  <2>3. NameSpaceOf!Without(BoundOf(t)[e], DOMAIN BoundOf(t)[e] \ DOMAIN BoundOf(s)[e])
          = BoundOf(s)[e]
    BY <2>1, <2>2 DEF NameSpaceOf!Without
  <2> QED BY <1>7, <1>8, <2>3
<1>10. /\ name \in NAMES \ DOMAIN BoundOf(s)[d]
       /\ DOMAIN BoundOf(t)[d] = DOMAIN BoundOf(s)[d] \cup {name}
  BY <1>2, <1>5, BoundFields
<1> QED BY <1>2, <1>9, <1>10 DEF NameSpaceOf!Created, NameSpaceOf!Inodes, Inodes

(* ... and the entries that are lost to a deletion.                        *)
LEMMA ShrunkIsDeleted ==
    ASSUME NEW s \in States, NEW t \in States, Tidy(s), Tidy(t), Shrunk(s, t)
    PROVE  NameSpaceOf!Deleted(BoundOf(s), BoundOf(t))
<1>1. PICK d \in Inodes, i \in Inodes :
         /\ \A e \in Inodes \ {d, i} : t.entries[e] = s.entries[e]
         /\ t.entries[i] = <<>>
         /\ d # i => \/ t.entries[d] = s.entries[d]
                     \/ \E k \in Nat : \E name : FreesAt(s.entries[d], t.entries[d], k, name)
  BY DEF Shrunk
<1>2. /\ \A e \in Inodes \ {d, i} : BoundOf(t)[e] = BoundOf(s)[e]
      /\ BoundOf(t)[i] = NameSpaceOf!NoNames
  BY <1>1, BoundSame
<1>3. ASSUME NEW X, NEW Y, Y = [n \in DOMAIN X |-> X[n]]
      PROVE  NameSpaceOf!Without(X, {}) = Y
  BY <1>3 DEF NameSpaceOf!Without
<1>4. ASSUME d # i
      PROVE  \E gone \in {{}} \cup {{name} : name \in DOMAIN BoundOf(s)[d]} :
                BoundOf(t)[d] = NameSpaceOf!Without(BoundOf(s)[d], gone)
  <2>1. \A n \in {{}} : n = {}
    OBVIOUS
  <2>2. BoundOf(s)[d] = NameSpaceOf!Without(BoundOf(s)[d], {})
    <3>1. BoundOf(s)[d] = [n \in DOMAIN BoundOf(s)[d] |-> BoundOf(s)[d][n]]
      BY BoundFields
    <3> QED BY <3>1, <1>3
  <2>3. CASE t.entries[d] = s.entries[d]
    <3>1. BoundOf(t)[d] = BoundOf(s)[d]
      BY <2>3, BoundSame
    <3> QED BY <2>2, <3>1
  <2>4. ASSUME NEW k \in Nat, NEW name, FreesAt(s.entries[d], t.entries[d], k, name)
        PROVE  \E gone \in {{}} \cup {{n} : n \in DOMAIN BoundOf(s)[d]} :
                  BoundOf(t)[d] = NameSpaceOf!Without(BoundOf(s)[d], gone)
    <3> DEFINE freed == s.entries[d][k].name
               gone == {freed} \cap RowNames(s, d)
    <3>1. /\ k \in DOMAIN s.entries[d] /\ DOMAIN t.entries[d] = DOMAIN s.entries[d]
          /\ t.entries[d][k] = FreeEntry
          /\ \A l \in DOMAIN s.entries[d] : l # k => t.entries[d][l] = s.entries[d][l]
      BY <2>4 DEF FreesAt
    <3>2. FreeEntry.name \notin NAMES
      BY NamesOfPaths DEF FreeEntry, Entry
    <3>3. OnlyOnce(s.entries[d]) /\ OnlyOnce(t.entries[d])
      BY DEF Tidy
    <3>4. RowNames(t, d) = RowNames(s, d) \ gone
      <4>1. ASSUME NEW n, n \in RowNames(t, d) PROVE n \in RowNames(s, d) /\ n # freed
        <5>1. PICK l \in DOMAIN t.entries[d] : t.entries[d][l].name = n
          BY <4>1, RowNamesTyped
        <5>2. n \in NAMES
          BY <4>1, RowNamesTyped
        <5>3. l # k /\ l \in DOMAIN s.entries[d] /\ s.entries[d][l].name = n
          BY <3>1, <3>2, <5>1, <5>2
        <5>4. n # freed
          <6>1. ASSUME n = freed PROVE FALSE
            <7>1. s.entries[d][l] = FreeEntry
              BY <3>1, <3>3, <5>3, <6>1 DEF OnlyOnce
            <7> QED BY <3>2, <5>2, <5>3, <7>1
          <6> QED BY <6>1
        <5> QED BY <5>2, <5>3, <5>4, RowNamesTyped
      <4>2. ASSUME NEW n, n \in RowNames(s, d), n # freed PROVE n \in RowNames(t, d)
        <5>1. PICK l \in DOMAIN s.entries[d] : s.entries[d][l].name = n
          BY <4>2, RowNamesTyped
        <5>2. n \in NAMES
          BY <4>2, RowNamesTyped
        <5>3. l \in DOMAIN t.entries[d] /\ t.entries[d][l].name = n
          BY <3>1, <4>2, <5>1
        <5> QED BY <5>2, <5>3, RowNamesTyped
      <4> HIDE DEF freed
      <4> QED BY <4>1, <4>2
    <3>5. ASSUME NEW n \in RowNames(t, d) PROVE entry_find(t, d, n) = entry_find(s, d, n)
      <4>1. PICK l \in DOMAIN t.entries[d] : t.entries[d][l].name = n
        BY RowNamesTyped
      <4>2. n \in NAMES
        BY RowNamesTyped
      <4>3. l # k /\ l \in DOMAIN s.entries[d] /\ t.entries[d][l] = s.entries[d][l]
        BY <3>1, <3>2, <4>1, <4>2
      <4>4. entry_find(s, d, n) = s.entries[d][l].inode
        BY <3>3, <4>1, <4>2, <4>3, FindingOnce
      <4>5. entry_find(t, d, n) = t.entries[d][l].inode
        BY <3>3, <4>1, <4>2, FindingOnce
      <4> QED BY <4>3, <4>4, <4>5
    <3>6. BoundOf(t)[d] = NameSpaceOf!Without(BoundOf(s)[d], gone)
      <4> HIDE DEF gone
      <4>1. NameSpaceOf!Without(BoundOf(s)[d], gone)
              = [n \in RowNames(t, d) |-> BoundOf(s)[d][n]]
        BY <3>4, BoundFields DEF NameSpaceOf!Without
      <4>2. \A n \in RowNames(t, d) : BoundOf(s)[d][n] = entry_find(t, d, n)
        BY <3>4, <3>5, BoundFields
      <4> QED BY <4>1, <4>2, BoundFields
    <3>7. gone = {} \/ (gone = {freed} /\ freed \in DOMAIN BoundOf(s)[d])
      <4> HIDE DEF freed
      <4>1. DOMAIN BoundOf(s)[d] = RowNames(s, d)
        BY BoundFields
      <4>2. CASE freed \in RowNames(s, d)
        BY <4>1, <4>2
      <4>3. CASE freed \notin RowNames(s, d)
        <5>1. gone = {}
          BY <4>3
        <5> QED BY <5>1
      <4> QED BY <4>2, <4>3
    <3> HIDE DEF gone, freed
    <3> QED BY <3>6, <3>7
  <2> QED BY <1>1, <1>4, <2>3, <2>4
<1> QED BY <1>2, <1>4 DEF NameSpaceOf!Deleted, NameSpaceOf!Inodes, Inodes

(* The rows of entries implement the name space: the initial directories   *)
(* map to the initial functions, and each step to a creation, a deletion   *)
(* or a stutter.                                                           *)
THEOREM RowsImplementNameSpace == Spec => ImplementsNameSpace
<1>1. ASSUME Init PROVE NameSpaceOf!Init
  <2> DEFINE root == FS_ROOT_DIRECTORY_INODE
             dot == FS_DIRECTORY_CURRENT_DIR_NAME
             dotdot == FS_DIRECTORY_PARENT_DIR_NAME
  <2>1. State \in States /\ Tidy(State)
    BY <1>1, InitIInv, StateNow DEF IInv, Init
  <2>2. /\ entries[root] = FirstEntries(root, root)
        /\ \A d \in Inodes \ {root} : entries[d] = <<>>
    BY <1>1, NamesOfPaths DEF Init, FirstEntries
  <2> DEFINE first == FirstEntries(root, root)
  <2>3. /\ DOMAIN first = {1, 2} /\ first[1].name = dot /\ first[2].name = dotdot
        /\ first[1].inode = root /\ first[2].inode = root
    <3>1. /\ DOMAIN first = {1, 2}
          /\ first[1] = Entry(FS_DIRECTORY_CURRENT_DIR_NAME, root)
          /\ first[2] = Entry(FS_DIRECTORY_PARENT_DIR_NAME, root)
      BY FirstEntriesTyped, NamesOfPaths
    <3> HIDE DEF first
    <3> QED BY <3>1 DEF Entry
  <2>4. dot \in NAMES /\ dotdot \in NAMES
    BY NamesOfPaths
  <2> HIDE DEF first
  <2>5. RowNames(State, root) = {dot, dotdot}
    BY <2>2, <2>3, <2>4, StateNow, NamesOfPaths DEF RowNames, first
  <2>6. \A n \in {dot, dotdot} : entry_find(State, root, n) = root
    <3>1. /\ State.entries[root] = first /\ OnlyOnce(State.entries[root])
          /\ 1 \in DOMAIN first /\ 2 \in DOMAIN first
      <4>1. State.entries[root] = first
        BY <2>2, StateNow DEF first
      <4>2. OnlyOnce(State.entries[root])
        BY <2>1, NamesOfPaths DEF Tidy
      <4> QED BY <2>3, <4>1, <4>2
    <3>2. \A n \in NAMES : \A k \in DOMAIN State.entries[root] :
             State.entries[root][k].name = n
                => entry_find(State, root, n) = State.entries[root][k].inode
      <4>1. root \in Inodes
        BY NamesOfPaths
      <4> QED BY <2>1, <3>1, <4>1, FindingOnce
    <3>3. entry_find(State, root, dot) = first[1].inode
      BY <2>3, <2>4, <3>1, <3>2
    <3>4. entry_find(State, root, dotdot) = first[2].inode
      BY <2>3, <2>4, <3>1, <3>2
    <3> QED BY <2>3, <3>3, <3>4
  <2>7. BoundOf(State)[root] = [n \in {dot, dotdot} |-> root]
    BY <2>5, <2>6, BoundFields, NamesOfPaths
  <2>8. \A d \in Inodes \ {root} : BoundOf(State)[d] = NameSpaceOf!NoNames
    BY <2>2, BoundSame, StateNow
  <2>9. bound = BoundOf(State)
    BY StateNow DEF bound, BoundOf, RowNames
  <2>10. BoundOf(State) = [d \in Inodes |-> BoundOf(State)[d]]
    BY DEF BoundOf
  <2> QED BY <2>7, <2>8, <2>9, <2>10
          DEF NameSpaceOf!Init, NameSpaceOf!Inodes, Inodes, NameSpaceOf!Dot, NameSpaceOf!DotDot,
              NameSpaceOf!FS_ROOT_DIRECTORY_INODE, FS_ROOT_DIRECTORY_INODE,
              FS_DIRECTORY_CURRENT_DIR_NAME, FS_DIRECTORY_PARENT_DIR_NAME
<1>2. ASSUME IInv, [Next]_vars PROVE [sound' => NameSpaceOf!Next]_bound
  <2>1. IInv' /\ Changes(State, State')
    BY <1>2, NextKeeps
  <2>2. bound = BoundOf(State)
    BY StateNow DEF bound, BoundOf, RowNames
  <2>3. bound' = BoundOf(State')
    BY DEF bound, BoundOf, RowNames, State
  <2>4. SUFFICES ASSUME sound' PROVE bound' = bound \/ NameSpaceOf!Next
    OBVIOUS
  <2>5. /\ State \in States /\ State' \in States /\ State'.sound
        /\ Same(State, State') \/ Grown(State, State') \/ Shrunk(State, State')
        /\ Tidy(State) /\ Tidy(State')
    <3>1. State'.sound
      BY <2>4 DEF State
    <3> QED BY <1>2, <2>1, <2>4, <3>1, StateNow DEF IInv, Changes
  <2>6. CASE Same(State, State')
    <3>1. \A d \in Inodes : BoundOf(State')[d] = BoundOf(State)[d]
      BY <2>6, BoundSame DEF Same
    <3>2. /\ BoundOf(State) = [d \in Inodes |-> BoundOf(State)[d]]
          /\ BoundOf(State') = [d \in Inodes |-> BoundOf(State')[d]]
      BY DEF BoundOf
    <3> QED BY <2>2, <2>3, <3>1, <3>2
  <2>7. CASE Grown(State, State')
    <3>1. NameSpaceOf!Created(BoundOf(State), BoundOf(State'))
      BY <2>5, <2>7, GrownIsCreated
    <3> QED BY <2>2, <2>3, <3>1 DEF NameSpaceOf!Next
  <2>8. CASE Shrunk(State, State')
    <3>1. NameSpaceOf!Deleted(BoundOf(State), BoundOf(State'))
      BY <2>5, <2>8, ShrunkIsDeleted
    <3> QED BY <2>2, <2>3, <3>1 DEF NameSpaceOf!Next
  <2> QED BY <2>5, <2>6, <2>7, <2>8
<1> QED BY <1>1, <1>2, Invariance, PTL DEF Spec, ImplementsNameSpace

-----------------------------------------------------------------------------
(* The path in the prompt.  Rewriting a path goes through its segments, as *)
(* walking it does.                                                        *)
LEMMA NormalizeSteps ==
    ASSUME NEW path \in AllPaths, NEW behind, NEW names \in Seq(Normals), ~ ReadsPast(path, names)
    PROVE  LET n == Len(Segments(path))
           IN  \E w \in [0 .. n -> Seq(Normals)] :
                  /\ w[0] = IF IsAbsolute(path) THEN <<>> ELSE names
                  /\ \A k \in 0 .. n - 1 : w[k + 1] = Enter(w[k], Segments(path)[k + 1])
                  /\ normalize(path, names, behind) = w[n]
<1> DEFINE Segs == NAMES \cup {EmptySegment}
           all == Segments(path)
           n == Len(all)
           front == Front(all)
           start == IF IsAbsolute(path) THEN <<>> ELSE names
           last == Last(path)
<1>1. all \in Seq(Segs) /\ n \in Nat \ {0} /\ last \in Segs /\ \A k \in 1 .. n : all[k] \in Segs
  BY SegmentsTyped, ElementOfSeq, LenProperties
<1>2. last = all[n]
  <2>1. path \in Seq(Segs) /\ Len(path) \in Nat \ {0} /\ path # <<>>
    BY EmptySeq DEF AllPaths
  <2>2. CASE ~ IsAbsolute(path)
    BY <2>2 DEF Last, Segments
  <2>3. CASE IsAbsolute(path)
    <3>1. all = Tail(path) /\ Len(path) > 1
      BY <2>3 DEF Segments, IsAbsolute
    <3>2. n = Len(path) - 1 /\ \A i \in 1 .. Len(path) - 1 : all[i] = path[i + 1]
      BY <2>1, <3>1, HeadTailProperties
    <3>3. all[n] = path[Len(path)]
      <4> HIDE DEF n, all
      <4>1. n \in 1 .. Len(path) - 1 /\ n + 1 = Len(path)
        BY <2>1, <3>1, <3>2
      <4> QED BY <3>2, <4>1
    <3> QED BY <3>3 DEF Last
  <2> QED BY <2>2, <2>3
<1>3. /\ front \in Seq(Segs) /\ Len(front) = n - 1
      /\ \A i \in 1 .. n - 1 : front[i] = all[i]
  <2>1. \A i \in 1 .. n - 1 : all[i] \in Segs
    BY <1>1
  <2>2. 1 \in Int /\ n - 1 \in Int
    BY <1>1
  <2>3. /\ SubSeq(all, 1, n - 1) \in Seq(Segs)
        /\ Len(SubSeq(all, 1, n - 1)) = IF 1 <= n - 1 THEN (n - 1) - 1 + 1 ELSE 0
        /\ \A i \in 1 .. (n - 1) - 1 + 1 : SubSeq(all, 1, n - 1)[i] = all[1 + i - 1]
    <3> HIDE DEF Segs, n, all
    <3> QED BY <1>1, <2>1, <2>2, SubSeqProperties
  <2>4. front = SubSeq(all, 1, n - 1)
    BY DEF Front
  <2> HIDE DEF n, all, front, Segs
  <2> QED BY <1>1, <2>3, <2>4
<1>4. start \in Seq(Normals)
  <2>1. <<>> \in Seq(Normals)
    OBVIOUS
  <2> QED BY <2>1
<1>5. BeforeLast(path, names) = Walked(start, front)
  BY DEF BeforeLast
<1>6. normalize(path, names, behind) = Walked(Walked(start, front), <<last>>)
  BY <1>5 DEF normalize
<1> HIDE DEF n, all, front, start, last, Segs
<1>7. PICK v \in [0 .. n - 1 -> Seq(Normals)] :
         /\ v[0] = start
         /\ \A k \in 0 .. n - 1 - 1 : v[k + 1] = Enter(v[k], front[k + 1])
         /\ Walked(start, front) = v[n - 1]
  <2>1. front \in Seq(NAMES \cup {EmptySegment})
    BY <1>3 DEF Segs
  <2>2. \E v \in [0 .. Len(front) -> Seq(Normals)] :
           /\ v[0] = start
           /\ \A k \in 0 .. Len(front) - 1 : v[k + 1] = Enter(v[k], front[k + 1])
           /\ Walked(start, front) = v[Len(front)]
    BY <1>4, <2>1, WalkedSteps
  <2>3. Len(front) = n - 1
    BY <1>3
  <2> QED BY <2>2, <2>3
<1>8. v[n - 1] \in Seq(Normals)
  BY <1>1, <1>7
<1>9. normalize(path, names, behind) = Enter(v[n - 1], last)
  <2>1. <<last>> \in Seq(Segs) /\ Len(<<last>>) = 1 /\ <<last>>[1] = last
    BY <1>1
  <2>2. PICK u \in [0 .. 1 -> Seq(Normals)] :
           /\ u[0] = v[n - 1]
           /\ \A k \in 0 .. 1 - 1 : u[k + 1] = Enter(u[k], <<last>>[k + 1])
           /\ Walked(v[n - 1], <<last>>) = u[1]
    BY <1>8, <2>1, WalkedSteps DEF Segs
  <2>3. u[0 + 1] = Enter(u[0], <<last>>[0 + 1])
    BY <2>2
  <2> QED BY <1>6, <1>7, <2>1, <2>2, <2>3
<1> DEFINE w == [k \in 0 .. n |-> IF k = n THEN Enter(v[n - 1], last) ELSE v[k]]
<1>10. w \in [0 .. n -> Seq(Normals)]
  <2>1. Enter(v[n - 1], last) \in Seq(Normals)
    BY <1>1, <1>8, Entering DEF Segs
  <2>2. ASSUME NEW k \in 0 .. n, k # n PROVE v[k] \in Seq(Normals)
    <3>1. k \in 0 .. n - 1
      BY <1>1, <2>2
    <3> QED BY <3>1
  <2> QED BY <2>1, <2>2
<1>11. w[0] = start /\ w[n] = Enter(v[n - 1], last)
  BY <1>1, <1>7
<1>12. ASSUME NEW k \in 0 .. n - 1 PROVE w[k + 1] = Enter(w[k], all[k + 1])
  <2>1. k + 1 \in 0 .. n /\ k \in 0 .. n /\ k # n
    BY <1>1
  <2>2. w[k] = v[k]
    BY <2>1
  <2>3. CASE k = n - 1
    BY <1>1, <1>2, <1>11, <2>2, <2>3
  <2>4. CASE k # n - 1
    <3>1. k \in 0 .. n - 1 - 1 /\ k + 1 # n /\ k + 1 \in 1 .. n - 1
      BY <1>1, <2>4
    <3>2. w[k + 1] = v[k + 1] /\ front[k + 1] = all[k + 1]
      BY <1>3, <2>1, <3>1
    <3> HIDE DEF w
    <3> QED BY <1>7, <2>2, <3>1, <3>2
  <2> QED BY <2>3, <2>4
<1> HIDE DEF w
<1> QED BY <1>9, <1>10, <1>11, <1>12 DEF n, all, start

(* Where an absolute path leads depends on the entries alone.              *)
LEMMA WalkSame ==
    ASSUME NEW s \in States, NEW t \in States, s.entries = t.entries,
           NEW names \in Seq(Normals), NEW from \in Inodes, NEW start \in Inodes
    PROVE  path_to_inode(t, absolute(names), start).inode
             = path_to_inode(s, absolute(names), from).inode
<1> DEFINE n == Len(names)
           path == absolute(names)
           all == Segments(path)
<1>1. n \in Nat /\ path \in AllPaths /\ Length(path) = n /\ Start(path, from) = Start(path, start)
  BY LenProperties, AbsolutePaths, LengthOfNames
<1> HIDE DEF n, path, all
<1>2. PICK a \in [0 .. n -> Numbers] :
         /\ a[0] = Start(path, from)
         /\ \A k \in 0 .. n - 1 : a[k + 1] = Onward(s, a[k], all[k + 1])
         /\ path_to_inode(s, path, from).inode = a[n]
  BY <1>1, WalkSteps DEF all
<1>3. PICK b \in [0 .. n -> Numbers] :
         /\ b[0] = Start(path, start)
         /\ \A k \in 0 .. n - 1 : b[k + 1] = Onward(t, b[k], all[k + 1])
         /\ path_to_inode(t, path, start).inode = b[n]
  BY <1>1, WalkSteps DEF all
<1>4. \A d, name : Onward(s, d, name) = Onward(t, d, name)
  BY FindingAgain DEF Onward
<1>5. Walks(s, n, all, a) /\ Walks(s, n, all, b) /\ a[0] = b[0]
  BY <1>1, <1>2, <1>3, <1>4 DEF Walks
<1>6. a[n] = b[n]
  BY <1>1, <1>5, WalkIsOne
<1> QED BY <1>2, <1>3, <1>6 DEF path

LEMMA RootWalk ==
    ASSUME NEW s \in States, NEW from \in Inodes
    PROVE  path_to_inode(s, absolute(<<>>), from).inode = FS_ROOT_DIRECTORY_INODE
<1>1. <<>> \in Seq(Normals) /\ Len(<<>>) = 0
  OBVIOUS
<1>2. absolute(<<>>) \in AllPaths /\ Length(absolute(<<>>)) = 0
      /\ Start(absolute(<<>>), from) = FS_ROOT_DIRECTORY_INODE
  BY <1>1, AbsolutePaths, LengthOfNames
<1> QED BY <1>2, WalkSteps

(* One segment more: what is found leads where the rewritten path does.    *)
LEMMA OneStep ==
    ASSUME NEW s \in States, Tree(s), NEW from \in Inodes, NEW names \in Seq(Normals),
           NEW segment \in NAMES, NEW e \in Inodes,
           path_to_inode(s, absolute(names), from).inode = e,
           entry_find(s, e, segment) # FS_INODE_FAILURE
    PROVE  path_to_inode(s, absolute(Enter(names, segment)), from).inode = entry_find(s, e, segment)
<1>1. PICK k \in DOMAIN s.entries[e] :
         s.entries[e][k].name = segment /\ s.entries[e][k].inode = entry_find(s, e, segment)
  BY Finding
<1>2. CASE segment = FS_DIRECTORY_PARENT_DIR_NAME /\ names = <<>>
  <2>1. e = FS_ROOT_DIRECTORY_INODE /\ Enter(names, segment) = <<>>
    BY <1>2, RootWalk DEF Enter
  <2>2. entry_find(s, e, segment) = e
    BY <1>1, <1>2, <2>1 DEF Tree, Above
  <2> QED BY <2>1, <2>2, RootWalk
<1>3. CASE segment = FS_DIRECTORY_PARENT_DIR_NAME /\ names # <<>>
  <2> DEFINE front == SubSeq(names, 1, Len(names) - 1)
             d == path_to_inode(s, absolute(front), from).inode
             last == names[Len(names)]
  <2>1. Enter(names, segment) = front
    BY <1>3 DEF Enter, Front
  <2>2. e = Onward(s, d, last)
    BY <1>3, LastStep
  <2>3. front \in Seq(Normals) /\ last \in Normals
    <3>1. Len(names) \in Nat \ {0} /\ \A i \in 1 .. Len(names) : names[i] \in Normals
      BY <1>3, EmptySeq, ElementOfSeq
    <3>2. 1 \in Int /\ Len(names) - 1 \in Int
      BY <3>1
    <3> QED BY <3>1, <3>2, SubSeqProperties
  <2>4. d \in Numbers
    BY <2>3, AbsolutePaths, PathTyped
  <2> HIDE DEF d, last, front
  <2>5. d \in Inodes /\ entry_find(s, d, last) = e /\ e # FS_INODE_FAILURE
    BY <2>2, <2>4, NamesOfPaths DEF Onward, Numbers
  <2>6. PICK l \in DOMAIN s.entries[d] : s.entries[d][l].name = last /\ s.entries[d][l].inode = e
    BY <2>5, Finding
  <2>7. Above(s, e, d)
    BY <2>3, <2>5, <2>6 DEF Tree, Below
  <2>8. entry_find(s, e, segment) = d
    BY <1>1, <1>3, <2>7 DEF Above
  <2> QED BY <2>1, <2>8 DEF d
<1>4. CASE segment = FS_DIRECTORY_CURRENT_DIR_NAME
  <2>1. Enter(names, segment) = names
    BY <1>4, NamesOfPaths DEF Enter
  <2>2. entry_find(s, e, segment) = e
    BY <1>1, <1>4 DEF Tree, Dots
  <2> QED BY <2>1, <2>2
<1>5. CASE segment \in Normals
  <2> DEFINE more == Append(names, segment)
             n == Len(names)
  <2>1. Enter(names, segment) = more
    BY <1>5, NamesOfPaths DEF Enter, Normals
  <2>2. /\ more \in Seq(Normals) /\ Len(more) = n + 1 /\ n \in Nat
        /\ \A i \in 1 .. n + 1 : more[i] = IF i = n + 1 THEN segment ELSE names[i]
    BY <1>5, AppendProperties, LenProperties
  <2>3. \A i \in 1 .. n : names[i] \in Normals
    BY ElementOfSeq
  <2> HIDE DEF more, n
  <2>4. /\ SubSeq(more, 1, n) \in Seq(Normals) /\ Len(SubSeq(more, 1, n)) = n
        /\ \A i \in 1 .. n : SubSeq(more, 1, n)[i] = names[i]
    <3>1. \A i \in 1 .. n : more[i] = names[i] /\ more[i] \in Normals
      BY <2>2, <2>3
    <3>2. 1 \in Int /\ n \in Int
      BY <2>2
    <3>3. /\ SubSeq(more, 1, n) \in Seq(Normals)
          /\ Len(SubSeq(more, 1, n)) = IF 1 <= n THEN n - 1 + 1 ELSE 0
          /\ \A i \in 1 .. n - 1 + 1 : SubSeq(more, 1, n)[i] = more[1 + i - 1]
      BY <2>2, <3>1, <3>2, SubSeqProperties
    <3> QED BY <2>2, <3>1, <3>3
  <2>5. SubSeq(more, 1, n) = names
    BY <2>4, SeqEqual DEF n
  <2>6. more # <<>> /\ more[n + 1] = segment
    BY <2>2
  <2>7. path_to_inode(s, absolute(more), from).inode
          = Onward(s, path_to_inode(s, absolute(SubSeq(more, 1, Len(more) - 1)), from).inode,
                   more[Len(more)])
    BY <2>2, <2>6, LastStep
  <2>8. Len(more) - 1 = n
    BY <2>2
  <2>9. path_to_inode(s, absolute(more), from).inode = Onward(s, e, segment)
    BY <2>2, <2>5, <2>6, <2>7, <2>8
  <2> QED BY <2>1, <2>9, NamesOfPaths DEF Onward
<1> QED BY <1>2, <1>3, <1>4, <1>5 DEF Normals

(* How far a plain path is walked: to its end, or to the empty segment     *)
(* that it ends with.                                                      *)
LEMMA PlainLength ==
    ASSUME NEW path \in AllPaths, Plain(path)
    PROVE  LET n == Len(Segments(path))
               m == Length(path)
           IN  /\ n \in Nat \ {0} /\ m \in Nat
               /\ \/ m = n
                  \/ m = n - 1 /\ Segments(path)[n] = EmptySegment
               /\ \A k \in 1 .. m : Segments(path)[k] \in NAMES
<1> DEFINE all == Segments(path)
           n == Len(all)
           m == Length(path)
           ends == {k \in DOMAIN all : all[k] = EmptySegment}
<1>1. /\ n \in Nat \ {0} /\ DOMAIN all = 1 .. n
      /\ \A k \in 1 .. n : all[k] \in NAMES \cup {EmptySegment}
  BY SegmentsTyped, ElementOfSeq, LenProperties
<1>2. path \in Seq(NAMES \cup {EmptySegment}) /\ Len(path) \in Nat \ {0} /\ path # <<>>
  BY EmptySeq DEF AllPaths
<1>3. \A k \in 1 .. n - 1 : all[k] # EmptySegment
  <2>1. CASE IsAbsolute(path)
    <3>1. all = Tail(path) /\ Len(path) > 1
      BY <2>1 DEF Segments, IsAbsolute
    <3>2. n = Len(path) - 1 /\ \A i \in 1 .. Len(path) - 1 : all[i] = path[i + 1]
      BY <1>2, <3>1, HeadTailProperties
    <3> HIDE DEF n, all
    <3>3. ASSUME NEW k \in 1 .. n - 1 PROVE all[k] # EmptySegment
      <4>1. k + 1 \in 2 .. Len(path) - 1 /\ k \in 1 .. Len(path) - 1
        BY <1>2, <3>1, <3>2
      <4> QED BY <3>2, <4>1 DEF Plain
    <3> QED BY <3>3
  <2>2. CASE ~ IsAbsolute(path)
    <3>1. all = path
      BY <2>2 DEF Segments
    <3>2. ASSUME NEW k \in 1 .. Len(path) - 1 PROVE path[k] # EmptySegment
      <4>1. CASE k = 1
        <5>1. Len(path) > 1
          BY <1>2, <4>1
        <5> QED BY <2>2, <4>1, <5>1 DEF IsAbsolute
      <4>2. CASE k # 1
        <5>1. k \in 2 .. Len(path) - 1
          BY <1>2, <4>2
        <5> QED BY <5>1 DEF Plain
      <4> QED BY <4>1, <4>2
    <3> QED BY <3>1, <3>2
  <2> QED BY <2>1, <2>2
<1>4. m = IF ends = {} THEN n ELSE Min(ends) - 1
  BY DEF Length
<1>5. CASE ends = {}
  <2>1. m = n /\ \A k \in 1 .. n : all[k] # EmptySegment
    BY <1>1, <1>4, <1>5
  <2> HIDE DEF m, n, all
  <2>2. \A k \in 1 .. m : all[k] \in NAMES
    BY <1>1, <2>1
  <2> QED BY <1>1, <2>1, <2>2 DEF m, n, all
<1>6. CASE ends # {}
  <2>1. ends \subseteq Nat
    BY <1>1
  <2>2. Min(ends) \in ends
    BY <1>6, <2>1, LeastIndex
  <2>3. Min(ends) \in 1 .. n /\ all[Min(ends)] = EmptySegment
    BY <1>1, <2>2
  <2> HIDE DEF m, n, all, ends
  <2>4. Min(ends) = n
    <3>1. Min(ends) \notin 1 .. n - 1
      BY <1>3, <2>3
    <3> QED BY <1>1, <2>3, <3>1
  <2>5. m = n - 1 /\ all[n] = EmptySegment
    BY <1>4, <1>6, <2>3, <2>4
  <2>6. \A k \in 1 .. m : all[k] \in NAMES
    BY <1>1, <1>3, <2>5
  <2> QED BY <1>1, <2>5, <2>6 DEF m, n, all
<1> QED BY <1>5, <1>6

(* A plain path from the working directory is walked to where its          *)
(* rewriting leads.                                                        *)
LEMMA WalkFollowsNames ==
    ASSUME NEW s \in States, Tree(s), NEW from \in Inodes, NEW names \in Seq(Normals),
           path_to_inode(s, absolute(names), from).inode = from,
           NEW path \in AllPaths, NEW behind, Plain(path), ~ ReadsPast(path, names),
           path_to_inode(s, path, from).inode # FS_INODE_FAILURE
    PROVE  path_to_inode(s, absolute(normalize(path, names, behind)), from).inode
             = path_to_inode(s, path, from).inode
<1> DEFINE all == Segments(path)
           n == Len(all)
           m == Length(path)
           to(x) == path_to_inode(s, absolute(x), from).inode
<1>1. /\ n \in Nat \ {0} /\ m \in Nat /\ m \in 0 .. n
      /\ \/ m = n
         \/ m = n - 1 /\ all[n] = EmptySegment
      /\ \A k \in 1 .. m : all[k] \in NAMES
  BY PlainLength
<1>2. PICK at \in [0 .. m -> Numbers] :
         /\ at[0] = Start(path, from)
         /\ \A k \in 0 .. m - 1 : at[k + 1] = Onward(s, at[k], all[k + 1])
         /\ path_to_inode(s, path, from).inode = at[m]
  BY WalkSteps
<1>3. PICK w \in [0 .. n -> Seq(Normals)] :
         /\ w[0] = IF IsAbsolute(path) THEN <<>> ELSE names
         /\ \A k \in 0 .. n - 1 : w[k + 1] = Enter(w[k], all[k + 1])
         /\ normalize(path, names, behind) = w[n]
  BY NormalizeSteps
<1> DEFINE T == {k \in 0 .. m : at[k] = FS_INODE_FAILURE \/ to(w[k]) = at[k]}
<1> HIDE DEF n, m, all
<1>4. 0 \in T
  <2>1. CASE IsAbsolute(path)
    BY <1>1, <1>2, <1>3, <2>1, RootWalk DEF Start
  <2>2. CASE ~ IsAbsolute(path)
    BY <1>1, <1>2, <1>3, <2>2 DEF Start
  <2> QED BY <2>1, <2>2
<1>5. ASSUME NEW k \in 0 .. m - 1, k \in T PROVE k + 1 \in T
  <2>1. k + 1 \in 0 .. m /\ k + 1 \in 1 .. m /\ k \in 0 .. n - 1 /\ k \in 0 .. n /\ k \in 0 .. m
    BY <1>1
  <2>2. /\ at[k + 1] = Onward(s, at[k], all[k + 1]) /\ w[k + 1] = Enter(w[k], all[k + 1])
        /\ at[k] \in Numbers /\ w[k] \in Seq(Normals) /\ all[k + 1] \in NAMES
    BY <1>1, <1>2, <1>3, <2>1
  <2>3. at[k] = FS_INODE_FAILURE \/ to(w[k]) = at[k]
    BY <1>5
  <2>4. at[k + 1] = FS_INODE_FAILURE \/ to(w[k + 1]) = at[k + 1]
    <3>1. CASE at[k] = FS_INODE_FAILURE
      BY <2>2, <3>1 DEF Onward
    <3>2. CASE at[k] \in Inodes /\ to(w[k]) = at[k]
      <4>1. at[k + 1] = entry_find(s, at[k], all[k + 1])
        BY <2>2, <3>2, NamesOfPaths DEF Onward
      <4>2. at[k + 1] # FS_INODE_FAILURE => to(Enter(w[k], all[k + 1])) = at[k + 1]
        BY <2>2, <3>2, <4>1, OneStep
      <4> QED BY <2>2, <4>2
    <3> QED BY <2>2, <2>3, <3>1, <3>2 DEF Numbers
  <2> QED BY <2>1, <2>4
<1>6. at[m] # FS_INODE_FAILURE /\ to(w[m]) = at[m]
  <2>1. \A k \in 0 .. m : k \in T
    <3> HIDE DEF T
    <3> QED BY <1>1, <1>4, <1>5, UpTo
  <2>2. m \in 0 .. m
    BY <1>1
  <2> QED BY <1>2, <2>1, <2>2
<1>7. w[n] = w[m]
  <2>1. CASE m = n
    BY <2>1
  <2>2. CASE m = n - 1 /\ all[n] = EmptySegment
    <3>1. n - 1 \in 0 .. n - 1 /\ (n - 1) + 1 = n
      BY <1>1
    <3>2. w[(n - 1) + 1] = Enter(w[n - 1], all[(n - 1) + 1])
      BY <1>3, <3>1
    <3>3. Enter(w[n - 1], EmptySegment) = w[n - 1]
      BY NamesOfPaths DEF Enter
    <3> QED BY <2>2, <3>1, <3>2, <3>3
  <2> QED BY <1>1, <2>1, <2>2
<1> QED BY <1>2, <1>3, <1>6, <1>7

(* cd keeps the path in the prompt and the working directory together, for *)
(* any tree of directories and any plain path: the rewriting of a .. and   *)
(* the entry for it agree, because the .. of a directory that has a name   *)
(* is the directory it has it in.                                          *)
THEOREM PromptIsCwd == Spec => CdKeepsPath
<1>1. ASSUME IInv, NEW path \in InputPaths, NEW behind \in Tails(path),
             sound, exact, PathIsCwd, Plain(path), ~ ReadsPast(path, cwd_path),
             dir_change(path, behind)
      PROVE  PathIsCwd'
  <2> DEFINE to == path_to_inode(State, path, cwd)
             names == normalize(path, cwd_path, behind)
             s == get(State, to.got)
  <2>1. /\ to.inode # FS_INODE_FAILURE /\ cwd' = to.inode /\ cwd_path' = names /\ Become(s)
    BY <1>1 DEF dir_change
  <2>2. path \in AllPaths /\ behind \in AllPaths
    BY NamesOfPaths DEF Tails
  <2>3. /\ State \in States /\ Tree(State) /\ cwd \in Inodes /\ cwd_path \in Seq(Normals)
        /\ path_to_inode(State, absolute(cwd_path), cwd).inode = cwd
    BY <1>1 DEF IInv, PathIsCwd
  <2>4. path_to_inode(State, absolute(names), cwd).inode = to.inode
    BY <1>1, <2>1, <2>2, <2>3, WalkFollowsNames
  <2>5. names \in Seq(Normals) /\ to.inode \in Inodes
    BY <2>1, <2>2, <2>3, Normalizing, PathTyped DEF Numbers
  <2>6. State' \in States /\ State'.entries = State.entries
    <3>1. s \in States /\ s.entries = State.entries
      BY <2>3, Looking
    <3> QED BY <1>1, <2>1, <3>1, Becoming
  <2> HIDE DEF to, names, s
  <2>7. path_to_inode(State', absolute(names), to.inode).inode
          = path_to_inode(State, absolute(names), cwd).inode
    BY <2>3, <2>5, <2>6, WalkSame
  <2>8. path_to_inode(State', absolute(cwd_path'), cwd').inode = cwd'
    BY <2>1, <2>4, <2>7
  <2> QED BY <2>8 DEF PathIsCwd
<1>2. ASSUME IInv
      PROVE  \A path \in InputPaths : \A behind \in Tails(path) :
                /\ sound /\ exact /\ PathIsCwd
                /\ Plain(path) /\ ~ ReadsPast(path, cwd_path)
                /\ dir_change(path, behind)
                => PathIsCwd'
  BY <1>1, <1>2
<1> QED BY <1>2, Invariance, PTL DEF CdKeepsPath
=============================================================================

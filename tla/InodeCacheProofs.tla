-------------------------- MODULE InodeCacheProofs --------------------------
(***************************************************************************)
(* Proofs about the inode cache, for any number of inodes and any larger   *)
(* number of slots: until the hand leaves the cache or a free inode is     *)
(* looked up, no update is lost and no inode is cached twice.              *)
(*                                                                         *)
(* The calls of fs_inode.c take a state to a state, so each of them has a  *)
(* lemma: it keeps a coherent cache coherent, and the pointers the caller  *)
(* still holds good.  The commands are chains of such calls.               *)
(***************************************************************************)
EXTENDS InodeCache, FiniteSetTheorems, WellFoundedInduction, TLAPS

-----------------------------------------------------------------------------
(* A set of natural numbers has a least element: what replaces induction.  *)
LEMMA LeastElement ==
    ASSUME NEW T, T \subseteq Nat, T # {}
    PROVE  \E x \in T : \A y \in T : x <= y
<1> DEFINE R == OpToRel(<, Nat)
<1>1. IsWellFoundedOn(R, Nat)
  BY NatLessThanWellFounded
<1>2. \A x, y \in Nat : x < y => <<x, y>> \in R
  BY DEF OpToRel
<1> HIDE DEF R
<1>3. PICK x \in T : \A y \in T : ~ (<<y, x>> \in R)
  BY <1>1, WFMin
<1>4. ASSUME NEW y \in T PROVE x <= y
  <2>1. x \in Nat /\ y \in Nat
    OBVIOUS
  <2>2. ~ (y < x)
    BY <1>2, <1>3, <2>1
  <2> QED BY <2>1, <2>2
<1> QED BY <1>4

(* g starts at a and takes the steps F.                                    *)
Follows(g, a, F) == g[0] = a /\ \A n \in Nat : g[n + 1] = F[n][g[n]]

(* Recursion.  The steps are a function, so that there is one for every    *)
(* definition by recursion below: the initial parts of the function that   *)
(* is looked for agree with each other, and every one can be continued.    *)
LEMMA Recursion ==
    ASSUME NEW S, NEW a \in S, NEW F \in [Nat -> [S -> S]]
    PROVE  \E g \in [Nat -> S] : Follows(g, a, F)
<1> DEFINE Part(n) == {h \in [0 .. n -> S] :
                          h[0] = a /\ \A k \in 0 .. n - 1 : h[k + 1] = F[k][h[k]]}
<1>1. \A n \in Nat : \A h \in [0 .. n -> S] :
         h \in Part(n) <=> h[0] = a /\ \A k \in 0 .. n - 1 : h[k + 1] = F[k][h[k]]
  OBVIOUS
<1>2. \A n \in Nat : Part(n) \subseteq [0 .. n -> S]
  OBVIOUS
<1> HIDE DEF Part
<1>3. \A n \in Nat : Part(n) # {}
  <2> DEFINE T == {n \in Nat : Part(n) = {}}
  <2>1. SUFFICES ASSUME T # {} PROVE FALSE
    OBVIOUS
  <2>2. PICK n \in T : \A m \in T : n <= m
    BY <2>1, LeastElement
  <2>3. CASE n = 0
    <3> DEFINE h == [k \in 0 .. 0 |-> a]
    <3>1. h \in [0 .. 0 -> S] /\ h[0] = a /\ 0 .. 0 - 1 = {}
      OBVIOUS
    <3> HIDE DEF h
    <3>2. h \in Part(0)
      BY <1>1, <3>1
    <3> QED BY <2>3, <3>2
  <2>4. CASE n # 0
    <3>1. n - 1 \in Nat /\ n - 1 \notin T
      BY <2>2, <2>4
    <3>2. PICK h : h \in Part(n - 1)
      BY <3>1
    <3>3. /\ h \in [0 .. n - 1 -> S] /\ h[0] = a
          /\ \A k \in 0 .. n - 2 : h[k + 1] = F[k][h[k]]
      BY <1>1, <1>2, <3>1, <3>2
    <3> DEFINE c == [k \in 0 .. n |-> IF k = n THEN F[n - 1][h[n - 1]] ELSE h[k]]
    <3>4. c \in [0 .. n -> S]
      <4>1. n - 1 \in 0 .. n - 1
        BY <3>1
      <4>2. F[n - 1][h[n - 1]] \in S
        BY <3>1, <3>3, <4>1
      <4>3. \A k \in 0 .. n : k # n => h[k] \in S
        BY <3>3
      <4> QED BY <4>2, <4>3
    <3>5. c[0] = a
      BY <2>4, <3>3
    <3>6. \A k \in 0 .. n - 1 : c[k + 1] = F[k][c[k]]
      <4>1. SUFFICES ASSUME NEW k \in 0 .. n - 1 PROVE c[k + 1] = F[k][c[k]]
        OBVIOUS
      <4>2. c[k] = h[k]
        OBVIOUS
      <4>3. CASE k = n - 1
        BY <4>2, <4>3
      <4>4. CASE k # n - 1
        <5>1. k \in 0 .. n - 2 /\ k + 1 # n /\ k + 1 \in 0 .. n
          BY <4>4
        <5> QED BY <3>3, <4>2, <5>1
      <4> QED BY <4>3, <4>4
    <3> HIDE DEF c
    <3>7. c \in Part(n)
      BY <1>1, <3>4, <3>5, <3>6
    <3> QED BY <2>2, <3>7
  <2> QED BY <2>3, <2>4
<1>4. \A n \in Nat : \A m \in n .. n + 1 : \A h \in Part(n), c \in Part(m) : c[n] = h[n]
  <2>1. SUFFICES ASSUME NEW n \in Nat, NEW m \in n .. n + 1, NEW h \in Part(n), NEW c \in Part(m)
                 PROVE  c[n] = h[n]
    OBVIOUS
  <2>2. /\ m \in Nat /\ h[0] = a /\ c[0] = a
        /\ \A k \in 0 .. n - 1 : h[k + 1] = F[k][h[k]]
        /\ \A k \in 0 .. m - 1 : c[k + 1] = F[k][c[k]]
    BY <1>1, <1>2
  <2> DEFINE T == {k \in 0 .. n : c[k] # h[k]}
  <2>3. SUFFICES ASSUME T # {} PROVE FALSE
    OBVIOUS
  <2>4. PICK k \in T : \A j \in T : k <= j
    <3>1. T \subseteq Nat
      OBVIOUS
    <3> HIDE DEF T
    <3> QED BY <2>3, <3>1, LeastElement
  <2>5. k # 0
    BY <2>2, <2>4
  <2>6. k - 1 \in 0 .. n - 1 /\ k - 1 \in 0 .. m - 1 /\ k - 1 \notin T /\ (k - 1) + 1 = k
    BY <2>4, <2>5
  <2>7. c[k - 1] = h[k - 1]
    BY <2>6
  <2> QED BY <2>2, <2>4, <2>6, <2>7
<1> DEFINE part == [n \in Nat |-> CHOOSE h : h \in Part(n)]
           g == [n \in Nat |-> part[n][n]]
<1>5. \A n \in Nat : part[n] \in Part(n)
  BY <1>3
<1> HIDE DEF part
<1>6. g \in [Nat -> S]
  BY <1>2, <1>5
<1>7. g[0] = a
  <2>1. part[0] \in Part(0) /\ part[0] \in [0 .. 0 -> S]
    BY <1>2, <1>5
  <2>2. part[0][0] = a
    BY <1>1, <2>1
  <2> QED BY <2>2
<1>8. ASSUME NEW n \in Nat PROVE g[n + 1] = F[n][g[n]]
  <2>1. part[n + 1] \in Part(n + 1) /\ n + 1 \in Nat /\ n + 1 \in n .. n + 1 /\ n \in 0 .. n
    BY <1>5
  <2>2. part[n + 1][n] = part[n][n]
    BY <1>4, <1>5, <2>1
  <2>3. part[n + 1][n + 1] = F[n][part[n + 1][n]]
    <3>1. n \in 0 .. (n + 1) - 1 /\ part[n + 1] \in [0 .. n + 1 -> S]
      BY <1>2, <2>1
    <3> QED BY <1>1, <2>1, <3>1
  <2> QED BY <2>1, <2>2, <2>3
<1> HIDE DEF g
<1> QED BY <1>6, <1>7, <1>8 DEF Follows

-----------------------------------------------------------------------------
(* What the functions of fs_inode.c are given and return, sound or not.    *)
CacheEntries == [index : Inodes, size : Nat,
                 reference : BOOLEAN, dirty : BOOLEAN, valid : BOOLEAN]
Machines == [cache : [Slots -> CacheEntries], hand : 0 .. CACHE, table : [Inodes -> Nat],
             used : SUBSET Inodes, slot : Slots \cup {NoSlot}, sound : BOOLEAN]

(* The slots that hold inode i, and those in use.                          *)
Holds(s, k, i) == s.cache[k].valid /\ s.cache[k].index = i

(* The cache and the disk agree with the sizes c the inodes should have:   *)
(* what is cached is right, what is not is right on the disk, an entry     *)
(* that is not dirty is right in both, and what is not in use is zero, so  *)
(* that the next inode of that number starts right without being written.  *)
Coherent(s, c) ==
    /\ s.hand \in Slots
    /\ \A k, l \in Slots : s.cache[k].valid /\ s.cache[l].valid
                              /\ s.cache[k].index = s.cache[l].index => k = l
    /\ \A k \in Slots : s.cache[k].dirty => s.cache[k].valid
    /\ \A k \in Slots : s.cache[k].valid =>
           /\ s.cache[k].index \in s.used
           /\ s.cache[k].size = c[s.cache[k].index]
    /\ \A k \in Slots : s.cache[k].valid /\ ~ s.cache[k].dirty =>
           s.table[s.cache[k].index] = c[s.cache[k].index]
    /\ \A i \in Inodes : (\A k \in Slots : ~ Holds(s, k, i)) => s.table[i] = c[i]
    /\ \A i \in Inodes : i \notin s.used => c[i] = 0

(* The slots the hand passed on its way from h to m.                       *)
Passed(h, m) == IF h <= m THEN h .. m - 1 ELSE (h .. CACHE - 1) \cup (0 .. m - 1)

(* A pointer to slot k is still one to inode j, and stays one: the entry is*)
(* marked, or the hand took the mark when it went past and met only valid  *)
(* entries since.  Before it could come back all slots would be valid.     *)
Pinned(s, k, j) ==
    /\ Holds(s, k, j)
    /\ ~ s.cache[k].reference =>
          /\ s.hand # k
          /\ \A l \in Slots : l \in Passed(k, s.hand) => s.cache[l].valid

(* Nothing has been cached before the root directory is made.              *)
Fresh == /\ \A k \in Slots : ~ inode_cache[k].valid
         /\ FS_ROOT_DIRECTORY_INODE \in inode_bitmap
         /\ contents[FS_ROOT_DIRECTORY_INODE] = 0

(* The inductive invariant.                                                *)
IInv ==
    /\ State \in Machines
    /\ contents \in [Inodes -> Nat]
    /\ kept.inode \in Inodes
    /\ phase = "rmdir" => kept.slot \in Slots
    /\ sound => /\ Coherent(State, contents)
                /\ phase = "directory" => Fresh
                /\ phase = "rmdir" => Pinned(State, kept.slot, kept.inode)

-----------------------------------------------------------------------------
(* The two kinds of change to one entry of the cache.                      *)
LEMMA EntryChanges ==
    ASSUME NEW e \in CacheEntries, NEW v \in BOOLEAN
    PROVE  LET d == [e EXCEPT !.dirty = v]
               w == [e EXCEPT !.valid = v]
               r == [e EXCEPT !.reference = v]
           IN  /\ d \in CacheEntries /\ d.dirty = v /\ d.index = e.index
               /\ d.size = e.size /\ d.reference = e.reference /\ d.valid = e.valid
               /\ w \in CacheEntries /\ w.valid = v /\ w.index = e.index
               /\ w.size = e.size /\ w.reference = e.reference /\ w.dirty = e.dirty
               /\ r \in CacheEntries /\ r.reference = v /\ r.index = e.index
               /\ r.size = e.size /\ r.valid = e.valid /\ r.dirty = e.dirty
  BY DEF CacheEntries

(* What is asked of a state of the cache, field by field.                  *)
LEMMA MachineFields ==
    ASSUME NEW s \in Machines
    PROVE  /\ s.cache \in [Slots -> CacheEntries] /\ s.hand \in 0 .. CACHE
           /\ s.table \in [Inodes -> Nat] /\ s.used \in SUBSET Inodes
           /\ s.slot \in Slots \cup {NoSlot} /\ s.sound \in BOOLEAN
           /\ \A k \in Slots : s.cache[k] \in CacheEntries /\ s.cache[k].index \in Inodes
                                 /\ s.cache[k].size \in Nat /\ s.cache[k].dirty \in BOOLEAN
                                 /\ s.cache[k].valid \in BOOLEAN
                                 /\ s.cache[k].reference \in BOOLEAN
  BY DEF Machines, CacheEntries

LEMMA SlotsAndInodes ==
    /\ CACHE \in Nat \ {0} /\ INODES \in Nat \ {0} /\ CACHE > INODES /\ MaxSize \in Nat
    /\ 0 \in Slots /\ CACHE - 1 \in Slots /\ CACHE \notin Slots /\ NoSlot \notin Slots
    /\ \A k \in Slots : k \in Nat /\ k < CACHE
    /\ \A k \in Nat : k < CACHE => k \in Slots
    /\ FS_ROOT_DIRECTORY_INODE \in Inodes
  BY CacheAssumption, SizeAssumption DEF Slots, Inodes, NoSlot, FS_ROOT_DIRECTORY_INODE

(* An entry is written to the disk if it is dirty, and is clean then.      *)
LEMMA Flushing ==
    ASSUME NEW s \in Machines, NEW k \in Slots
    PROVE  LET t == entry_flush(s, k)
           IN  /\ t \in Machines
               /\ t.hand = s.hand /\ t.used = s.used /\ t.slot = s.slot /\ t.sound = s.sound
               /\ \A l \in Slots : l # k => t.cache[l] = s.cache[l]
               /\ t.cache[k].index = s.cache[k].index /\ t.cache[k].size = s.cache[k].size
               /\ t.cache[k].valid = s.cache[k].valid /\ t.cache[k].dirty = FALSE
               /\ t.cache[k].reference = s.cache[k].reference
               /\ s.cache[k].dirty =>
                    t.table = [s.table EXCEPT ![s.cache[k].index] = s.cache[k].size]
               /\ ~ s.cache[k].dirty => t.table = s.table
<1> DEFINE e == s.cache[k]
           d == [e EXCEPT !.dirty = FALSE]
           t == entry_flush(s, k)
<1>1. k # CACHE
  BY SlotsAndInodes
<1>2. CASE ~ e.dirty
  <2>1. t = s
    BY <1>2 DEF entry_flush
  <2>2. e.dirty = FALSE
    BY <1>2, MachineFields
  <2> QED BY <1>2, <2>1, <2>2
<1>3. CASE e.dirty
  <2>1. t = [s EXCEPT !.table = [s.table EXCEPT ![e.index] = e.size],
                      !.cache = [s.cache EXCEPT ![k] = d]]
    BY <1>1, <1>3 DEF entry_flush
  <2>2. e \in CacheEntries /\ e.index \in Inodes /\ e.size \in Nat
    BY MachineFields
  <2>3. /\ d \in CacheEntries /\ d.dirty = FALSE /\ d.index = e.index
        /\ d.size = e.size /\ d.reference = e.reference /\ d.valid = e.valid
    BY <2>2, EntryChanges
  <2> HIDE DEF d, t
  <2>4. [s.table EXCEPT ![e.index] = e.size] \in [Inodes -> Nat]
    BY <2>2, MachineFields
  <2>5. [s.cache EXCEPT ![k] = d] \in [Slots -> CacheEntries]
    BY <2>3, MachineFields
  <2>6. /\ t.table = [s.table EXCEPT ![e.index] = e.size]
        /\ t.cache = [s.cache EXCEPT ![k] = d]
        /\ t.hand = s.hand /\ t.used = s.used /\ t.slot = s.slot /\ t.sound = s.sound
    BY <2>1 DEF Machines
  <2>7. t \in Machines
    BY <2>1, <2>4, <2>5 DEF Machines
  <2>8. t.cache[k] = d /\ \A l \in Slots : l # k => t.cache[l] = s.cache[l]
    BY <2>6, MachineFields
  <2> QED BY <1>3, <2>3, <2>6, <2>7, <2>8, Zenon DEF t
<1> QED BY <1>2, <1>3

(* It is written and leaves the cache.                                     *)
LEMMA Dropping ==
    ASSUME NEW s \in Machines, NEW k \in Slots
    PROVE  LET t == drop(s, k)
           IN  /\ t \in Machines
               /\ t.hand = s.hand /\ t.used = s.used /\ t.slot = s.slot /\ t.sound = s.sound
               /\ \A l \in Slots : l # k => t.cache[l] = s.cache[l]
               /\ t.cache[k].valid = FALSE /\ t.cache[k].dirty = FALSE
               /\ s.cache[k].dirty =>
                    t.table = [s.table EXCEPT ![s.cache[k].index] = s.cache[k].size]
               /\ ~ s.cache[k].dirty => t.table = s.table
<1> DEFINE f == entry_flush(s, k)
           e == f.cache[k]
           w == [e EXCEPT !.valid = FALSE]
           t == drop(s, k)
<1>1. k # CACHE
  BY SlotsAndInodes
<1>2. /\ f \in Machines
      /\ f.hand = s.hand /\ f.used = s.used /\ f.slot = s.slot /\ f.sound = s.sound
      /\ \A l \in Slots : l # k => f.cache[l] = s.cache[l]
      /\ f.cache[k].dirty = FALSE
      /\ s.cache[k].dirty =>
           f.table = [s.table EXCEPT ![s.cache[k].index] = s.cache[k].size]
      /\ ~ s.cache[k].dirty => f.table = s.table
  BY Flushing
<1>3. t = [f EXCEPT !.cache = [f.cache EXCEPT ![k] = w]]
  BY <1>1 DEF drop
<1> HIDE DEF f
<1>4. f.cache[k] \in CacheEntries /\ f.cache \in [Slots -> CacheEntries]
  BY <1>2, MachineFields
<1>5. w \in CacheEntries /\ w.valid = FALSE /\ w.dirty = FALSE
  BY <1>2, <1>4, EntryChanges
<1> HIDE DEF w, t
<1>6. [f.cache EXCEPT ![k] = w] \in [Slots -> CacheEntries]
  BY <1>4, <1>5
<1>7. /\ t.cache = [f.cache EXCEPT ![k] = w] /\ t.table = f.table
      /\ t.hand = f.hand /\ t.used = f.used /\ t.slot = f.slot /\ t.sound = f.sound
      /\ t \in Machines
  BY <1>2, <1>3, <1>6 DEF Machines
<1>8. t.cache[k] = w /\ \A l \in Slots : l # k => t.cache[l] = f.cache[l]
  BY <1>4, <1>7
<1> QED BY <1>2, <1>5, <1>7, <1>8, Zenon DEF f, t

(* An entry that was referenced loses the mark, and the hand goes on.      *)
LEMMA Unmarking ==
    ASSUME NEW s \in Machines, s.hand \in Slots,
           s.cache[s.hand].valid, s.cache[s.hand].reference
    PROVE  LET t == entry_evict(s)
               k == s.hand
           IN  /\ t \in Machines /\ t.hand = (k + 1) % CACHE
               /\ t.used = s.used /\ t.slot = s.slot /\ t.sound = s.sound /\ t.table = s.table
               /\ \A l \in Slots : l # k => t.cache[l] = s.cache[l]
               /\ t.cache[k].valid = TRUE /\ t.cache[k].dirty = s.cache[k].dirty
               /\ t.cache[k].index = s.cache[k].index /\ t.cache[k].size = s.cache[k].size
<1> DEFINE k == s.hand
           e == s.cache[k]
           r == [e EXCEPT !.reference = FALSE]
           h == (k + 1) % CACHE
           t == entry_evict(s)
<1>1. k # CACHE
  BY SlotsAndInodes
<1>2. t = [s EXCEPT !.cache = [s.cache EXCEPT ![k] = r], !.hand = h]
  BY <1>1 DEF entry_evict
<1>3. e \in CacheEntries /\ s.cache \in [Slots -> CacheEntries] /\ e.valid = TRUE
  BY MachineFields
<1>4. /\ r \in CacheEntries /\ r.valid = TRUE /\ r.dirty = e.dirty
      /\ r.index = e.index /\ r.size = e.size
  BY <1>3, EntryChanges
<1>5. h \in 0 .. CACHE
  BY SlotsAndInodes
<1> HIDE DEF r, h, t
<1>6. [s.cache EXCEPT ![k] = r] \in [Slots -> CacheEntries]
  BY <1>3, <1>4
<1>7. /\ t.cache = [s.cache EXCEPT ![k] = r] /\ t.table = s.table /\ t.hand = h
      /\ t.used = s.used /\ t.slot = s.slot /\ t.sound = s.sound
      /\ t \in Machines
  BY <1>2, <1>5, <1>6 DEF Machines
<1>8. t.cache[k] = r /\ \A l \in Slots : l # k => t.cache[l] = s.cache[l]
  BY <1>3, <1>7
<1> QED BY <1>4, <1>7, <1>8, Zenon DEF t, h

(* One that was not is dropped, and the hand may leave the cache.          *)
LEMMA Evicting ==
    ASSUME NEW s \in Machines, s.hand \in Slots,
           s.cache[s.hand].valid, ~ s.cache[s.hand].reference
    PROVE  LET t == entry_evict(s)
               k == s.hand
           IN  /\ t \in Machines /\ t.hand = k + 1 /\ t.slot = k /\ t.used = s.used
               /\ t.sound = (s.sound /\ k + 1 < CACHE)
               /\ \A l \in Slots : l # k => t.cache[l] = s.cache[l]
               /\ t.cache[k].valid = FALSE /\ t.cache[k].dirty = FALSE
               /\ s.cache[k].dirty =>
                    t.table = [s.table EXCEPT ![s.cache[k].index] = s.cache[k].size]
               /\ ~ s.cache[k].dirty => t.table = s.table
<1> DEFINE k == s.hand
           d == drop(s, k)
           v == s.sound /\ k + 1 < CACHE
           t == entry_evict(s)
<1>1. k # CACHE /\ k + 1 \in 0 .. CACHE
  BY SlotsAndInodes
<1>2. t = [d EXCEPT !.hand = k + 1, !.slot = k, !.sound = v]
  BY <1>1 DEF entry_evict
<1>3. /\ d \in Machines /\ d.used = s.used
      /\ \A l \in Slots : l # k => d.cache[l] = s.cache[l]
      /\ d.cache[k].valid = FALSE /\ d.cache[k].dirty = FALSE
      /\ s.cache[k].dirty =>
            d.table = [s.table EXCEPT ![s.cache[k].index] = s.cache[k].size]
      /\ ~ s.cache[k].dirty => d.table = s.table
  BY Dropping
<1>4. v \in BOOLEAN
  OBVIOUS
<1> HIDE DEF d, v, t
<1>5. /\ t.cache = d.cache /\ t.table = d.table /\ t.hand = k + 1 /\ t.slot = k
      /\ t.used = d.used
  BY <1>2, <1>3 DEF Machines
<1>6. t.sound = v
  <2>1. \A x \in Machines : \A n, m, b : [x EXCEPT !.hand = n, !.slot = m, !.sound = b].sound = b
    BY DEF Machines
  <2>2. [d EXCEPT !.hand = k + 1, !.slot = k, !.sound = v].sound = v
    BY <1>3, <2>1
  <2> QED BY <1>2, <2>2
<1>7. t \in Machines
  <2>1. \A x \in Machines, n \in 0 .. CACHE, m \in Slots, b \in BOOLEAN :
           [x EXCEPT !.hand = n, !.slot = m, !.sound = b] \in Machines
    BY DEF Machines
  <2> QED BY <1>1, <1>2, <1>3, <1>4, <2>1
<1> QED BY <1>3, <1>5, <1>6, <1>7, Zenon DEF t, v

(* One look, whatever it finds.                                            *)
LEMMA LookTyped ==
    ASSUME NEW s \in Machines
    PROVE  entry_evict(s) \in Machines /\ (entry_evict(s).sound => s.sound)
<1>1. s.hand \in Slots \/ s.hand = CACHE
  <2>1. s.hand \in 0 .. CACHE
    BY MachineFields
  <2> QED BY <2>1, SlotsAndInodes
<1>2. CASE s.hand = CACHE \/ ~ s.cache[s.hand].valid
  BY <1>2 DEF entry_evict
<1>3. CASE s.hand \in Slots /\ s.cache[s.hand].valid
  BY <1>3, Unmarking, Evicting
<1> QED BY <1>1, <1>2, <1>3

-----------------------------------------------------------------------------
(* The looks of fs_inode_cache_evict, one after the other, until one finds *)
(* an entry to give away.                                                  *)
OneLook(t) == IF t.slot # NoSlot THEN t ELSE entry_evict(t)

LEMMA LookSteps ==
    ASSUME NEW s \in Machines
    PROVE  \E looks :
              /\ looks[0] = [s EXCEPT !.slot = NoSlot]
              /\ \A i \in 0 .. CACHE : looks[i] \in Machines /\ (looks[i].sound => s.sound)
              /\ \A i \in 0 .. CACHE - 1 : looks[i + 1] = OneLook(looks[i])
              /\ evict(s) = IF looks[CACHE].slot # NoSlot THEN looks[CACHE]
                            ELSE take(looks[CACHE])
<1> DEFINE base == [s EXCEPT !.slot = NoSlot]
           n == CACHE
           Good(t) == t = [i \in 0 .. CACHE |->
                             IF i = 0 THEN base
                             ELSE IF t[i - 1].slot # NoSlot THEN t[i - 1]
                                  ELSE entry_evict(t[i - 1])]
           F == [k \in Nat |-> [x \in Machines |-> OneLook(x)]]
           c == CHOOSE t : Good(t)
<1>1. base \in Machines /\ base.sound = s.sound
  <2>1. \A x \in Machines : [x EXCEPT !.slot = NoSlot].sound = x.sound
    BY DEF Machines
  <2>2. base \in Machines
    BY DEF Machines
  <2> QED BY <2>1, <2>2
<1>2. evict(s) = IF c[CACHE].slot # NoSlot THEN c[CACHE] ELSE take(c[CACHE])
  BY DEF evict
<1>3. n \in Nat
  BY SlotsAndInodes
<1> HIDE DEF base, c
<1>4. \A x \in Machines : OneLook(x) \in Machines /\ (OneLook(x).sound => x.sound)
  BY LookTyped DEF OneLook
<1>5. PICK g \in [Nat -> Machines] : Follows(g, base, F)
  <2>1. F \in [Nat -> [Machines -> Machines]]
    BY <1>4
  <2> HIDE DEF F
  <2> QED BY <1>1, <2>1, Recursion
<1>6. g[0] = base /\ \A k \in Nat : g[k + 1] = OneLook(g[k])
  BY <1>5 DEF Follows
<1> DEFINE t == [i \in 0 .. n |-> g[i]]
<1>7. Good(t)
  <2>1. ASSUME NEW i \in 0 .. n
        PROVE  t[i] = IF i = 0 THEN base ELSE OneLook(t[i - 1])
    <3>1. CASE i # 0
      <4>1. i - 1 \in Nat /\ (i - 1) + 1 = i /\ i - 1 \in 0 .. n
        BY <1>3, <3>1
      <4>2. t[i] = g[i] /\ t[i - 1] = g[i - 1]
        BY <4>1
      <4> HIDE DEF t
      <4> QED BY <1>6, <3>1, <4>1, <4>2
    <3> QED BY <1>3, <1>6, <3>1
  <2>2. t = [i \in 0 .. n |-> t[i]]
    OBVIOUS
  <2> HIDE DEF t
  <2> QED BY <2>1, <2>2 DEF OneLook
<1> HIDE DEF t
<1>8. Good(c)
  BY <1>7 DEF c
<1>9. \A i \in 0 .. n : c[i] = IF i = 0 THEN base ELSE OneLook(c[i - 1])
  BY <1>8 DEF OneLook
<1> HIDE DEF Good
<1>10. c[0] = base /\ \A i \in 0 .. n - 1 : c[i + 1] = OneLook(c[i])
  <2>1. 0 \in 0 .. n
    BY <1>3
  <2>2. ASSUME NEW i \in 0 .. n - 1 PROVE c[i + 1] = OneLook(c[i])
    <3>1. i + 1 \in 0 .. n /\ i + 1 # 0 /\ (i + 1) - 1 = i
      BY <1>3
    <3> QED BY <1>9, <3>1
  <2> QED BY <1>9, <2>1, <2>2
<1> DEFINE T == {i \in 0 .. n : ~ (c[i] \in Machines /\ (c[i].sound => s.sound))}
<1>11. T = {}
  <2>1. SUFFICES ASSUME T # {} PROVE FALSE
    OBVIOUS
  <2>2. PICK i \in T : \A j \in T : i <= j
    <3>1. T \subseteq Nat
      OBVIOUS
    <3> HIDE DEF T
    <3> QED BY <2>1, <3>1, LeastElement
  <2>3. i # 0
    BY <1>1, <1>10, <2>2
  <2>4. i - 1 \in 0 .. n - 1 /\ (i - 1) + 1 = i /\ i - 1 \in 0 .. n /\ i \in Nat
    BY <1>3, <2>2, <2>3
  <2>5. i - 1 \notin T
    BY <2>2, <2>4
  <2>6. c[i - 1] \in Machines /\ (c[i - 1].sound => s.sound) /\ c[i] = OneLook(c[i - 1])
    <3>1. c[(i - 1) + 1] = OneLook(c[i - 1])
      BY <1>10, <2>4
    <3> QED BY <2>4, <2>5, <3>1
  <2>7. c[i] \in Machines /\ (c[i].sound => s.sound)
    BY <1>4, <2>6
  <2> QED BY <2>2, <2>7
<1>12. \A i \in 0 .. n : c[i] \in Machines /\ (c[i].sound => s.sound)
  BY <1>11
<1> QED BY <1>2, <1>10, <1>12 DEF base

(* The entry under the hand is taken.                                      *)
LEMMA Taking ==
    ASSUME NEW s \in Machines
    PROVE  LET t == take(s)
           IN  /\ t \in Machines /\ t.slot \in Slots /\ t.sound = s.sound
               /\ s.hand \in Slots =>
                    /\ t.slot = s.hand /\ t.hand \in Slots /\ t.used = s.used
                    /\ t.hand = (s.hand + 1) % CACHE
                    /\ t.cache = drop(s, s.hand).cache /\ t.table = drop(s, s.hand).table
<1> DEFINE d == drop(s, s.hand)
           h == IF s.hand + 1 >= CACHE THEN s.hand + 1 - CACHE ELSE s.hand + 1
           k == IF s.hand + 1 >= CACHE THEN CACHE - 1 ELSE s.hand
           t == take(s)
<1>1. t = [d EXCEPT !.hand = h, !.slot = k]
  BY DEF take
<1>2. d \in Machines /\ d.sound = s.sound /\ d.used = s.used
  <2>1. s.hand \in 0 .. CACHE
    BY MachineFields
  <2>2. CASE s.hand = CACHE
    BY <2>2 DEF drop
  <2>3. CASE s.hand # CACHE
    <3>1. s.hand \in Slots
      BY <2>1, <2>3, SlotsAndInodes
    <3> QED BY <3>1, Dropping
  <2> QED BY <2>2, <2>3
<1>3. h \in 0 .. CACHE /\ k \in Slots
  <2>1. s.hand \in 0 .. CACHE
    BY MachineFields
  <2> QED BY <2>1, SlotsAndInodes
<1>4. s.hand \in Slots => k = s.hand /\ h \in Slots /\ h = (s.hand + 1) % CACHE
  <2>1. SUFFICES ASSUME s.hand \in Slots
                 PROVE  k = s.hand /\ h \in Slots /\ h = (s.hand + 1) % CACHE
    OBVIOUS
  <2>2. s.hand \in Nat /\ s.hand < CACHE /\ CACHE \in Nat \ {0}
    BY <2>1, SlotsAndInodes
  <2>3. CASE s.hand + 1 >= CACHE
    BY <2>2, <2>3, SlotsAndInodes
  <2>4. CASE ~ (s.hand + 1 >= CACHE)
    BY <2>2, <2>4, SlotsAndInodes
  <2> QED BY <2>3, <2>4
<1> HIDE DEF d, h, k, t
<1>5. /\ t \in Machines /\ t.slot = k /\ t.hand = h /\ t.used = d.used
      /\ t.cache = d.cache /\ t.table = d.table
  BY <1>1, <1>2, <1>3 DEF Machines
<1>6. t.sound = d.sound
  <2>1. \A x \in Machines : \A m, n : [x EXCEPT !.hand = m, !.slot = n].sound = x.sound
    BY DEF Machines
  <2> QED BY <1>1, <1>2, <2>1
<1> QED BY <1>2, <1>3, <1>4, <1>5, <1>6, Zenon DEF d, t

(* An eviction, whatever the state is.                                     *)
LEMMA EvictTyped ==
    ASSUME NEW s \in Machines
    PROVE  /\ evict(s) \in Machines /\ evict(s).slot \in Slots
           /\ evict(s).sound => s.sound
<1>1. PICK looks :
         /\ looks[0] = [s EXCEPT !.slot = NoSlot]
         /\ \A i \in 0 .. CACHE : looks[i] \in Machines /\ (looks[i].sound => s.sound)
         /\ \A i \in 0 .. CACHE - 1 : looks[i + 1] = OneLook(looks[i])
         /\ evict(s) = IF looks[CACHE].slot # NoSlot THEN looks[CACHE]
                       ELSE take(looks[CACHE])
  BY LookSteps
<1> DEFINE t == looks[CACHE]
<1>2. t \in Machines /\ (t.sound => s.sound)
  <2>1. CACHE \in 0 .. CACHE
    BY SlotsAndInodes
  <2> QED BY <1>1, <2>1
<1>3. CASE t.slot # NoSlot
  <2>1. t.slot \in Slots
    BY <1>2, <1>3, MachineFields
  <2> QED BY <1>1, <1>2, <1>3, <2>1
<1>4. CASE t.slot = NoSlot
  BY <1>1, <1>2, <1>4, Taking
<1> QED BY <1>3, <1>4

-----------------------------------------------------------------------------
(* How many slots the hand passed on its way from h to m.                  *)
Walked(h, m) == IF h <= m THEN m - h ELSE m - h + CACHE

LEMMA HandGoesOn ==
    ASSUME NEW h \in Slots, NEW m \in Slots, NEW z \in Slots, z # m, z \notin Passed(h, m)
    PROVE  LET n == (m + 1) % CACHE
           IN  /\ n \in Slots
               /\ Passed(h, n) = Passed(h, m) \cup {m}
               /\ Walked(h, n) = Walked(h, m) + 1
<1>1. /\ h \in Nat /\ m \in Nat /\ z \in Nat /\ h < CACHE /\ m < CACHE /\ z < CACHE
      /\ CACHE \in Nat \ {0}
  BY SlotsAndInodes
<1>2. CASE m + 1 < CACHE
  <2>1. (m + 1) % CACHE = m + 1
    BY <1>1, <1>2
  <2>2. m + 1 # h
    BY <1>1 DEF Passed
  <2>3. m + 1 \in Slots
    BY <1>1, <1>2 DEF Slots
  <2>4. Passed(h, m + 1) = Passed(h, m) \cup {m}
    BY <1>1, <1>2, <2>2 DEF Passed
  <2>5. Walked(h, m + 1) = Walked(h, m) + 1
    BY <1>1, <1>2, <2>2 DEF Walked
  <2> QED BY <2>1, <2>3, <2>4, <2>5
<1>3. CASE m + 1 = CACHE
  <2>1. (m + 1) % CACHE = 0
    BY <1>1, <1>3
  <2>2. h # 0
    BY <1>1, <1>3 DEF Passed
  <2>3. Passed(h, 0) = Passed(h, m) \cup {m}
    BY <1>1, <1>3, <2>2 DEF Passed
  <2>4. Walked(h, 0) = Walked(h, m) + 1
    BY <1>1, <1>3, <2>2 DEF Walked
  <2> QED BY <2>1, <2>3, <2>4, SlotsAndInodes
<1> QED BY <1>1, <1>2, <1>3

(* Nothing but the mark of an entry changed.                               *)
Alike(s, t, l) ==
    /\ t.cache[l].valid = s.cache[l].valid /\ t.cache[l].dirty = s.cache[l].dirty
    /\ t.cache[l].index = s.cache[l].index /\ t.cache[l].size = s.cache[l].size

(* What the hand does on its way to slot t.slot, from s to t: it takes the *)
(* marks of the valid entries it passes, and those of no other, and stops  *)
(* behind the slot.                                                        *)
Passes(s, t) ==
    /\ t.sound => t.hand = (t.slot + 1) % CACHE
    /\ \A l \in Slots : l \in Passed(s.hand, t.slot) => s.cache[l].valid
    /\ \A l \in Slots : l \notin Passed(s.hand, t.slot) /\ l # t.slot =>
          t.cache[l].reference = s.cache[l].reference

(* Slot t.slot was emptied, from s to t, and nothing else was.             *)
Emptied(s, t) ==
    /\ Passes(s, t)
    /\ t.slot \in Slots /\ t.used = s.used /\ (t.sound => t.hand \in Slots)
    /\ \A l \in Slots : l # t.slot => Alike(s, t, l)
    /\ t.cache[t.slot].valid = FALSE /\ t.cache[t.slot].dirty = FALSE
    /\ s.cache[t.slot].valid => ~ s.cache[t.slot].reference
    /\ s.cache[t.slot].dirty =>
          t.table = [s.table EXCEPT ![s.cache[t.slot].index] = s.cache[t.slot].size]
    /\ ~ s.cache[t.slot].dirty => t.table = s.table

(* The looks have not found an entry yet: all that the hand passed were    *)
(* valid, and what it has still to pass is as it was.                      *)
Searching(s, t) ==
    /\ t.hand \in Slots /\ t.used = s.used /\ t.table = s.table
    /\ \A l \in Slots : Alike(s, t, l)
    /\ \A l \in Slots : l \notin Passed(s.hand, t.hand) =>
          t.cache[l].reference = s.cache[l].reference
    /\ \A l \in Slots : l \in Passed(s.hand, t.hand) => s.cache[l].valid

LEMMA LookAtInvalid ==
    ASSUME NEW t \in Machines, ~ t.cache[t.hand].valid
    PROVE  OneLook(t) = t
  BY DEF OneLook, entry_evict

LEMMA LookAtMarked ==
    ASSUME NEW s \in Machines, NEW t \in Machines, s.hand \in Slots,
           NEW z \in Slots, ~ s.cache[z].valid, Searching(s, t), t.slot = NoSlot,
           t.cache[t.hand].valid, t.cache[t.hand].reference
    PROVE  LET u == OneLook(t)
           IN  /\ u.slot = NoSlot /\ Searching(s, u)
               /\ Walked(s.hand, u.hand) = Walked(s.hand, t.hand) + 1
<1> DEFINE k == t.hand
           h == s.hand
           u == entry_evict(t)
<1>1. OneLook(t) = u
  BY DEF OneLook
<1>2. /\ k \in Slots /\ t.used = s.used /\ t.table = s.table
      /\ \A l \in Slots : Alike(s, t, l)
      /\ \A l \in Slots : l \notin Passed(h, k) => t.cache[l].reference = s.cache[l].reference
      /\ \A l \in Slots : l \in Passed(h, k) => s.cache[l].valid
  BY DEF Searching
<1>3. /\ u.hand = (k + 1) % CACHE
      /\ u.used = t.used /\ u.slot = t.slot /\ u.table = t.table
      /\ \A l \in Slots : l # k => u.cache[l] = t.cache[l]
      /\ u.cache[k].valid = TRUE /\ u.cache[k].dirty = t.cache[k].dirty
      /\ u.cache[k].index = t.cache[k].index /\ u.cache[k].size = t.cache[k].size
  BY <1>2, Unmarking
<1> HIDE DEF u
<1>4. t.cache[k].valid = TRUE /\ s.cache[k].valid
  <2>1. t.cache[k].valid \in BOOLEAN /\ s.cache[k].valid \in BOOLEAN
    BY <1>2, MachineFields
  <2>2. t.cache[k].valid = s.cache[k].valid
    BY <1>2 DEF Alike
  <2> QED BY <2>1, <2>2
<1>5. z # k /\ z \notin Passed(h, k)
  BY <1>2, <1>4
<1>6. /\ u.hand \in Slots /\ Passed(h, u.hand) = Passed(h, k) \cup {k}
      /\ Walked(h, u.hand) = Walked(h, k) + 1
  BY <1>2, <1>3, <1>5, HandGoesOn
<1>7. \A l \in Slots : Alike(s, u, l)
  <2>1. ASSUME NEW l \in Slots, l # k PROVE Alike(s, u, l)
    <3>1. Alike(s, t, l) /\ u.cache[l] = t.cache[l]
      BY <1>2, <1>3, <2>1
    <3> QED BY <3>1, Zenon DEF Alike
  <2>2. Alike(s, u, k)
    <3>1. Alike(s, t, k)
      BY <1>2
    <3> QED BY <1>3, <1>4, <3>1, Zenon DEF Alike
  <2> QED BY <2>1, <2>2
<1>8. \A l \in Slots : l \notin Passed(h, u.hand) => u.cache[l].reference = s.cache[l].reference
  <2>1. SUFFICES ASSUME NEW l \in Slots, l \notin Passed(h, u.hand)
                 PROVE  u.cache[l].reference = s.cache[l].reference
    OBVIOUS
  <2>2. l # k /\ l \notin Passed(h, k)
    BY <1>6, <2>1
  <2> QED BY <1>2, <1>3, <2>2, Zenon
<1>9. \A l \in Slots : l \in Passed(h, u.hand) => s.cache[l].valid
  BY <1>2, <1>4, <1>6
<1>10. Searching(s, u)
  BY <1>2, <1>3, <1>6, <1>7, <1>8, <1>9 DEF Searching
<1> QED BY <1>1, <1>3, <1>6, <1>10

LEMMA LookAtUnmarked ==
    ASSUME NEW s \in Machines, NEW t \in Machines, Searching(s, t), t.slot = NoSlot,
           t.cache[t.hand].valid, ~ t.cache[t.hand].reference
    PROVE  LET u == OneLook(t)
           IN  u.slot # NoSlot /\ Emptied(s, u)
<1> DEFINE k == t.hand
           u == entry_evict(t)
<1>1. OneLook(t) = u
  BY DEF OneLook
<1>2. /\ k \in Slots /\ t.used = s.used /\ t.table = s.table
      /\ \A l \in Slots : Alike(s, t, l)
      /\ k \notin Passed(s.hand, k) => t.cache[k].reference = s.cache[k].reference
  BY DEF Searching
<1>3. /\ u.hand = k + 1 /\ u.slot = k /\ u.used = t.used
      /\ u.sound = (t.sound /\ k + 1 < CACHE)
      /\ \A l \in Slots : l # k => u.cache[l] = t.cache[l]
      /\ u.cache[k].valid = FALSE /\ u.cache[k].dirty = FALSE
      /\ t.cache[k].dirty => u.table = [t.table EXCEPT ![t.cache[k].index] = t.cache[k].size]
      /\ ~ t.cache[k].dirty => u.table = t.table
  BY <1>2, Evicting
<1> HIDE DEF u
<1>4. k \notin Passed(s.hand, k)
  <2>1. k \in Nat /\ s.hand \in 0 .. CACHE /\ CACHE \in Nat
    BY <1>2, SlotsAndInodes, MachineFields
  <2> QED BY <2>1 DEF Passed
<1>5. ~ s.cache[k].reference
  BY <1>2, <1>4
<1>6. u.sound => u.hand \in Slots
  <2>1. k \in Nat
    BY <1>2, SlotsAndInodes
  <2>2. u.sound => k + 1 < CACHE
    BY <1>3, Zenon
  <2>3. k + 1 < CACHE => k + 1 \in Slots
    BY <2>1, SlotsAndInodes
  <2> QED BY <1>3, <2>2, <2>3, Zenon
<1>7. ASSUME NEW l \in Slots, l # k PROVE Alike(s, u, l)
  <2>1. Alike(s, t, l) /\ u.cache[l] = t.cache[l]
    BY <1>2, <1>3, <1>7
  <2> QED BY <2>1, Zenon DEF Alike
<1>8. /\ s.cache[k].dirty => u.table = [s.table EXCEPT ![s.cache[k].index] = s.cache[k].size]
      /\ ~ s.cache[k].dirty => u.table = s.table
  <2>1. Alike(s, t, k)
    BY <1>2
  <2> QED BY <1>2, <1>3, <2>1, Zenon DEF Alike
<1>9. k # NoSlot
  BY <1>2, SlotsAndInodes
<1>10. Passes(s, u)
  <2>1. u.sound => u.hand = (u.slot + 1) % CACHE
    <3>1. k \in Nat /\ (k + 1 < CACHE => (k + 1) % CACHE = k + 1)
      <4>1. k \in Nat /\ CACHE \in Nat \ {0}
        BY <1>2, SlotsAndInodes
      <4>2. \A a \in Nat, b \in Nat \ {0} : a + 1 < b => (a + 1) % b = a + 1
        OBVIOUS
      <4> HIDE DEF k
      <4> QED BY <4>1, <4>2
    <3>2. u.sound => k + 1 < CACHE
      BY <1>3, Zenon
    <3> HIDE DEF k
    <3> QED BY <1>3, <3>1, <3>2
  <2>2. \A l \in Slots : l \in Passed(s.hand, k) => s.cache[l].valid
    BY DEF Searching
  <2>3. \A l \in Slots : l \notin Passed(s.hand, k) => t.cache[l].reference = s.cache[l].reference
    BY DEF Searching
  <2>4. \A l \in Slots : l \notin Passed(s.hand, k) /\ l # k =>
           u.cache[l].reference = s.cache[l].reference
    BY <1>3, <2>3, Zenon
  <2> QED BY <1>3, <2>1, <2>2, <2>4, Zenon DEF Passes
<1>11. Emptied(s, u)
  BY <1>2, <1>3, <1>5, <1>6, <1>7, <1>8, <1>10, Zenon DEF Emptied
<1> QED BY <1>1, <1>3, <1>9, <1>11

(* After i looks: an entry was emptied, or the hand rests on an invalid    *)
(* one, or it went on with each look.                                      *)
Looked(s, t, i) ==
    /\ t.slot # NoSlot => Emptied(s, t)
    /\ t.slot = NoSlot =>
          /\ Searching(s, t)
          /\ ~ t.cache[t.hand].valid \/ Walked(s.hand, t.hand) = i

LEMMA NextLook ==
    ASSUME NEW s \in Machines, NEW t \in Machines, s.hand \in Slots, NEW i \in Nat,
           NEW z \in Slots, ~ s.cache[z].valid, Looked(s, t, i)
    PROVE  Looked(s, OneLook(t), i + 1)
<1>1. CASE t.slot # NoSlot
  <2>1. OneLook(t) = t
    BY <1>1 DEF OneLook
  <2> QED BY <1>1, <2>1 DEF Looked
<1>2. CASE t.slot = NoSlot
  <2>1. Searching(s, t) /\ (~ t.cache[t.hand].valid \/ Walked(s.hand, t.hand) = i)
    BY <1>2 DEF Looked
  <2>2. CASE ~ t.cache[t.hand].valid
    <3>1. OneLook(t) = t
      BY <2>2, LookAtInvalid
    <3> QED BY <1>2, <2>1, <2>2, <3>1 DEF Looked
  <2>3. CASE t.cache[t.hand].valid /\ t.cache[t.hand].reference
    <3>1. /\ OneLook(t).slot = NoSlot /\ Searching(s, OneLook(t))
          /\ Walked(s.hand, OneLook(t).hand) = Walked(s.hand, t.hand) + 1
      BY <1>2, <2>1, <2>3, LookAtMarked
    <3>2. Walked(s.hand, t.hand) = i
      BY <2>1, <2>3
    <3> QED BY <3>1, <3>2 DEF Looked
  <2>4. CASE t.cache[t.hand].valid /\ ~ t.cache[t.hand].reference
    <3>1. OneLook(t).slot # NoSlot /\ Emptied(s, OneLook(t))
      BY <1>2, <2>1, <2>4, LookAtUnmarked
    <3> QED BY <3>1 DEF Looked
  <2> QED BY <2>2, <2>3, <2>4
<1> QED BY <1>1, <1>2

(* As long as an entry is invalid, an eviction empties one entry, and none *)
(* that was used since the hand last passed it: the hand does not go round.*)
LEMMA EvictEmpties ==
    ASSUME NEW s \in Machines, s.hand \in Slots, NEW z \in Slots, ~ s.cache[z].valid,
           \A k \in Slots : s.cache[k].dirty => s.cache[k].valid
    PROVE  Emptied(s, evict(s))
<1>1. PICK looks :
         /\ looks[0] = [s EXCEPT !.slot = NoSlot]
         /\ \A i \in 0 .. CACHE : looks[i] \in Machines /\ (looks[i].sound => s.sound)
         /\ \A i \in 0 .. CACHE - 1 : looks[i + 1] = OneLook(looks[i])
         /\ evict(s) = IF looks[CACHE].slot # NoSlot THEN looks[CACHE]
                       ELSE take(looks[CACHE])
  BY LookSteps
<1> DEFINE n == CACHE
<1>2. n \in Nat \ {0}
  BY SlotsAndInodes
<1>3. Looked(s, looks[0], 0)
  <2> DEFINE b == looks[0]
  <2>1. /\ b.slot = NoSlot /\ b.hand = s.hand /\ b.used = s.used /\ b.table = s.table
        /\ b.cache = s.cache
    BY <1>1 DEF Machines
  <2> HIDE DEF b
  <2>2. s.hand \in Nat
    BY SlotsAndInodes
  <2>3. Passed(s.hand, b.hand) = {} /\ Walked(s.hand, b.hand) = 0
    BY <2>1, <2>2 DEF Passed, Walked
  <2>4. \A l \in Slots : Alike(s, b, l)
    BY <2>1, Zenon DEF Alike
  <2>5. Searching(s, b)
    BY <2>1, <2>3, <2>4 DEF Searching
  <2>6. Looked(s, b, 0)
    BY <2>1, <2>3, <2>5 DEF Looked
  <2> QED BY <2>6 DEF b
<1> DEFINE T == {i \in 0 .. n : ~ Looked(s, looks[i], i)}
<1>4. T = {}
  <2>1. SUFFICES ASSUME T # {} PROVE FALSE
    OBVIOUS
  <2>2. PICK i \in T : \A j \in T : i <= j
    <3>1. T \subseteq Nat
      OBVIOUS
    <3> HIDE DEF T
    <3> QED BY <2>1, <3>1, LeastElement
  <2>3. i # 0
    BY <1>3, <2>2
  <2>4. i - 1 \in 0 .. n - 1 /\ (i - 1) + 1 = i /\ i - 1 \in 0 .. n /\ i - 1 \in Nat
    BY <1>2, <2>2, <2>3
  <2>5. i - 1 \notin T
    BY <2>2, <2>4
  <2>6. Looked(s, looks[i - 1], i - 1)
    BY <2>4, <2>5
  <2>7. looks[i] = OneLook(looks[i - 1]) /\ looks[i - 1] \in Machines
    <3>1. looks[(i - 1) + 1] = OneLook(looks[i - 1])
      BY <1>1, <2>4
    <3> QED BY <1>1, <2>4, <3>1
  <2>8. Looked(s, looks[i], i)
    BY <2>4, <2>6, <2>7, NextLook
  <2> QED BY <2>2, <2>8
<1> DEFINE t == looks[n]
           k == t.hand
<1>5. Looked(s, t, n) /\ t \in Machines
  <2>1. n \in 0 .. n
    BY <1>2
  <2> QED BY <1>1, <1>4, <2>1
<1>6. evict(s) = IF t.slot # NoSlot THEN t ELSE take(t)
  BY <1>1
<1> HIDE DEF t
<1>7. CASE t.slot # NoSlot
  BY <1>5, <1>6, <1>7 DEF Looked
<1>8. CASE t.slot = NoSlot
  <2> DEFINE u == take(t)
             d == drop(t, k)
  <2>1. /\ k \in Slots /\ t.used = s.used /\ t.table = s.table
        /\ \A l \in Slots : Alike(s, t, l)
        /\ ~ t.cache[k].valid \/ Walked(s.hand, k) = n
        /\ \A l \in Slots : l \notin Passed(s.hand, k) =>
              t.cache[l].reference = s.cache[l].reference
        /\ \A l \in Slots : l \in Passed(s.hand, k) => s.cache[l].valid
    BY <1>5, <1>8 DEF Looked, Searching
  <2>2. Walked(s.hand, k) # n
    <3>1. k \in Nat /\ s.hand \in Nat /\ k < n /\ s.hand < n
      BY <2>1, SlotsAndInodes
    <3> QED BY <1>2, <3>1 DEF Walked
  <2>3. ~ s.cache[k].valid /\ ~ s.cache[k].dirty /\ ~ t.cache[k].dirty
    <3>1. ~ s.cache[k].valid
      BY <2>1, <2>2, Zenon DEF Alike
    <3>2. ~ s.cache[k].dirty
      BY <2>1, <3>1
    <3> QED BY <2>1, <3>1, <3>2, Zenon DEF Alike
  <2>4. /\ \A l \in Slots : l # k => d.cache[l] = t.cache[l]
        /\ d.cache[k].valid = FALSE /\ d.cache[k].dirty = FALSE
        /\ d.table = t.table
    <3>1. t \in Machines /\ k \in Slots /\ ~ t.cache[k].dirty
      BY <1>5, <2>1, <2>3
    <3> HIDE DEF k
    <3> QED BY <3>1, Dropping, Zenon
  <2>5. /\ u.slot = k /\ u.hand \in Slots /\ u.used = t.used /\ u.hand = (k + 1) % CACHE
        /\ u.cache = d.cache /\ u.table = d.table
    BY <1>5, <2>1, Taking
  <2> HIDE DEF u, d
  <2>6. ASSUME NEW l \in Slots, l # k PROVE Alike(s, u, l)
    <3>1. Alike(s, t, l) /\ u.cache[l] = t.cache[l]
      BY <2>1, <2>4, <2>5, <2>6
    <3> QED BY <3>1, Zenon DEF Alike
  <2>7. u.cache[k].valid = FALSE /\ u.cache[k].dirty = FALSE /\ u.table = s.table
    BY <2>1, <2>4, <2>5
  <2>8. Passes(s, u)
    <3>1. \A l \in Slots : l # k => u.cache[l] = t.cache[l]
      BY <2>4, <2>5
    <3>2. \A l \in Slots : l \notin Passed(s.hand, k) /\ l # k =>
             u.cache[l].reference = s.cache[l].reference
      BY <2>1, <3>1, Zenon
    <3> QED BY <2>1, <2>5, <3>2, Zenon DEF Passes
  <2>9. Emptied(s, u)
    BY <2>1, <2>3, <2>5, <2>6, <2>7, <2>8, Zenon DEF Emptied
  <2> QED BY <1>6, <1>8, <2>9 DEF u
<1> QED BY <1>7, <1>8

-----------------------------------------------------------------------------
(* There are more slots than inodes, and none is cached twice.             *)
LEMMA SomeSlotIsInvalid ==
    ASSUME NEW s \in Machines, NEW c, Coherent(s, c)
    PROVE  \E z \in Slots : ~ s.cache[z].valid
<1> DEFINE f == [k \in Slots |-> s.cache[k].index]
<1>1. SUFFICES ASSUME \A z \in Slots : s.cache[z].valid PROVE FALSE
  OBVIOUS
<1>2. f \in [Slots -> Inodes]
  BY MachineFields
<1>3. /\ IsFiniteSet(Slots) /\ Cardinality(Slots) = CACHE
      /\ IsFiniteSet(Inodes) /\ Cardinality(Inodes) = INODES
  <2>1. /\ IsFiniteSet(0 .. CACHE - 1) /\ Cardinality(0 .. CACHE - 1) = CACHE
        /\ IsFiniteSet(0 .. INODES - 1) /\ Cardinality(0 .. INODES - 1) = INODES
    <3>1. \A n \in Nat \ {0} : IsFiniteSet(0 .. n - 1) /\ Cardinality(0 .. n - 1) = n
      <4>1. SUFFICES ASSUME NEW n \in Nat \ {0}
                     PROVE  IsFiniteSet(0 .. n - 1) /\ Cardinality(0 .. n - 1) = n
        OBVIOUS
      <4> DEFINE m == n - 1
      <4>2. m \in Int /\ ~ (0 > m) /\ m - 0 + 1 = n
        OBVIOUS
      <4> HIDE DEF m
      <4>3. IsFiniteSet(0 .. m) /\ Cardinality(0 .. m) = m - 0 + 1
        BY <4>2, FS_Interval
      <4> QED BY <4>2, <4>3 DEF m
    <3> QED BY <3>1, SlotsAndInodes
  <2> QED BY <2>1 DEF Slots, Inodes
<1>4. Cardinality(Inodes) < Cardinality(Slots)
  BY <1>3, SlotsAndInodes
<1> HIDE DEF f
<1>5. PICK k, l \in Slots : k # l /\ f[k] = f[l]
  BY <1>2, <1>3, <1>4, FS_PigeonHole
<1>6. s.cache[k].index = s.cache[l].index
  BY <1>5 DEF f
<1> QED BY <1>1, <1>5, <1>6 DEF Coherent

(* Slot k was written back and is free, from s to t.                       *)
Cleared(s, t, k) ==
    /\ t.used = s.used
    /\ \A l \in Slots : l # k => Alike(s, t, l)
    /\ t.cache[k].valid = FALSE /\ t.cache[k].dirty = FALSE
    /\ s.cache[k].dirty => t.table = [s.table EXCEPT ![s.cache[k].index] = s.cache[k].size]
    /\ ~ s.cache[k].dirty => t.table = s.table

(* What a coherent cache promises of one slot and of one inode.            *)
LEMMA CoherentFacts ==
    ASSUME NEW s \in Machines, NEW c, Coherent(s, c)
    PROVE  /\ \A k \in Slots : s.cache[k].dirty => s.cache[k].valid
           /\ \A k \in Slots : s.cache[k].valid =>
                /\ s.cache[k].index \in Inodes /\ s.cache[k].index \in s.used
                /\ s.cache[k].size = c[s.cache[k].index]
                /\ ~ s.cache[k].dirty => s.table[s.cache[k].index] = c[s.cache[k].index]
           /\ \A k, l \in Slots : s.cache[k].valid /\ s.cache[l].valid
                                    /\ s.cache[k].index = s.cache[l].index => k = l
  BY MachineFields DEF Coherent

(* Writing back and dropping an entry keeps the cache coherent.            *)
LEMMA ClearingKeeps ==
    ASSUME NEW s \in Machines, NEW t \in Machines, NEW c, NEW k \in Slots,
           Coherent(s, c), Cleared(s, t, k), t.hand \in Slots
    PROVE  Coherent(t, c)
<1>1. \A l \in Slots : t.cache[l].valid => l # k /\ Alike(s, t, l) /\ s.cache[l].valid
  <2>1. SUFFICES ASSUME NEW l \in Slots, t.cache[l].valid
                 PROVE  l # k /\ Alike(s, t, l) /\ s.cache[l].valid
    OBVIOUS
  <2>2. l # k
    BY <2>1, Zenon DEF Cleared
  <2>3. Alike(s, t, l)
    BY <2>2 DEF Cleared
  <2> QED BY <2>1, <2>2, <2>3, Zenon DEF Alike
<1>2. \A l, m \in Slots : t.cache[l].valid /\ t.cache[m].valid
                            /\ t.cache[l].index = t.cache[m].index => l = m
  BY <1>1, CoherentFacts DEF Alike
<1>3. \A l \in Slots : t.cache[l].dirty => t.cache[l].valid
  <2>1. SUFFICES ASSUME NEW l \in Slots, t.cache[l].dirty PROVE t.cache[l].valid
    OBVIOUS
  <2>2. l # k
    BY <2>1, Zenon DEF Cleared
  <2>3. Alike(s, t, l)
    BY <2>2 DEF Cleared
  <2>4. s.cache[l].dirty => s.cache[l].valid
    BY CoherentFacts
  <2> QED BY <2>1, <2>3, <2>4, Zenon DEF Alike
<1>4. \A l \in Slots : t.cache[l].valid =>
         t.cache[l].index \in t.used /\ t.cache[l].size = c[t.cache[l].index]
  BY <1>1, CoherentFacts DEF Alike, Cleared
<1>5. \A i \in Inodes : s.cache[k].dirty /\ i # s.cache[k].index => t.table[i] = s.table[i]
  BY MachineFields DEF Cleared
<1>6. ~ s.cache[k].dirty => t.table = s.table
  BY DEF Cleared
<1>7. \A l \in Slots : t.cache[l].valid /\ ~ t.cache[l].dirty =>
         t.table[t.cache[l].index] = c[t.cache[l].index]
  <2>1. SUFFICES ASSUME NEW l \in Slots, t.cache[l].valid, ~ t.cache[l].dirty
                 PROVE  t.table[t.cache[l].index] = c[t.cache[l].index]
    OBVIOUS
  <2> DEFINE i == s.cache[l].index
  <2>2. l # k /\ Alike(s, t, l) /\ s.cache[l].valid
    BY <1>1, <2>1
  <2>3. ~ s.cache[l].dirty /\ t.cache[l].index = i
    BY <2>1, <2>2, Zenon DEF Alike
  <2>4. i \in Inodes /\ s.table[i] = c[i]
    BY <2>2, <2>3, CoherentFacts
  <2>5. s.cache[k].dirty => i # s.cache[k].index
    BY <2>2, CoherentFacts
  <2>6. t.table[i] = s.table[i]
    BY <1>5, <1>6, <2>4, <2>5
  <2> QED BY <2>3, <2>4, <2>6
<1>8. \A i \in Inodes : (\A l \in Slots : ~ Holds(t, l, i)) => t.table[i] = c[i]
  <2>1. SUFFICES ASSUME NEW i \in Inodes, \A l \in Slots : ~ Holds(t, l, i)
                 PROVE  t.table[i] = c[i]
    OBVIOUS
  <2>2. \A l \in Slots : l # k => ~ Holds(s, l, i)
    <3>1. SUFFICES ASSUME NEW l \in Slots, l # k PROVE ~ Holds(s, l, i)
      OBVIOUS
    <3>2. Alike(s, t, l) /\ ~ Holds(t, l, i)
      BY <2>1, <3>1 DEF Cleared
    <3> QED BY <3>2, Zenon DEF Alike, Holds
  <2>3. CASE Holds(s, k, i)
    <3>1. s.cache[k].valid /\ s.cache[k].index = i
      BY <2>3 DEF Holds
    <3>2. CASE s.cache[k].dirty
      <4>1. t.table[i] = s.cache[k].size
        BY <3>1, <3>2, MachineFields DEF Cleared
      <4> QED BY <3>1, <4>1, CoherentFacts
    <3>3. CASE ~ s.cache[k].dirty
      BY <1>6, <3>1, <3>3, CoherentFacts
    <3> QED BY <3>2, <3>3
  <2>4. CASE ~ Holds(s, k, i)
    <3>1. s.table[i] = c[i]
      BY <2>2, <2>4 DEF Coherent
    <3>2. s.cache[k].dirty => i # s.cache[k].index
      BY <2>4, CoherentFacts DEF Holds
    <3> QED BY <1>5, <1>6, <3>1, <3>2
  <2> QED BY <2>3, <2>4
<1>9. \A i \in Inodes : i \notin t.used => c[i] = 0
  BY DEF Coherent, Cleared
<1> QED BY <1>2, <1>3, <1>4, <1>7, <1>8, <1>9 DEF Coherent

LEMMA EvictKeeps ==
    ASSUME NEW s \in Machines, NEW c, Coherent(s, c), evict(s).sound
    PROVE  LET t == evict(s)
           IN  /\ Coherent(t, c) /\ t.used = s.used
               /\ t.cache[t.slot].valid = FALSE
               /\ \A l \in Slots : l # t.slot => Alike(s, t, l)
               /\ s.cache[t.slot].valid => ~ s.cache[t.slot].reference
               /\ Passes(s, t) /\ t.hand \in Slots
<1> DEFINE t == evict(s)
<1>1. t \in Machines /\ t.slot \in Slots
  BY EvictTyped
<1>2. PICK z \in Slots : ~ s.cache[z].valid
  BY SomeSlotIsInvalid
<1>3. Emptied(s, t)
  BY <1>2, EvictEmpties DEF Coherent
<1> HIDE DEF t
<1>4. t.sound
  BY DEF t
<1>5. Cleared(s, t, t.slot) /\ t.hand \in Slots
  BY <1>3, <1>4, Zenon DEF Emptied, Cleared
<1>6. Coherent(t, c)
  BY <1>1, <1>5, ClearingKeeps
<1>7. /\ t.used = s.used /\ t.cache[t.slot].valid = FALSE
      /\ \A l \in Slots : l # t.slot => Alike(s, t, l)
      /\ s.cache[t.slot].valid => ~ s.cache[t.slot].reference
      /\ Passes(s, t)
  BY <1>3, Zenon DEF Emptied
<1> QED BY <1>5, <1>6, <1>7 DEF t

(* The new entry for inode i.                                              *)
NewEntry(size, i) == [index |-> i, size |-> size, reference |-> TRUE,
                      dirty |-> FALSE, valid |-> TRUE]

LEMMA NewEntryTyped ==
    ASSUME NEW size \in Nat, NEW i \in Inodes
    PROVE  LET e == NewEntry(size, i)
           IN  /\ e \in CacheEntries /\ e.index = i /\ e.size = size
               /\ e.reference = TRUE /\ e.dirty = FALSE /\ e.valid = TRUE
  BY DEF NewEntry, CacheEntries

(* An entry is made where the eviction left room.                          *)
LEMMA Adding ==
    ASSUME NEW s \in Machines, NEW size \in Nat, NEW i \in Inodes
    PROVE  LET t == evict(s)
               u == cache_add(s, size, i)
           IN  /\ u \in Machines /\ u.slot \in Slots /\ (u.sound => s.sound)
               /\ u.hand = t.hand /\ u.table = t.table /\ u.used = t.used
               /\ u.slot = t.slot /\ u.sound = t.sound
               /\ \A l \in Slots : l # u.slot => u.cache[l] = t.cache[l]
               /\ u.cache[u.slot] = NewEntry(size, i)
<1> DEFINE t == evict(s)
           k == t.slot
           e == NewEntry(size, i)
           u == cache_add(s, size, i)
<1>1. t \in Machines /\ k \in Slots /\ (t.sound => s.sound)
  BY EvictTyped
<1>2. u = [t EXCEPT !.cache = [t.cache EXCEPT ![k] = e]]
  BY DEF cache_add, NewEntry
<1> HIDE DEF t, u
<1>3. e \in CacheEntries
  BY NewEntryTyped
<1> HIDE DEF e
<1>4. t.cache \in [Slots -> CacheEntries] /\ [t.cache EXCEPT ![k] = e] \in [Slots -> CacheEntries]
  BY <1>1, <1>3, MachineFields
<1>5. /\ u.cache = [t.cache EXCEPT ![k] = e] /\ u.table = t.table /\ u.hand = t.hand
      /\ u.used = t.used /\ u.slot = k /\ u \in Machines
  BY <1>1, <1>2, <1>4 DEF Machines
<1>6. u.sound = t.sound
  <2>1. \A x \in Machines : \A f : [x EXCEPT !.cache = f].sound = x.sound
    BY DEF Machines
  <2> QED BY <1>1, <1>2, <2>1
<1>7. u.cache[k] = e /\ \A l \in Slots : l # k => u.cache[l] = t.cache[l]
  BY <1>1, <1>4, <1>5
<1> QED BY <1>1, <1>5, <1>6, <1>7, Zenon DEF e, t, u

LEMMA AddedEntry ==
    ASSUME NEW s \in Machines, NEW size \in Nat, NEW i \in Inodes,
           NEW t, t = evict(s), NEW u, u = cache_add(s, size, i)
    PROVE  /\ u.hand = t.hand /\ u.slot = t.slot /\ (u.sound => t.sound)
           /\ \A l \in Slots : l # t.slot => u.cache[l] = t.cache[l]
<1>1. /\ u.hand = t.hand /\ u.slot = t.slot
      /\ \A l \in Slots : l # u.slot => u.cache[l] = t.cache[l]
  BY Adding, Zenon
<1>2. u.sound = t.sound
  <2>1. \A x \in Machines : \A f : [x EXCEPT !.cache = f].sound = x.sound
    BY DEF Machines
  <2>2. t \in Machines
    BY EvictTyped
  <2>3. \E f : u = [t EXCEPT !.cache = f]
    BY DEF cache_add
  <2> QED BY <2>1, <2>2, <2>3
<1> QED BY <1>1, <1>2, Zenon

(* A coherent cache with a free slot, and one that holds inode i there.    *)
LEMMA AddingKeeps ==
    ASSUME NEW t \in Machines, NEW u \in Machines, NEW c, NEW i \in Inodes, NEW k \in Slots,
           Coherent(t, c), t.cache[k].valid = FALSE,
           \A l \in Slots : ~ Holds(t, l, i), c[i] \in Nat,
           u.cache[k] = NewEntry(c[i], i), \A l \in Slots : l # k => u.cache[l] = t.cache[l],
           u.table = t.table, u.hand = t.hand, u.used = t.used \cup {i}
    PROVE  Coherent(u, c)
<1>1. /\ u.cache[k].index = i /\ u.cache[k].size = c[i]
      /\ u.cache[k].dirty = FALSE /\ u.cache[k].valid = TRUE
  <2> DEFINE n == c[i]
  <2>1. n \in Nat
    OBVIOUS
  <2> HIDE DEF n
  <2>2. NewEntry(n, i).index = i /\ NewEntry(n, i).size = n
        /\ NewEntry(n, i).dirty = FALSE /\ NewEntry(n, i).valid = TRUE
    BY <2>1, NewEntryTyped, Zenon
  <2>3. u.cache[k] = NewEntry(n, i)
    BY DEF n
  <2> QED BY <2>2, <2>3, Zenon DEF n
<1>2. t.table[i] = c[i]
  BY DEF Coherent
<1>3. \A l \in Slots : l # k /\ u.cache[l].valid => u.cache[l].index # i
  BY DEF Holds
<1>4. \A l, m \in Slots : u.cache[l].valid /\ u.cache[m].valid
                            /\ u.cache[l].index = u.cache[m].index => l = m
  <2>1. SUFFICES ASSUME NEW l \in Slots, NEW m \in Slots, u.cache[l].valid, u.cache[m].valid,
                        u.cache[l].index = u.cache[m].index
                 PROVE  l = m
    OBVIOUS
  <2>2. CASE l # k /\ m # k
    BY <2>1, <2>2, CoherentFacts
  <2>3. CASE l = k \/ m = k
    BY <1>1, <1>3, <2>1, <2>3
  <2> QED BY <2>2, <2>3
<1>5. ASSUME NEW l \in Slots
      PROVE  /\ u.cache[l].dirty => u.cache[l].valid
             /\ u.cache[l].valid => /\ u.cache[l].index \in u.used
                                    /\ u.cache[l].size = c[u.cache[l].index]
             /\ u.cache[l].valid /\ ~ u.cache[l].dirty =>
                  u.table[u.cache[l].index] = c[u.cache[l].index]
  <2>1. CASE l = k
    BY <1>1, <1>2, <2>1
  <2>2. CASE l # k
    BY <2>2, CoherentFacts
  <2> QED BY <2>1, <2>2
<1>6. \A j \in Inodes : (\A l \in Slots : ~ Holds(u, l, j)) => u.table[j] = c[j]
  <2>1. SUFFICES ASSUME NEW j \in Inodes, \A l \in Slots : ~ Holds(u, l, j)
                 PROVE  u.table[j] = c[j]
    OBVIOUS
  <2>2. \A l \in Slots : ~ Holds(t, l, j)
    <3>1. ASSUME NEW l \in Slots PROVE ~ Holds(t, l, j)
      <4>1. CASE l = k
        BY <4>1 DEF Holds
      <4>2. CASE l # k
        BY <2>1, <4>2 DEF Holds
      <4> QED BY <4>1, <4>2
    <3> QED BY <3>1
  <2> QED BY <2>2 DEF Coherent
<1>7. u.hand \in Slots /\ \A j \in Inodes : j \notin u.used => c[j] = 0
  BY DEF Coherent
<1> QED BY <1>4, <1>5, <1>6, <1>7 DEF Coherent

(* fs_inode_create_forced, in any state.                                   *)
LEMMA CreateTyped ==
    ASSUME NEW s \in Machines, NEW i \in Inodes
    PROVE  LET a == cache_add(s, 0, i)
               u == create_forced(s, i)
           IN  /\ u \in Machines /\ u.slot \in Slots /\ (u.sound => s.sound)
               /\ u.cache = a.cache /\ u.hand = a.hand /\ u.table = a.table
               /\ u.slot = a.slot /\ u.sound = a.sound /\ u.used = a.used \cup {i}
<1> DEFINE a == cache_add(s, 0, i)
           u == create_forced(s, i)
           v == a.used \cup {i}
<1>1. a \in Machines /\ a.slot \in Slots /\ (a.sound => s.sound)
  BY Adding
<1>2. u = [a EXCEPT !.used = v]
  BY DEF create_forced
<1> HIDE DEF a, u
<1>3. v \in SUBSET Inodes
  BY <1>1, MachineFields
<1> HIDE DEF v
<1>4. /\ u \in Machines /\ u.cache = a.cache /\ u.hand = a.hand /\ u.table = a.table
      /\ u.slot = a.slot /\ u.used = v
  BY <1>1, <1>2, <1>3 DEF Machines
<1>5. u.sound = a.sound
  <2>1. \A x \in Machines : \A w : [x EXCEPT !.used = w].sound = x.sound
    BY DEF Machines
  <2> QED BY <1>1, <1>2, <2>1
<1> QED BY <1>1, <1>4, <1>5, Zenon DEF a, u, v

(* It adds without a search: an inode that is not cached and should have   *)
(* the size 0, as it was left by its destruction.                          *)
LEMMA CreateKeeps ==
    ASSUME NEW s \in Machines, NEW i \in Inodes, NEW c, Coherent(s, c),
           create_forced(s, i).sound, \A k \in Slots : ~ Holds(s, k, i), c[i] = 0
    PROVE  LET u == create_forced(s, i)
           IN  Coherent(u, c) /\ u.used = s.used \cup {i} /\ Holds(u, u.slot, i)
<1> DEFINE t == evict(s)
           a == cache_add(s, 0, i)
           u == create_forced(s, i)
           k == t.slot
<1>1. /\ u \in Machines /\ u.cache = a.cache /\ u.hand = a.hand /\ u.table = a.table
      /\ u.slot = a.slot /\ (u.sound => a.sound) /\ u.used = a.used \cup {i}
  BY CreateTyped
<1>2. /\ a.hand = t.hand /\ a.table = t.table /\ a.used = t.used
      /\ a.slot = k /\ (a.sound => t.sound)
      /\ \A l \in Slots : l # k => a.cache[l] = t.cache[l]
      /\ a.cache[k] = NewEntry(0, i)
  <2>1. 0 \in Nat
    OBVIOUS
  <2> QED BY <2>1, Adding
<1>3. t \in Machines /\ k \in Slots
  BY EvictTyped
<1>4. t.sound
  BY <1>1, <1>2
<1>5. /\ Coherent(t, c) /\ t.used = s.used /\ t.cache[k].valid = FALSE
      /\ \A l \in Slots : l # k => Alike(s, t, l)
  BY <1>4, EvictKeeps
<1> HIDE DEF t, a, u
<1>6. ASSUME NEW l \in Slots PROVE ~ Holds(t, l, i)
  <2>1. CASE l = k
    BY <1>5, <2>1, Zenon DEF Holds
  <2>2. CASE l # k
    <3>1. Alike(s, t, l) /\ ~ Holds(s, l, i)
      BY <1>5, <2>2
    <3> QED BY <3>1, Zenon DEF Alike, Holds
  <2> QED BY <2>1, <2>2
<1>7. Coherent(u, c)
  <2>1. /\ u.cache[k] = NewEntry(c[i], i) /\ u.hand = t.hand /\ u.table = t.table
        /\ u.used = t.used \cup {i} /\ \A l \in Slots : l # k => u.cache[l] = t.cache[l]
    BY <1>1, <1>2, Zenon
  <2>2. c[i] \in Nat
    OBVIOUS
  <2> HIDE DEF k
  <2> QED BY <1>1, <1>3, <1>5, <1>6, <2>1, <2>2, AddingKeeps
<1>8. Holds(u, u.slot, i)
  <2>1. NewEntry(0, i).valid = TRUE /\ NewEntry(0, i).index = i
    <3>1. 0 \in Nat
      OBVIOUS
    <3> QED BY <3>1, NewEntryTyped
  <2>2. u.cache[u.slot] = NewEntry(0, i)
    BY <1>1, <1>2
  <2> QED BY <2>1, <2>2, Zenon DEF Holds
<1> QED BY <1>1, <1>2, <1>5, <1>7, <1>8 DEF u

(* fs_inode_get.  What it returns when the inode is in the cache.          *)
LEMMA CachedSlots ==
    ASSUME NEW s \in Machines, NEW i \in Inodes
    PROVE  /\ \A k \in Slots : k \in Cached(s, i) <=> Holds(s, k, i)
           /\ Cached(s, i) # {} => Min(Cached(s, i)) \in Cached(s, i)
<1>1. \A k \in Slots : k \in Cached(s, i) <=> Holds(s, k, i)
  BY DEF Cached, Holds
<1>2. ASSUME Cached(s, i) # {} PROVE Min(Cached(s, i)) \in Cached(s, i)
  <2> DEFINE T == Cached(s, i)
  <2>1. T \subseteq Nat
    BY SlotsAndInodes DEF Cached
  <2> HIDE DEF T
  <2>2. \E k \in T : \A l \in T : k <= l
    BY <1>2, <2>1, LeastElement DEF T
  <2>3. (CHOOSE k \in T : \A l \in T : k <= l) \in T
    BY <2>2
  <2> QED BY <2>3 DEF Min, T
<1> QED BY <1>1, <1>2

LEMMA GetHit ==
    ASSUME NEW s \in Machines, NEW i \in Inodes, Cached(s, i) # {}
    PROVE  LET t == get(s, i)
               k == Min(Cached(s, i))
           IN  /\ t \in Machines /\ t.slot = k /\ k \in Slots /\ Holds(s, k, i)
               /\ t.sound = (s.sound /\ i \in s.used)
               /\ t.hand = s.hand /\ t.table = s.table /\ t.used = s.used
               /\ \A l \in Slots : Alike(s, t, l)
               /\ t.cache[k].reference = TRUE
               /\ \A l \in Slots : l # k => t.cache[l] = s.cache[l]
<1> DEFINE k == Min(Cached(s, i))
           v == s.sound /\ i \in s.used
           e == s.cache[k]
           r == [e EXCEPT !.reference = TRUE]
           t == get(s, i)
<1>1. k \in Slots /\ Holds(s, k, i)
  <2>1. k \in Cached(s, i)
    BY CachedSlots
  <2>2. Cached(s, i) \subseteq Slots
    BY DEF Cached
  <2> QED BY <2>1, <2>2, CachedSlots
<1>2. t = [s EXCEPT !.sound = v, !.slot = k, !.cache = [s.cache EXCEPT ![k] = r]]
  <2>1. \A w : Cached([s EXCEPT !.sound = w], i) = Cached(s, i)
    BY DEF Cached, Machines
  <2>2. \A w : [s EXCEPT !.sound = w].cache = s.cache
    BY DEF Machines
  <2> QED BY <2>1, <2>2 DEF get, Machines
<1>3. e \in CacheEntries /\ s.cache \in [Slots -> CacheEntries]
  BY <1>1, MachineFields
<1>4. /\ r \in CacheEntries /\ r.reference = TRUE /\ r.index = e.index
      /\ r.size = e.size /\ r.valid = e.valid /\ r.dirty = e.dirty
  BY <1>3, EntryChanges
<1>5. v \in BOOLEAN
  OBVIOUS
<1> HIDE DEF k, v, r, t
<1>6. [s.cache EXCEPT ![k] = r] \in [Slots -> CacheEntries]
  BY <1>1, <1>3, <1>4
<1>7. /\ t.slot = k /\ t.cache = [s.cache EXCEPT ![k] = r] /\ t.hand = s.hand
      /\ t.table = s.table /\ t.used = s.used
  BY <1>2 DEF Machines
<1>8. t.sound = v /\ t \in Machines
  <2>1. \A x \in Machines : \A w, m, f : [x EXCEPT !.sound = w, !.slot = m, !.cache = f].sound = w
    BY DEF Machines
  <2>2. [s EXCEPT !.sound = v, !.slot = k, !.cache = [s.cache EXCEPT ![k] = r]].sound = v
    BY <2>1
  <2>3. \A x \in Machines, w \in BOOLEAN, m \in Slots, f \in [Slots -> CacheEntries] :
           [x EXCEPT !.sound = w, !.slot = m, !.cache = f] \in Machines
    BY DEF Machines
  <2> QED BY <1>1, <1>2, <1>5, <1>6, <2>2, <2>3
<1>9. t.cache[k] = r /\ \A l \in Slots : l # k => t.cache[l] = s.cache[l]
  BY <1>1, <1>3, <1>7
<1>10. ASSUME NEW l \in Slots PROVE Alike(s, t, l)
  <2>1. CASE l = k
    BY <1>4, <1>9, <2>1, Zenon DEF Alike
  <2>2. CASE l # k
    BY <1>9, <2>2, Zenon DEF Alike
  <2> QED BY <2>1, <2>2
<1> QED BY <1>1, <1>4, <1>7, <1>8, <1>9, <1>10, Zenon DEF k, v, t

(* The check that inode i is in use does not touch the cache.              *)
LEMMA Checked ==
    ASSUME NEW s \in Machines, NEW v \in BOOLEAN
    PROVE  LET t == [s EXCEPT !.sound = v]
           IN  /\ t \in Machines /\ t.cache = s.cache /\ t.hand = s.hand /\ t.table = s.table
               /\ t.used = s.used /\ t.slot = s.slot /\ t.sound = v
<1>1. \A x \in Machines : \A w : [x EXCEPT !.sound = w].sound = w
  BY DEF Machines
<1> QED BY <1>1 DEF Machines

LEMMA GetMiss ==
    ASSUME NEW s \in Machines, NEW i \in Inodes, Cached(s, i) = {}
    PROVE  LET v == [s EXCEPT !.sound = s.sound /\ i \in s.used]
               t == get(s, i)
           IN  t = cache_add(v, s.table[i], i)
<1> DEFINE w == s.sound /\ i \in s.used
           v == [s EXCEPT !.sound = w]
<1>1. v.table = s.table
  <2>1. w \in BOOLEAN
    OBVIOUS
  <2> HIDE DEF w
  <2> QED BY <2>1, Checked
<1>2. get(s, i) = cache_add(v, v.table[i], i)
  BY DEF get
<1> QED BY <1>1, <1>2

LEMMA GetTyped ==
    ASSUME NEW s \in Machines, NEW i \in Inodes
    PROVE  LET t == get(s, i)
           IN  t \in Machines /\ t.slot \in Slots /\ (t.sound => s.sound /\ i \in s.used)
<1> DEFINE w == s.sound /\ i \in s.used
           v == [s EXCEPT !.sound = w]
           t == get(s, i)
<1>1. CASE Cached(s, i) # {}
  <2>1. /\ t \in Machines /\ t.slot = Min(Cached(s, i)) /\ Min(Cached(s, i)) \in Slots
        /\ t.sound = w
    BY <1>1, GetHit
  <2> HIDE DEF t
  <2> QED BY <2>1 DEF t
<1>2. CASE Cached(s, i) = {}
  <2>1. v \in Machines /\ v.sound = w
    <3>1. w \in BOOLEAN
      OBVIOUS
    <3> HIDE DEF w
    <3> QED BY <3>1, Checked
  <2>2. t = cache_add(v, s.table[i], i)
    BY <1>2, GetMiss
  <2>3. s.table[i] \in Nat
    BY MachineFields
  <2> HIDE DEF v, t, w
  <2>4. t \in Machines /\ t.slot \in Slots /\ (t.sound => v.sound)
    BY <2>1, <2>2, <2>3, Adding
  <2>5. t.sound => w
    BY <2>1, <2>4
  <2> QED BY <2>4, <2>5 DEF t, w
<1> QED BY <1>1, <1>2

(* fs_inode_get returns the inode, keeps everything right, and takes no    *)
(* entry away that was used last: pointers to it stay good.                *)
LEMMA GetKeeps ==
    ASSUME NEW s \in Machines, NEW i \in Inodes, NEW c \in [Inodes -> Nat], Coherent(s, c),
           get(s, i).sound
    PROVE  LET t == get(s, i)
           IN  /\ Coherent(t, c) /\ t.used = s.used /\ i \in s.used /\ Holds(t, t.slot, i)
               /\ t.cache[t.slot].reference = TRUE
               /\ \A k \in Slots : Holds(s, k, i) => t.slot = k
               /\ \A k \in Slots, j \in Inodes :
                     Holds(s, k, j) /\ s.cache[k].reference => Holds(t, k, j)
<1> DEFINE t == get(s, i)
<1>1. t \in Machines /\ t.slot \in Slots /\ s.sound /\ i \in s.used
  BY GetTyped
<1>2. CASE Cached(s, i) # {}
  <2> DEFINE k == Min(Cached(s, i))
  <2>1. /\ t.slot = k /\ k \in Slots /\ Holds(s, k, i)
        /\ t.hand = s.hand /\ t.table = s.table /\ t.used = s.used
        /\ \A l \in Slots : Alike(s, t, l)
        /\ t.cache[k].reference = TRUE
    BY <1>2, GetHit
  <2> HIDE DEF k, t
  <2>2. \A l \in Slots, j \in Inodes : Holds(s, l, j) <=> Holds(t, l, j)
    <3>1. SUFFICES ASSUME NEW l \in Slots, NEW j \in Inodes
                   PROVE  Holds(s, l, j) <=> Holds(t, l, j)
      OBVIOUS
    <3>2. Alike(s, t, l)
      BY <2>1
    <3> QED BY <3>2, Zenon DEF Alike, Holds
  <2>3. \A l \in Slots : Holds(s, l, i) => l = k
    BY <2>1, CoherentFacts DEF Holds
  <2>4. Coherent(t, c)
    <3>1. \A l \in Slots : /\ t.cache[l].valid => s.cache[l].valid
                           /\ t.cache[l].dirty <=> s.cache[l].dirty
                           /\ s.cache[l].valid => t.cache[l].valid
                           /\ t.cache[l].index = s.cache[l].index
                           /\ t.cache[l].size = s.cache[l].size
      BY <2>1, Zenon DEF Alike
    <3>2. \A j \in Inodes : (\A l \in Slots : ~ Holds(t, l, j)) => t.table[j] = c[j]
      BY <2>1, <2>2 DEF Coherent
    <3> QED BY <2>1, <3>1, <3>2 DEF Coherent
  <2>5. Holds(t, t.slot, i)
    BY <2>1, <2>2
  <2>6. \A l \in Slots : Holds(s, l, i) => t.slot = l
    BY <2>1, <2>3
  <2> QED BY <1>1, <2>1, <2>2, <2>4, <2>5, <2>6 DEF t
<1>3. CASE Cached(s, i) = {}
  <2> DEFINE w == s.sound /\ i \in s.used
             v == [s EXCEPT !.sound = w]
             r == evict(v)
             k == r.slot
             n == s.table[i]
  <2>1. /\ v \in Machines /\ v.cache = s.cache /\ v.hand = s.hand /\ v.table = s.table
        /\ v.used = s.used
    <3>1. w \in BOOLEAN
      OBVIOUS
    <3> HIDE DEF w
    <3> QED BY <3>1, Checked
  <2>2. t = cache_add(v, n, i)
    BY <1>3, GetMiss
  <2> HIDE DEF v, w
  <2>3. Coherent(v, c) /\ \A l \in Slots, j \in Inodes : Holds(v, l, j) <=> Holds(s, l, j)
    BY <2>1 DEF Coherent, Holds
  <2>4. \A l \in Slots : ~ Holds(s, l, i)
    BY <1>3, CachedSlots
  <2>5. n = c[i] /\ n \in Nat
    BY <2>4 DEF Coherent
  <2>6. r \in Machines /\ k \in Slots
    BY <2>1, EvictTyped
  <2>7. /\ t.hand = r.hand /\ t.table = r.table /\ t.used = r.used
        /\ t.slot = k /\ (t.sound => r.sound)
        /\ \A l \in Slots : l # k => t.cache[l] = r.cache[l]
        /\ t.cache[k] = NewEntry(n, i)
    <3> HIDE DEF t, n
    <3> QED BY <2>1, <2>2, <2>5, Adding
  <2>8. r.sound
    BY <2>7
  <2>9. /\ Coherent(r, c) /\ r.used = v.used /\ r.cache[k].valid = FALSE
        /\ \A l \in Slots : l # k => Alike(v, r, l)
        /\ v.cache[k].valid => ~ v.cache[k].reference
    BY <2>1, <2>3, <2>8, EvictKeeps
  <2> HIDE DEF r, t, n
  <2>10. ASSUME NEW l \in Slots, l # k, NEW j \in Inodes
         PROVE  Holds(r, l, j) <=> Holds(s, l, j)
    <3>1. Alike(v, r, l) /\ (Holds(v, l, j) <=> Holds(s, l, j))
      BY <2>3, <2>9, <2>10
    <3> QED BY <3>1, Zenon DEF Alike, Holds
  <2>11. ASSUME NEW l \in Slots PROVE ~ Holds(r, l, i)
    <3>1. CASE l = k
      BY <2>9, <3>1, Zenon DEF Holds
    <3>2. CASE l # k
      BY <2>4, <2>10, <3>2
    <3> QED BY <3>1, <3>2
  <2>12. Coherent(t, c)
    <3>1. t.used = r.used \cup {i} /\ c[i] \in Nat /\ t.cache[k] = NewEntry(c[i], i)
      BY <1>1, <2>1, <2>5, <2>7, <2>9
    <3> HIDE DEF k
    <3>2. t \in Machines
      BY <1>1
    <3> QED BY <2>6, <2>7, <2>9, <2>11, <3>1, <3>2, AddingKeeps
  <2>13. t.cache[k].valid = TRUE /\ t.cache[k].index = i /\ t.cache[k].reference = TRUE
    <3>1. NewEntry(n, i).valid = TRUE /\ NewEntry(n, i).index = i
          /\ NewEntry(n, i).reference = TRUE
      BY <2>5, NewEntryTyped
    <3> QED BY <2>7, <3>1, Zenon
  <2>14. Holds(t, t.slot, i)
    BY <2>7, <2>13, Zenon DEF Holds
  <2>15. ASSUME NEW l \in Slots, NEW j \in Inodes, Holds(s, l, j), s.cache[l].reference
         PROVE  Holds(t, l, j)
    <3>1. l # k
      BY <2>1, <2>9, <2>15 DEF Holds
    <3>2. Holds(r, l, j) /\ t.cache[l] = r.cache[l]
      BY <2>7, <2>10, <2>15, <3>1
    <3> QED BY <3>2 DEF Holds
  <2> QED BY <1>1, <2>1, <2>4, <2>7, <2>9, <2>12, <2>13, <2>14, <2>15 DEF t
<1> QED BY <1>2, <1>3

(* The way of the hand round the slots, from h to m and one further, seen  *)
(* from slot k.                                                            *)
LEMMA RoundTheSlots ==
    ASSUME NEW k \in Slots, NEW h \in Slots, NEW m \in Slots
    PROVE  LET n == (m + 1) % CACHE
           IN  /\ n = k => \A l \in Slots : l \in Passed(k, m) \/ l = m
               /\ n # k => \A l \in Slots : l \in Passed(k, n) => l \in Passed(k, m) \/ l = m
               /\ k \in Passed(h, m) => \A l \in Slots : l \in Passed(k, m) => l \in Passed(h, m)
               /\ k \notin Passed(h, m) /\ k # m /\ k # h =>
                    \A l \in Slots : l \in Passed(k, m) => l \in Passed(k, h) \/ l \in Passed(h, m)
               /\ (k \in Passed(h, m) \/ k = m) /\ k # h =>
                    \A l \in Slots : l \in Passed(k, h) \/ l \in Passed(h, m) \/ l = k
<1> DEFINE Between(a, l, b) == IF a <= b THEN a <= l /\ l < b ELSE a <= l \/ l < b
           n == (m + 1) % CACHE
<1>1. /\ k \in Nat /\ h \in Nat /\ m \in Nat /\ CACHE \in Nat \ {0}
      /\ k < CACHE /\ h < CACHE /\ m < CACHE
      /\ \A l \in Slots : l \in Nat /\ l < CACHE
  BY SlotsAndInodes
<1>2. /\ n \in Nat
      /\ m + 1 < CACHE => n = m + 1
      /\ m + 1 = CACHE => n = 0
      /\ m + 1 < CACHE \/ m + 1 = CACHE
  BY <1>1
<1>3. \A a, b, l \in Nat : l < CACHE => (l \in Passed(a, b) <=> Between(a, l, b))
  BY <1>1 DEF Passed
<1> HIDE DEF n
<1>4. ASSUME NEW l \in Slots
      PROVE  /\ l \in Passed(k, m) <=> Between(k, l, m)
             /\ l \in Passed(k, n) <=> Between(k, l, n)
             /\ l \in Passed(h, m) <=> Between(h, l, m)
             /\ l \in Passed(k, h) <=> Between(k, l, h)
             /\ k \in Passed(h, m) <=> Between(h, k, m)
  BY <1>1, <1>2, <1>3
<1>5. ASSUME NEW l \in Slots
      PROVE  /\ n = k => Between(k, l, m) \/ l = m
             /\ n # k => (Between(k, l, n) => Between(k, l, m) \/ l = m)
             /\ Between(h, k, m) => (Between(k, l, m) => Between(h, l, m))
             /\ ~ Between(h, k, m) /\ k # m /\ k # h =>
                  (Between(k, l, m) => Between(k, l, h) \/ Between(h, l, m))
             /\ (Between(h, k, m) \/ k = m) /\ k # h =>
                  Between(k, l, h) \/ Between(h, l, m) \/ l = k
  BY <1>1, <1>2
<1> HIDE DEF Between
<1>6. k \in Passed(h, m) <=> Between(h, k, m)
  BY <1>1, <1>3
<1> QED BY <1>4, <1>5, <1>6 DEF n

(* A look-up leaves the pointers that dir_remove may hold good: the hand   *)
(* does not come round to an entry that was used, while a slot is invalid. *)
LEMMA GetPins ==
    ASSUME NEW s \in Machines, NEW i \in Inodes, NEW c \in [Inodes -> Nat], Coherent(s, c),
           get(s, i).sound
    PROVE  LET t == get(s, i)
           IN  /\ Pinned(t, t.slot, i)
               /\ \A k \in Slots, j \in Inodes : Pinned(s, k, j) => Pinned(t, k, j)
<1> DEFINE t == get(s, i)
<1>1. t \in Machines /\ t.slot \in Slots /\ s.sound /\ i \in s.used
  BY GetTyped
<1>2. Coherent(t, c) /\ Holds(t, t.slot, i) /\ t.cache[t.slot].reference = TRUE
  BY GetKeeps
<1>3. ASSUME NEW k \in Slots, NEW j \in Inodes, Pinned(s, k, j), Cached(s, i) # {}
      PROVE  Pinned(t, k, j)
  <2> DEFINE m == Min(Cached(s, i))
  <2>1. /\ t.hand = s.hand /\ \A l \in Slots : Alike(s, t, l)
        /\ t.cache[m].reference = TRUE
        /\ \A l \in Slots : l # m => t.cache[l] = s.cache[l]
    BY <1>3, GetHit
  <2> HIDE DEF t, m
  <2>2. Holds(t, k, j)
    <3>1. Alike(s, t, k) /\ Holds(s, k, j)
      BY <1>3, <2>1 DEF Pinned
    <3> QED BY <3>1, Zenon DEF Alike, Holds
  <2>3. ~ t.cache[k].reference => ~ s.cache[k].reference
    BY <2>1
  <2>4. \A l \in Slots : t.cache[l].valid = s.cache[l].valid
    BY <2>1, Zenon DEF Alike
  <2> QED BY <1>3, <2>1, <2>2, <2>3, <2>4 DEF Pinned
<1>4. ASSUME NEW k \in Slots, NEW j \in Inodes, Pinned(s, k, j), Cached(s, i) = {}
      PROVE  Pinned(t, k, j)
  <2>1. PICK v : /\ v \in Machines /\ v.cache = s.cache /\ v.hand = s.hand
                 /\ v.table = s.table /\ v.used = s.used
                 /\ t = cache_add(v, s.table[i], i)
    <3> DEFINE w == s.sound /\ i \in s.used
               x == [s EXCEPT !.sound = w]
    <3>1. /\ x \in Machines /\ x.cache = s.cache /\ x.hand = s.hand
          /\ x.table = s.table /\ x.used = s.used
      <4>1. w \in BOOLEAN
        OBVIOUS
      <4> HIDE DEF w
      <4> QED BY <4>1, Checked
    <3>2. t = cache_add(x, s.table[i], i)
      BY <1>4, GetMiss
    <3> HIDE DEF x, t
    <3> QED BY <3>1, <3>2
  <2> DEFINE r == evict(v)
             m == r.slot
             n == (m + 1) % CACHE
  <2>2. s.table[i] \in Nat /\ r \in Machines /\ m \in Slots
    BY <2>1, MachineFields, EvictTyped
  <2>3. /\ t.hand = r.hand /\ t.slot = m /\ (t.sound => r.sound)
        /\ \A l \in Slots : l # m => t.cache[l] = r.cache[l]
    <3> DEFINE z == s.table[i]
    <3>1. z \in Nat /\ v \in Machines /\ t = cache_add(v, z, i)
      BY <2>1, <2>2
    <3> HIDE DEF t, z, r, m, n
    <3>2. r = evict(v) /\ m = r.slot
      BY DEF r, m
    <3> QED BY <3>1, <3>2, AddedEntry
  <2>4. Coherent(v, c)
    BY <2>1 DEF Coherent, Holds
  <2>5. /\ \A l \in Slots : l # m => Alike(v, r, l)
        /\ v.cache[m].valid => ~ v.cache[m].reference
        /\ Passes(v, r)
    BY <2>1, <2>3, <2>4, EvictKeeps
  <2>6. /\ r.hand = n
        /\ \A l \in Slots : l \in Passed(s.hand, m) => s.cache[l].valid
        /\ \A l \in Slots : l \notin Passed(s.hand, m) /\ l # m =>
              r.cache[l].reference = s.cache[l].reference
    BY <2>1, <2>3, <2>5 DEF Passes
  <2> HIDE DEF r, t
  <2>7. s.hand \in Slots /\ t.hand = n
    BY <2>3, <2>6 DEF Coherent
  <2>8. \A l \in Slots : s.cache[l].valid \/ l = m => t.cache[l].valid
    <3>1. SUFFICES ASSUME NEW l \in Slots, s.cache[l].valid \/ l = m
                   PROVE  t.cache[l].valid
      OBVIOUS
    <3>2. CASE l = m
      BY <1>2, <2>3, <3>2 DEF Holds
    <3>3. CASE l # m
      <4>1. Alike(v, r, l) /\ t.cache[l] = r.cache[l] /\ v.cache[l] = s.cache[l]
        BY <2>1, <2>3, <2>5, <3>3
      <4> QED BY <3>1, <3>3, <4>1, Zenon DEF Alike
    <3> QED BY <3>2, <3>3
  <2>9. /\ ~ \A l \in Slots : s.cache[l].valid
        /\ ~ \A l \in Slots : t.cache[l].valid
    BY <1>1, <1>2, SomeSlotIsInvalid
  <2>10. Holds(s, k, j) /\ s.cache[k].valid
    BY <1>4 DEF Pinned, Holds
  <2>11. ~ s.cache[k].reference =>
            /\ s.hand # k
            /\ \A l \in Slots : l \in Passed(k, s.hand) => s.cache[l].valid
    BY <1>4 DEF Pinned
  <2> HIDE DEF m, n
  <2>12. /\ n = k => \A l \in Slots : l \in Passed(k, m) \/ l = m
         /\ n # k => \A l \in Slots : l \in Passed(k, n) => l \in Passed(k, m) \/ l = m
         /\ k \in Passed(s.hand, m) =>
               \A l \in Slots : l \in Passed(k, m) => l \in Passed(s.hand, m)
         /\ k \notin Passed(s.hand, m) /\ k # m /\ k # s.hand =>
               \A l \in Slots : l \in Passed(k, m) => l \in Passed(k, s.hand) \/ l \in Passed(s.hand, m)
         /\ (k \in Passed(s.hand, m) \/ k = m) /\ k # s.hand =>
               \A l \in Slots : l \in Passed(k, s.hand) \/ l \in Passed(s.hand, m) \/ l = k
    BY <2>2, <2>7, RoundTheSlots DEF n
  <2>13. k # m
    <3>1. SUFFICES ASSUME k = m PROVE FALSE
      OBVIOUS
    <3>2. ~ s.cache[k].reference
      BY <2>1, <2>5, <2>10, <3>1
    <3> QED BY <2>6, <2>9, <2>10, <2>11, <2>12, <3>1, <3>2
  <2>14. Holds(t, k, j)
    <3>1. Alike(v, r, k) /\ t.cache[k] = r.cache[k] /\ v.cache[k] = s.cache[k]
      BY <2>1, <2>3, <2>5, <2>13
    <3> QED BY <2>10, <3>1, Zenon DEF Alike, Holds
  <2>15. ASSUME ~ t.cache[k].reference
         PROVE  \A l \in Slots : l \in Passed(k, m) => s.cache[l].valid
    <3>1. CASE k \in Passed(s.hand, m)
      BY <2>6, <2>12, <3>1
    <3>2. CASE k \notin Passed(s.hand, m)
      <4>1. ~ s.cache[k].reference
        BY <2>3, <2>6, <2>13, <2>15, <3>2
      <4> QED BY <2>6, <2>11, <2>12, <2>13, <3>2, <4>1
    <3> QED BY <3>1, <3>2
  <2>16. ASSUME ~ t.cache[k].reference
         PROVE  n # k /\ \A l \in Slots : l \in Passed(k, n) => t.cache[l].valid
    <3>1. \A l \in Slots : l \in Passed(k, m) \/ l = m => t.cache[l].valid
      BY <2>8, <2>15, <2>16
    <3>2. n # k
      BY <2>9, <2>12, <3>1
    <3> QED BY <2>12, <3>1, <3>2
  <2> QED BY <2>7, <2>14, <2>16 DEF Pinned
<1>5. Pinned(t, t.slot, i)
  BY <1>2 DEF Pinned
<1> QED BY <1>3, <1>4, <1>5

(* fs_inode_set_size, through the pointer that was just returned.          *)
LEMMA Growing ==
    ASSUME NEW s \in Machines, s.slot \in Slots
    PROVE  LET t == grow(s)
               k == s.slot
           IN  /\ t \in Machines /\ t.slot = k /\ t.hand = s.hand /\ t.table = s.table
               /\ t.used = s.used /\ t.sound = s.sound
               /\ \A l \in Slots : l # k => t.cache[l] = s.cache[l]
               /\ t.cache[k].index = s.cache[k].index /\ t.cache[k].valid = s.cache[k].valid
               /\ t.cache[k].size = s.cache[k].size + 1 /\ t.cache[k].dirty = TRUE
<1> DEFINE k == s.slot
           e == s.cache[k]
           n == e.size + 1
           g == [e EXCEPT !.size = n, !.reference = TRUE, !.dirty = TRUE]
           t == grow(s)
<1>1. e \in CacheEntries /\ s.cache \in [Slots -> CacheEntries]
  BY MachineFields
<1>2. t = [s EXCEPT !.cache = [s.cache EXCEPT ![k] = g]]
  BY <1>1 DEF grow, Machines
<1>3. /\ g \in CacheEntries /\ g.index = e.index /\ g.valid = e.valid
      /\ g.size = e.size + 1 /\ g.dirty = TRUE
  <2>1. n \in Nat
    BY <1>1, MachineFields
  <2> HIDE DEF e, n
  <2>2. \A x \in CacheEntries, m \in Nat, b \in BOOLEAN :
           LET y == [x EXCEPT !.size = m, !.reference = b, !.dirty = b]
           IN  /\ y \in CacheEntries /\ y.index = x.index /\ y.valid = x.valid
               /\ y.size = m /\ y.dirty = b
    BY DEF CacheEntries
  <2>3. g \in CacheEntries /\ g.index = e.index /\ g.valid = e.valid
        /\ g.size = n /\ g.dirty = TRUE
    BY <1>1, <2>1, <2>2
  <2> QED BY <2>3 DEF n
<1> HIDE DEF g, t
<1>4. [s.cache EXCEPT ![k] = g] \in [Slots -> CacheEntries]
  BY <1>1, <1>3
<1>5. /\ t \in Machines /\ t.cache = [s.cache EXCEPT ![k] = g] /\ t.slot = k
      /\ t.hand = s.hand /\ t.table = s.table /\ t.used = s.used
  BY <1>2, <1>4 DEF Machines
<1>6. t.sound = s.sound
  <2>1. \A x \in Machines : \A f : [x EXCEPT !.cache = f].sound = x.sound
    BY DEF Machines
  <2> QED BY <1>2, <2>1
<1>7. t.cache[k] = g /\ \A l \in Slots : l # k => t.cache[l] = s.cache[l]
  BY <1>1, <1>5
<1> QED BY <1>3, <1>5, <1>6, <1>7, Zenon DEF t

LEMMA GrowingKeeps ==
    ASSUME NEW s \in Machines, s.slot \in Slots, NEW c \in [Inodes -> Nat], Coherent(s, c),
           NEW i \in Inodes, Holds(s, s.slot, i)
    PROVE  LET t == grow(s)
           IN  Coherent(t, [c EXCEPT ![i] = @ + 1]) /\ Holds(t, t.slot, i)
<1> DEFINE k == s.slot
           t == grow(s)
           d == [c EXCEPT ![i] = @ + 1]
<1>1. /\ t.slot = k /\ t.hand = s.hand /\ t.table = s.table /\ t.used = s.used
      /\ \A l \in Slots : l # k => t.cache[l] = s.cache[l]
      /\ t.cache[k].index = s.cache[k].index /\ t.cache[k].size = s.cache[k].size + 1
  BY Growing
<1>2. t.cache[k].valid /\ t.cache[k].dirty /\ t.cache[k].index = i
      /\ s.cache[k].valid /\ s.cache[k].index = i
  <2>1. t.cache[k].valid = s.cache[k].valid /\ t.cache[k].dirty = TRUE
    BY Growing, Zenon
  <2> QED BY <1>1, <2>1, Zenon DEF Holds
<1> HIDE DEF t
<1>3. d[i] = c[i] + 1 /\ \A j \in Inodes : j # i => d[j] = c[j]
  OBVIOUS
<1> HIDE DEF d
<1>4. i \in s.used /\ s.cache[k].size = c[i]
  BY <1>2, CoherentFacts
<1>5. \A l \in Slots : l # k /\ s.cache[l].valid => s.cache[l].index # i
  BY <1>2, CoherentFacts
<1>6. \A l, m \in Slots : t.cache[l].valid /\ t.cache[m].valid
                            /\ t.cache[l].index = t.cache[m].index => l = m
  <2>1. SUFFICES ASSUME NEW l \in Slots, NEW m \in Slots, t.cache[l].valid, t.cache[m].valid,
                        t.cache[l].index = t.cache[m].index
                 PROVE  l = m
    OBVIOUS
  <2>2. CASE l # k /\ m # k
    BY <1>1, <2>1, <2>2, CoherentFacts
  <2>3. CASE l = k \/ m = k
    BY <1>1, <1>2, <1>5, <2>1, <2>3
  <2> QED BY <2>2, <2>3
<1>7. ASSUME NEW l \in Slots
      PROVE  /\ t.cache[l].dirty => t.cache[l].valid
             /\ t.cache[l].valid => /\ t.cache[l].index \in t.used
                                    /\ t.cache[l].size = d[t.cache[l].index]
             /\ t.cache[l].valid /\ ~ t.cache[l].dirty =>
                  t.table[t.cache[l].index] = d[t.cache[l].index]
  <2>1. CASE l = k
    BY <1>1, <1>2, <1>3, <1>4, <2>1
  <2>2. CASE l # k
    BY <1>1, <1>3, <1>5, <2>2, CoherentFacts
  <2> QED BY <2>1, <2>2
<1>8. ASSUME NEW j \in Inodes, \A l \in Slots : ~ Holds(t, l, j) PROVE t.table[j] = d[j]
  <2>1. j # i
    BY <1>2, <1>8 DEF Holds
  <2>2. \A l \in Slots : ~ Holds(s, l, j)
    <3>1. SUFFICES ASSUME NEW l \in Slots PROVE ~ Holds(s, l, j)
      OBVIOUS
    <3>2. CASE l = k
      BY <1>2, <2>1, <3>2 DEF Holds
    <3>3. CASE l # k
      BY <1>1, <1>8, <3>3 DEF Holds
    <3> QED BY <3>2, <3>3
  <2> QED BY <1>1, <1>3, <2>1, <2>2 DEF Coherent
<1>9. t.hand \in Slots /\ \A j \in Inodes : j \notin t.used => d[j] = 0
  BY <1>1, <1>3, <1>4 DEF Coherent
<1>10. Coherent(t, d)
  BY <1>6, <1>7, <1>8, <1>9 DEF Coherent
<1>11. Holds(t, t.slot, i)
  BY <1>1, <1>2 DEF Holds
<1> QED BY <1>10, <1>11 DEF d, t

(* An entry of a directory behind its others.                              *)
LEMMA AppendTyped ==
    ASSUME NEW s \in Machines, NEW i \in Inodes
    PROVE  LET t == append(s, i)
           IN  t \in Machines /\ t.slot \in Slots /\ (t.sound => s.sound /\ i \in s.used)
<1> DEFINE g == get(s, i)
           t == grow(g)
<1>1. g \in Machines /\ g.slot \in Slots /\ (g.sound => s.sound /\ i \in s.used)
  BY GetTyped
<1> HIDE DEF g
<1>2. t \in Machines /\ t.slot = g.slot /\ (t.sound => g.sound)
  BY <1>1, Growing
<1> QED BY <1>1, <1>2 DEF append, g

LEMMA AppendKeeps ==
    ASSUME NEW s \in Machines, NEW i \in Inodes, NEW c \in [Inodes -> Nat], Coherent(s, c),
           append(s, i).sound
    PROVE  LET t == append(s, i)
           IN  Coherent(t, [c EXCEPT ![i] = @ + 1]) /\ t.used = s.used
<1> DEFINE g == get(s, i)
           t == grow(g)
<1>1. g \in Machines /\ g.slot \in Slots
  BY GetTyped
<1>2. t.sound = g.sound /\ t.used = g.used
  <2> HIDE DEF g
  <2> QED BY <1>1, Growing
<1>3. g.sound
  BY <1>2 DEF append
<1>4. Coherent(g, c) /\ g.used = s.used /\ Holds(g, g.slot, i)
  BY <1>3, GetKeeps
<1> HIDE DEF g
<1>5. Coherent(t, [c EXCEPT ![i] = @ + 1])
  BY <1>1, <1>4, GrowingKeeps
<1> QED BY <1>2, <1>4, <1>5 DEF append, g

(* fs_inode_destroy writes the cleared inode at once.                      *)
LEMMA Destroying ==
    ASSUME NEW s \in Machines, NEW k \in Slots
    PROVE  LET t == destroy(s, k)
               i == s.cache[k].index
           IN  /\ t \in Machines /\ t.slot = s.slot /\ t.hand = s.hand /\ t.sound = s.sound
               /\ t.used = s.used \ {i} /\ t.table = [s.table EXCEPT ![i] = 0]
               /\ \A l \in Slots : l # k => t.cache[l] = s.cache[l]
               /\ t.cache[k].valid = FALSE /\ t.cache[k].dirty = FALSE
<1> DEFINE e == s.cache[k]
           i == e.index
           g == [e EXCEPT !.size = 0, !.reference = FALSE, !.dirty = TRUE]
           v == s.used \ {i}
           q == [s EXCEPT !.used = v, !.cache = [s.cache EXCEPT ![k] = g]]
           t == destroy(s, k)
<1>1. e \in CacheEntries /\ s.cache \in [Slots -> CacheEntries] /\ v \in SUBSET Inodes
  BY MachineFields
<1>2. g \in CacheEntries /\ g.index = i /\ g.size = 0 /\ g.dirty = TRUE
  <2>1. \A x \in CacheEntries, m \in Nat, b \in BOOLEAN, a \in BOOLEAN :
           LET y == [x EXCEPT !.size = m, !.reference = b, !.dirty = a]
           IN  y \in CacheEntries /\ y.index = x.index /\ y.size = m /\ y.dirty = a
    BY DEF CacheEntries
  <2>2. 0 \in Nat
    OBVIOUS
  <2> HIDE DEF e
  <2> QED BY <1>1, <2>1, <2>2
<1>3. t = drop(q, k)
  <2>1. k # CACHE
    BY SlotsAndInodes
  <2>2. q = [s EXCEPT !.used = @ \ {s.cache[k].index}, !.cache[k].size = 0,
                      !.cache[k].reference = FALSE, !.cache[k].dirty = TRUE]
    BY <1>1 DEF Machines
  <2> HIDE DEF q
  <2> QED BY <2>1, <2>2 DEF destroy, drop
<1> HIDE DEF g, v
<1>4. [s.cache EXCEPT ![k] = g] \in [Slots -> CacheEntries]
  BY <1>1, <1>2
<1>5. /\ q \in Machines /\ q.cache = [s.cache EXCEPT ![k] = g] /\ q.used = v
      /\ q.slot = s.slot /\ q.hand = s.hand /\ q.table = s.table
  BY <1>1, <1>4 DEF Machines
<1>6. q.sound = s.sound
  <2>1. \A x \in Machines : \A u, f : [x EXCEPT !.used = u, !.cache = f].sound = x.sound
    BY DEF Machines
  <2> QED BY <2>1
<1> HIDE DEF q, t
<1>7. q.cache[k] = g /\ \A l \in Slots : l # k => q.cache[l] = s.cache[l]
  BY <1>1, <1>5
<1>8. /\ t \in Machines /\ t.hand = q.hand /\ t.used = q.used /\ t.slot = q.slot
      /\ t.sound = q.sound
      /\ \A l \in Slots : l # k => t.cache[l] = q.cache[l]
      /\ t.cache[k].valid = FALSE /\ t.cache[k].dirty = FALSE
  BY <1>3, <1>5, Dropping, Zenon
<1>9. t.table = [s.table EXCEPT ![i] = 0]
  <2>1. q.cache[k].dirty
    BY <1>2, <1>7, Zenon
  <2>2. t.table = [q.table EXCEPT ![q.cache[k].index] = q.cache[k].size]
    BY <1>3, <1>5, <2>1, Dropping
  <2> QED BY <1>2, <1>5, <1>7, <2>2
<1>10. \A l \in Slots : l # k => t.cache[l] = s.cache[l]
  BY <1>7, <1>8
<1> QED BY <1>5, <1>6, <1>8, <1>9, <1>10, Zenon DEF t, v

LEMMA DestroyingKeeps ==
    ASSUME NEW s \in Machines, NEW k \in Slots, NEW c \in [Inodes -> Nat], Coherent(s, c),
           NEW i \in Inodes, Holds(s, k, i)
    PROVE  Coherent(destroy(s, k), [c EXCEPT ![i] = 0])
<1> DEFINE t == destroy(s, k)
           d == [c EXCEPT ![i] = 0]
<1>1. s.cache[k].valid /\ s.cache[k].index = i
  BY DEF Holds
<1>2. /\ t.hand = s.hand /\ t.used = s.used \ {i} /\ t.table = [s.table EXCEPT ![i] = 0]
      /\ \A l \in Slots : l # k => t.cache[l] = s.cache[l]
  BY <1>1, Destroying
<1>3. ~ t.cache[k].valid /\ ~ t.cache[k].dirty
  <2>1. t.cache[k].valid = FALSE /\ t.cache[k].dirty = FALSE
    BY Destroying, Zenon
  <2> QED BY <2>1
<1>4. d[i] = 0 /\ \A j \in Inodes : j # i => d[j] = c[j]
  OBVIOUS
<1>5. t.table[i] = 0 /\ \A j \in Inodes : j # i => t.table[j] = s.table[j]
  BY <1>2, MachineFields
<1> HIDE DEF t, d
<1>6. \A l \in Slots : l # k /\ s.cache[l].valid => s.cache[l].index # i
  BY <1>1, CoherentFacts
<1>7. \A l, m \in Slots : t.cache[l].valid /\ t.cache[m].valid
                            /\ t.cache[l].index = t.cache[m].index => l = m
  BY <1>2, <1>3, CoherentFacts
<1>8. ASSUME NEW l \in Slots
      PROVE  /\ t.cache[l].dirty => t.cache[l].valid
             /\ t.cache[l].valid => /\ t.cache[l].index \in t.used
                                    /\ t.cache[l].size = d[t.cache[l].index]
             /\ t.cache[l].valid /\ ~ t.cache[l].dirty =>
                  t.table[t.cache[l].index] = d[t.cache[l].index]
  <2>1. CASE l = k
    BY <1>3, <2>1
  <2>2. CASE l # k
    BY <1>2, <1>4, <1>5, <1>6, <2>2, CoherentFacts
  <2> QED BY <2>1, <2>2
<1>9. ASSUME NEW j \in Inodes, \A l \in Slots : ~ Holds(t, l, j) PROVE t.table[j] = d[j]
  <2>1. CASE j = i
    BY <1>4, <1>5, <2>1
  <2>2. CASE j # i
    <3>1. \A l \in Slots : ~ Holds(s, l, j)
      <4>1. SUFFICES ASSUME NEW l \in Slots PROVE ~ Holds(s, l, j)
        OBVIOUS
      <4>2. CASE l = k
        BY <1>1, <2>2, <4>2 DEF Holds
      <4>3. CASE l # k
        BY <1>2, <1>9, <4>3 DEF Holds
      <4> QED BY <4>2, <4>3
    <3> QED BY <1>4, <1>5, <2>2, <3>1 DEF Coherent
  <2> QED BY <2>1, <2>2
<1>10. t.hand \in Slots /\ \A j \in Inodes : j \notin t.used => d[j] = 0
  BY <1>2, <1>4 DEF Coherent
<1>11. Coherent(t, d)
  BY <1>7, <1>8, <1>9, <1>10 DEF Coherent
<1> QED BY <1>11 DEF d, t

-----------------------------------------------------------------------------
(* A command that ends with the state t, and sizes c that it should have.  *)
LEMMA Becoming ==
    ASSUME NEW t \in Machines, Become(t)
    PROVE  /\ State' \in Machines /\ sound' = t.sound
           /\ \A c : Coherent(t, c) => Coherent(State', c)
           /\ \A k, j : Pinned(t, k, j) => Pinned(State', k, j)
<1>1. /\ inode_cache' = t.cache /\ hand' = t.hand /\ table' = t.table
      /\ inode_bitmap' = t.used /\ sound' = t.sound
  BY DEF Become
<1>2. State' = [cache |-> t.cache, hand |-> t.hand, table |-> t.table, used |-> t.used,
                slot |-> NoSlot, sound |-> t.sound]
  BY <1>1 DEF State
<1>3. State' \in Machines
  BY <1>2, MachineFields DEF Machines
<1>4. /\ State'.cache = t.cache /\ State'.hand = t.hand /\ State'.table = t.table
      /\ State'.used = t.used
  BY <1>2
<1>5. ASSUME NEW c, Coherent(t, c) PROVE Coherent(State', c)
  BY <1>4, <1>5 DEF Coherent, Holds
<1>6. \A k, j : Pinned(t, k, j) => Pinned(State', k, j)
  BY <1>4 DEF Pinned, Holds
<1> QED BY <1>1, <1>3, <1>5, <1>6

(* One round of the loop of fs_inode_load.                                 *)
FlushOne(s, k) == IF k \in Slots /\ s.cache[k].valid THEN drop(s, k) ELSE s

LEMMA FlushOneKeeps ==
    ASSUME NEW s \in Machines, NEW k
    PROVE  LET t == FlushOne(s, k)
           IN  /\ t \in Machines /\ (t.sound => s.sound)
               /\ \A c : Coherent(s, c) => Coherent(t, c)
<1> DEFINE t == drop(s, k)
<1>1. CASE ~ (k \in Slots /\ s.cache[k].valid)
  <2>1. FlushOne(s, k) = s
    BY <1>1 DEF FlushOne
  <2> QED BY <2>1
<1>2. CASE k \in Slots /\ s.cache[k].valid
  <2>1. FlushOne(s, k) = t
    BY <1>2 DEF FlushOne
  <2>2. /\ t \in Machines /\ t.hand = s.hand /\ t.used = s.used /\ t.sound = s.sound
        /\ \A l \in Slots : l # k => t.cache[l] = s.cache[l]
        /\ t.cache[k].valid = FALSE /\ t.cache[k].dirty = FALSE
        /\ s.cache[k].dirty =>
              t.table = [s.table EXCEPT ![s.cache[k].index] = s.cache[k].size]
        /\ ~ s.cache[k].dirty => t.table = s.table
    BY <1>2, Dropping, Zenon
  <2> HIDE DEF t
  <2>3. ASSUME NEW l \in Slots, l # k PROVE Alike(s, t, l)
    <3>1. t.cache[l] = s.cache[l]
      BY <2>2, <2>3
    <3> QED BY <3>1, Zenon DEF Alike
  <2>4. Cleared(s, t, k)
    BY <2>2, <2>3, Zenon DEF Cleared
  <2>5. ASSUME NEW c, Coherent(s, c) PROVE Coherent(t, c)
    <3>1. t.hand \in Slots
      BY <2>2, <2>5 DEF Coherent
    <3> QED BY <1>2, <2>2, <2>4, <2>5, <3>1, ClearingKeeps
  <2> QED BY <2>1, <2>2, <2>5
<1> QED BY <1>1, <1>2

(* The end of fs_init keeps everything right.                              *)
LEMMA EmptyKeeps ==
    ASSUME NEW s \in Machines
    PROVE  LET t == empty(s)
           IN  /\ t \in Machines /\ (t.sound => s.sound)
               /\ \A c : Coherent(s, c) => Coherent(t, c)
<1> DEFINE n == CACHE
           Good(t) == t = [k \in 0 .. CACHE |->
                             IF k = 0 THEN s
                             ELSE IF t[k - 1].cache[k - 1].valid THEN drop(t[k - 1], k - 1)
                                  ELSE t[k - 1]]
           F == [k \in Nat |-> [x \in Machines |-> FlushOne(x, k)]]
           f == CHOOSE t : Good(t)
           Kept(x) == /\ x \in Machines /\ (x.sound => s.sound)
                      /\ \A c : Coherent(s, c) => Coherent(x, c)
<1>1. empty(s) = [f[CACHE] EXCEPT !.hand = 0]
  BY DEF empty
<1>2. n \in Nat
  BY SlotsAndInodes
<1> HIDE DEF f
<1>3. PICK g \in [Nat -> Machines] : Follows(g, s, F)
  <2>1. F \in [Nat -> [Machines -> Machines]]
    BY FlushOneKeeps
  <2> HIDE DEF F
  <2> QED BY <2>1, Recursion
<1>4. g[0] = s /\ \A k \in Nat : g[k + 1] = FlushOne(g[k], k)
  BY <1>3 DEF Follows
<1> DEFINE t == [k \in 0 .. n |-> g[k]]
<1>5. Good(t)
  <2>1. ASSUME NEW k \in 0 .. n
        PROVE  t[k] = IF k = 0 THEN s
                      ELSE IF t[k - 1].cache[k - 1].valid THEN drop(t[k - 1], k - 1)
                           ELSE t[k - 1]
    <3>1. CASE k # 0
      <4>1. k - 1 \in Nat /\ (k - 1) + 1 = k /\ k - 1 \in 0 .. n /\ k - 1 \in Slots
        BY <1>2, <3>1, SlotsAndInodes
      <4>2. t[k] = g[k] /\ t[k - 1] = g[k - 1]
        BY <4>1
      <4> HIDE DEF t
      <4>3. t[k] = FlushOne(t[k - 1], k - 1)
        BY <1>4, <4>1, <4>2
      <4> QED BY <3>1, <4>1, <4>3 DEF FlushOne
    <3> QED BY <1>2, <1>4, <3>1
  <2>2. t = [k \in 0 .. n |-> t[k]]
    OBVIOUS
  <2> HIDE DEF t
  <2> QED BY <2>1, <2>2
<1> HIDE DEF t
<1>6. Good(f)
  BY <1>5 DEF f
<1>7. \A k \in 0 .. n : f[k] = IF k = 0 THEN s
                               ELSE IF f[k - 1].cache[k - 1].valid THEN drop(f[k - 1], k - 1)
                                    ELSE f[k - 1]
  BY <1>6
<1> HIDE DEF Good
<1>8. f[0] = s
  BY <1>2, <1>7
<1>9. ASSUME NEW k \in 0 .. n, k # 0, Kept(f[k - 1]) PROVE Kept(f[k])
  <2>1. f[k] = FlushOne(f[k - 1], k - 1)
    <3>1. k - 1 \in Slots
      BY <1>2, <1>9, SlotsAndInodes
    <3> QED BY <1>7, <1>9, <3>1 DEF FlushOne
  <2>2. f[k - 1] \in Machines
    BY <1>9
  <2> DEFINE p == f[k - 1]
             q == f[k]
  <2>3. /\ q \in Machines /\ (q.sound => p.sound)
        /\ \A c : Coherent(p, c) => Coherent(q, c)
    BY <2>1, <2>2, FlushOneKeeps
  <2> HIDE DEF p, q
  <2>4. (p.sound => s.sound) /\ \A c : Coherent(s, c) => Coherent(p, c)
    BY <1>9 DEF p
  <2>5. Kept(q)
    BY <2>3, <2>4
  <2> QED BY <2>5 DEF q
<1>10. Kept(s)
  OBVIOUS
<1> HIDE DEF Kept
<1> DEFINE T == {k \in 0 .. n : ~ Kept(f[k])}
<1>11. T = {}
  <2>1. SUFFICES ASSUME T # {} PROVE FALSE
    OBVIOUS
  <2>2. PICK k \in T : \A j \in T : k <= j
    <3>1. T \subseteq Nat
      OBVIOUS
    <3> HIDE DEF T
    <3> QED BY <2>1, <3>1, LeastElement
  <2>3. k # 0
    BY <1>8, <1>10, <2>2
  <2>4. k - 1 \in 0 .. n /\ k \in 0 .. n /\ k - 1 \notin T
    BY <1>2, <2>2, <2>3
  <2>5. Kept(f[k - 1])
    BY <2>4
  <2> QED BY <1>9, <2>2, <2>3, <2>4, <2>5
<1> DEFINE x == f[n]
           u == [x EXCEPT !.hand = 0]
<1>12. Kept(x)
  <2>1. n \in 0 .. n
    BY <1>2
  <2> QED BY <1>11, <2>1
<1> HIDE DEF x
<1>13. x \in Machines /\ (x.sound => s.sound) /\ \A c : Coherent(s, c) => Coherent(x, c)
  BY <1>12 DEF Kept
<1>14. /\ u \in Machines /\ u.cache = x.cache /\ u.hand = 0 /\ u.table = x.table
       /\ u.used = x.used
  <2>1. \A y \in Machines, m \in 0 .. CACHE :
           LET v == [y EXCEPT !.hand = m]
           IN  /\ v \in Machines /\ v.cache = y.cache /\ v.hand = m
               /\ v.table = y.table /\ v.used = y.used
    BY DEF Machines
  <2>2. 0 \in 0 .. CACHE /\ x \in Machines
    BY <1>2, <1>13
  <2> QED BY <2>1, <2>2
<1>15. u.sound = x.sound
  <2>1. \A y \in Machines : \A m : [y EXCEPT !.hand = m].sound = y.sound
    BY DEF Machines
  <2> QED BY <1>13, <2>1
<1> HIDE DEF u
<1>16. ASSUME NEW c, Coherent(s, c) PROVE Coherent(u, c)
  <2>1. Coherent(x, c)
    BY <1>13, <1>16
  <2> QED BY <1>14, <2>1, SlotsAndInodes DEF Coherent, Holds
<1> QED BY <1>1, <1>13, <1>14, <1>15, <1>16 DEF u, x

-----------------------------------------------------------------------------
LEMMA InitCoherent == Init => IInv
<1> SUFFICES ASSUME Init PROVE IInv
  OBVIOUS
<1> DEFINE e == [index |-> 0, size |-> 0, reference |-> FALSE, dirty |-> FALSE, valid |-> FALSE]
<1>1. /\ inode_cache = [k \in Slots |-> e] /\ hand = 0 /\ table = [i \in Inodes |-> 0]
      /\ inode_bitmap = {FS_ROOT_DIRECTORY_INODE} /\ contents = [i \in Inodes |-> 0]
      /\ sound = TRUE /\ phase = "directory" /\ kept = NoPointer
  BY DEF Init
<1>2. e \in CacheEntries /\ ~ e.valid /\ ~ e.dirty
  BY SlotsAndInodes DEF CacheEntries, Inodes
<1> HIDE DEF e
<1>3. \A k \in Slots : ~ inode_cache[k].valid /\ ~ inode_cache[k].dirty
  BY <1>1, <1>2
<1>4. State \in Machines
  BY <1>1, <1>2, SlotsAndInodes DEF State, Machines
<1>5. /\ State.cache = inode_cache /\ State.hand = hand /\ State.table = table
      /\ State.used = inode_bitmap
  BY DEF State
<1>6. Coherent(State, contents)
  BY <1>1, <1>3, <1>5, SlotsAndInodes DEF Coherent
<1>7. Fresh
  BY <1>1, <1>3, SlotsAndInodes DEF Fresh
<1>8. kept.inode \in Inodes
  BY <1>1, SlotsAndInodes DEF NoPointer
<1> QED BY <1>1, <1>4, <1>6, <1>7, <1>8 DEF IInv

(* What IInv says of the state before a command.                           *)
LEMMA Before ==
    ASSUME IInv
    PROVE  /\ State \in Machines /\ contents \in [Inodes -> Nat]
           /\ State.sound = sound /\ State.used = inode_bitmap
           /\ sound => Coherent(State, contents)
           /\ kept.inode \in Inodes
           /\ phase = "rmdir" => kept.slot \in Slots
           /\ phase = "rmdir" /\ sound => Pinned(State, kept.slot, kept.inode)
  BY DEF IInv, State

(* The free inode that is taken.                                           *)
LEMMA FreeInode ==
    ASSUME IInv, Free # {}
    PROVE  Min(Free) \in Inodes /\ Min(Free) \notin inode_bitmap
<1> DEFINE T == Free
<1>1. T \subseteq Nat
  BY SlotsAndInodes DEF Free, Inodes
<1> HIDE DEF T
<1>2. \E i \in T : \A j \in T : i <= j
  BY <1>1, LeastElement DEF T
<1>3. (CHOOSE i \in T : \A j \in T : i <= j) \in T
  BY <1>2
<1>4. Min(Free) \in Free
  BY <1>3 DEF Min, T
<1> QED BY <1>4 DEF Free

(* A new inode, where its number is free.                                  *)
LEMMA CreateFree ==
    ASSUME NEW s \in Machines, NEW i \in Inodes, NEW c \in [Inodes -> Nat],
           Coherent(s, c), i \notin s.used, create_forced(s, i).sound
    PROVE  LET u == create_forced(s, i)
           IN  Coherent(u, c) /\ c[i] = 0
<1>1. \A k \in Slots : ~ Holds(s, k, i)
  BY CoherentFacts DEF Holds
<1>2. c[i] = 0
  BY DEF Coherent
<1> QED BY <1>1, <1>2, CreateKeeps

(* The end of mkdir and touch: the entry in the parent.                    *)
LEMMA Entering ==
    ASSUME NEW s \in Machines, NEW d \in Inodes, NEW c \in [Inodes -> Nat], enter(s, d, c)
    PROVE  /\ State' \in Machines /\ contents' \in [Inodes -> Nat]
           /\ sound' => s.sound
           /\ sound' /\ Coherent(s, c) => Coherent(State', contents')
<1>1. CASE Become(get(s, d)) /\ contents' = c
  <2> DEFINE t == get(s, d)
  <2>1. t \in Machines /\ (t.sound => s.sound)
    BY GetTyped
  <2>2. t.sound /\ Coherent(s, c) => Coherent(t, c)
    BY GetKeeps
  <2> HIDE DEF t
  <2>3. /\ State' \in Machines /\ sound' = t.sound
        /\ Coherent(t, contents') => Coherent(State', contents')
    BY <1>1, <2>1, Becoming DEF t
  <2> QED BY <1>1, <2>1, <2>2, <2>3
<1>2. CASE Become(append(s, d)) /\ contents' = [c EXCEPT ![d] = @ + 1]
  <2> DEFINE t == append(s, d)
             n == [c EXCEPT ![d] = @ + 1]
  <2>1. t \in Machines /\ (t.sound => s.sound)
    BY AppendTyped
  <2>2. t.sound /\ Coherent(s, c) => Coherent(t, n)
    BY AppendKeeps
  <2>3. n \in [Inodes -> Nat]
    OBVIOUS
  <2> HIDE DEF t, n
  <2>4. /\ State' \in Machines /\ sound' = t.sound
        /\ Coherent(t, contents') => Coherent(State', contents')
    BY <1>2, <2>1, Becoming DEF t
  <2>5. contents' = n
    BY <1>2 DEF n
  <2> QED BY <2>1, <2>2, <2>3, <2>4, <2>5
<1> QED BY <1>1, <1>2 DEF enter

(* What is left to show for a command that ends with the state t.          *)
LEMMA Concluding ==
    ASSUME NEW t \in Machines, Become(t), phase' # "directory", contents' \in [Inodes -> Nat],
           t.sound => Coherent(t, contents'), kept'.inode \in Inodes,
           phase' = "rmdir" => kept'.slot \in Slots,
           phase' = "rmdir" /\ t.sound => Pinned(t, kept'.slot, kept'.inode)
    PROVE  IInv'
<1>1. State' \in Machines /\ sound' = t.sound
      /\ (Coherent(t, contents') => Coherent(State', contents'))
      /\ (Pinned(t, kept'.slot, kept'.inode) => Pinned(State', kept'.slot, kept'.inode))
  BY Becoming
<1>2. sound' => Coherent(State', contents')
  BY <1>1
<1> QED BY <1>1, <1>2 DEF IInv

LEMMA RootKeeps == IInv /\ fs_directory_create_root => IInv'
<1> SUFFICES ASSUME IInv, fs_directory_create_root PROVE IInv'
  OBVIOUS
<1> DEFINE r == FS_ROOT_DIRECTORY_INODE
           c == contents
           a == create_forced(State, r)
           b == append(a, r)
           t == append(b, r)
           d == [c EXCEPT ![r] = @ + 1]
           e == [c EXCEPT ![r] = 2]
<1>1. /\ State \in Machines /\ c \in [Inodes -> Nat] /\ State.sound = sound
      /\ sound => Coherent(State, c)
  BY Before
<1>2. r \in Inodes
  BY SlotsAndInodes
<1>3. /\ phase' # "directory" /\ phase' # "rmdir" /\ Become(t) /\ contents' = e
      /\ kept'.inode \in Inodes
  BY Before DEF fs_directory_create_root
<1>4. sound => (\A k \in Slots : ~ Holds(State, k, r)) /\ c[r] = 0
  BY DEF IInv, Fresh, State, Holds, fs_directory_create_root
<1> HIDE DEF r, c
<1>5. a \in Machines /\ (a.sound => sound)
  BY <1>1, <1>2, CreateTyped
<1>6. a.sound => Coherent(a, c)
  BY <1>1, <1>2, <1>4, <1>5, CreateKeeps
<1> HIDE DEF a
<1>7. b \in Machines /\ (b.sound => a.sound)
  BY <1>2, <1>5, AppendTyped
<1>8. d \in [Inodes -> Nat] /\ e \in [Inodes -> Nat]
  BY <1>1, <1>2
<1>9. b.sound => Coherent(b, d)
  BY <1>1, <1>2, <1>5, <1>6, <1>7, AppendKeeps
<1>10. sound => [d EXCEPT ![r] = @ + 1] = e
  BY <1>1, <1>2, <1>4
<1> HIDE DEF b, d, e
<1>11. t \in Machines /\ (t.sound => b.sound)
  BY <1>2, <1>7, AppendTyped
<1>12. t.sound => Coherent(t, [d EXCEPT ![r] = @ + 1])
  BY <1>2, <1>7, <1>8, <1>9, <1>11, AppendKeeps
<1>13. t.sound => Coherent(t, e)
  BY <1>5, <1>7, <1>10, <1>11, <1>12
<1> HIDE DEF t
<1> QED BY <1>3, <1>8, <1>11, <1>13, Concluding

LEMMA LoadKeeps == IInv /\ fs_inode_load => IInv'
<1> SUFFICES ASSUME IInv, fs_inode_load PROVE IInv'
  OBVIOUS
<1> DEFINE t == empty(State)
<1>1. /\ State \in Machines /\ contents \in [Inodes -> Nat] /\ State.sound = sound
      /\ sound => Coherent(State, contents)
  BY Before
<1>2. /\ t \in Machines /\ (t.sound => State.sound)
      /\ \A c : Coherent(State, c) => Coherent(t, c)
  BY <1>1, EmptyKeeps
<1>3. /\ Become(t) /\ phase' # "directory" /\ phase' # "rmdir" /\ contents' = contents
      /\ kept'.inode \in Inodes
  BY Before DEF fs_inode_load
<1> HIDE DEF t
<1> QED BY <1>1, <1>2, <1>3, Concluding

LEMMA LookupKeeps ==
    ASSUME IInv, NEW i \in Inodes, lookup(i)
    PROVE  IInv'
<1> DEFINE t == get(State, i)
<1>1. /\ State \in Machines /\ contents \in [Inodes -> Nat] /\ State.sound = sound
      /\ sound => Coherent(State, contents)
  BY Before
<1>2. t \in Machines /\ (t.sound => State.sound)
  BY <1>1, GetTyped
<1>3. t.sound => Coherent(t, contents)
  BY <1>1, <1>2, GetKeeps
<1>4. /\ Become(t) /\ phase' # "directory" /\ contents' = contents
      /\ phase' = phase /\ kept' = kept
  BY DEF lookup
<1>5. /\ kept.inode \in Inodes
      /\ phase = "rmdir" => kept.slot \in Slots
      /\ phase = "rmdir" /\ sound => Pinned(State, kept.slot, kept.inode)
  BY Before
<1>6. phase = "rmdir" /\ t.sound => Pinned(t, kept.slot, kept.inode)
  <2>1. SUFFICES ASSUME phase = "rmdir", t.sound PROVE Pinned(t, kept.slot, kept.inode)
    OBVIOUS
  <2>2. Coherent(State, contents) /\ Pinned(State, kept.slot, kept.inode)
    BY <1>1, <1>2, <1>5, <2>1
  <2> QED BY <1>1, <1>5, <2>1, <2>2, GetPins
<1> HIDE DEF t
<1> QED BY <1>1, <1>2, <1>3, <1>4, <1>5, <1>6, Concluding

(* The same for a command that ends with an entry in the parent.           *)
LEMMA ConcludingEntry ==
    ASSUME NEW s \in Machines, NEW d \in Inodes, NEW c \in [Inodes -> Nat], enter(s, d, c),
           phase' # "directory", phase' # "rmdir", kept'.inode \in Inodes,
           s.sound => Coherent(s, c)
    PROVE  IInv'
<1>1. /\ State' \in Machines /\ contents' \in [Inodes -> Nat] /\ (sound' => s.sound)
      /\ sound' /\ Coherent(s, c) => Coherent(State', contents')
  BY Entering
<1>2. sound' => Coherent(State', contents')
  BY <1>1
<1> QED BY <1>1, <1>2 DEF IInv

LEMMA TouchKeeps ==
    ASSUME IInv, NEW d \in Inodes, file_create(d)
    PROVE  IInv'
<1> DEFINE i == Min(Free)
           c == contents
           g == get(State, d)
           a == create_forced(g, i)
           e == [c EXCEPT ![i] = 0]
<1>1. /\ State \in Machines /\ c \in [Inodes -> Nat]
      /\ State.sound = sound /\ State.used = inode_bitmap
      /\ sound => Coherent(State, c)
  BY Before
<1>2. i \in Inodes /\ i \notin State.used
  BY <1>1, FreeInode DEF file_create
<1>3. /\ enter(a, d, e) /\ phase' # "directory" /\ phase' # "rmdir"
      /\ kept'.inode \in Inodes
  BY Before DEF file_create
<1> HIDE DEF i, c
<1>4. g \in Machines /\ (g.sound => sound)
  BY <1>1, GetTyped
<1>5. g.sound => Coherent(g, c) /\ g.used = State.used
  BY <1>1, <1>4, GetKeeps
<1> HIDE DEF g
<1>6. a \in Machines /\ (a.sound => g.sound)
  BY <1>2, <1>4, CreateTyped
<1>7. a.sound => Coherent(a, c) /\ c[i] = 0
  BY <1>1, <1>2, <1>4, <1>5, <1>6, CreateFree
<1>8. e \in [Inodes -> Nat] /\ (c[i] = 0 => e = c)
  BY <1>1
<1>9. a.sound => Coherent(a, e)
  BY <1>7, <1>8
<1> HIDE DEF a, e
<1> QED BY <1>3, <1>6, <1>8, <1>9, ConcludingEntry

LEMMA MkdirKeeps ==
    ASSUME IInv, NEW d \in Inodes, fs_directory_create(d)
    PROVE  IInv'
<1> DEFINE i == Min(Free)
           c == contents
           g == get(State, d)
           a == create_forced(g, i)
           b == append(a, i)
           s == append(b, i)
           c1 == [c EXCEPT ![i] = @ + 1]
           e == [c EXCEPT ![i] = 2]
<1>1. /\ State \in Machines /\ c \in [Inodes -> Nat]
      /\ State.sound = sound /\ State.used = inode_bitmap
      /\ sound => Coherent(State, c)
  BY Before
<1>2. i \in Inodes /\ i \notin State.used
  BY <1>1, FreeInode DEF fs_directory_create
<1>3. /\ enter(s, d, e) /\ phase' # "directory" /\ phase' # "rmdir"
      /\ kept'.inode \in Inodes
  BY Before DEF fs_directory_create
<1> HIDE DEF i, c
<1>4. g \in Machines /\ (g.sound => sound)
  BY <1>1, GetTyped
<1>5. g.sound => Coherent(g, c) /\ g.used = State.used
  BY <1>1, <1>4, GetKeeps
<1> HIDE DEF g
<1>6. a \in Machines /\ (a.sound => g.sound)
  BY <1>2, <1>4, CreateTyped
<1>7. a.sound => Coherent(a, c) /\ c[i] = 0
  BY <1>1, <1>2, <1>4, <1>5, <1>6, CreateFree
<1> HIDE DEF a
<1>8. b \in Machines /\ (b.sound => a.sound)
  BY <1>2, <1>6, AppendTyped
<1>9. c1 \in [Inodes -> Nat] /\ e \in [Inodes -> Nat]
  BY <1>1, <1>2
<1>10. b.sound => Coherent(b, c1)
  BY <1>1, <1>2, <1>6, <1>7, <1>8, AppendKeeps
<1>11. c[i] = 0 => [c1 EXCEPT ![i] = @ + 1] = e
  BY <1>1, <1>2
<1> HIDE DEF b, c1, e
<1>12. s \in Machines /\ (s.sound => b.sound)
  BY <1>2, <1>8, AppendTyped
<1>13. s.sound => Coherent(s, [c1 EXCEPT ![i] = @ + 1])
  BY <1>2, <1>8, <1>9, <1>10, <1>12, AppendKeeps
<1>14. s.sound => Coherent(s, e)
  BY <1>7, <1>8, <1>11, <1>12, <1>13
<1> HIDE DEF s
<1> QED BY <1>3, <1>9, <1>12, <1>14, ConcludingEntry

LEMMA RmKeeps ==
    ASSUME IInv, NEW i \in Inodes, NEW d \in Inodes, file_delete(i, d)
    PROVE  IInv'
<1> DEFINE c == contents
           g == get(State, d)
           s == get(g, i)
           t == destroy(s, s.slot)
           e == [c EXCEPT ![i] = 0]
<1>1. /\ State \in Machines /\ c \in [Inodes -> Nat] /\ State.sound = sound
      /\ sound => Coherent(State, c)
  BY Before
<1>2. /\ Become(t) /\ contents' = e /\ phase' # "directory" /\ phase' # "rmdir"
      /\ kept'.inode \in Inodes
  BY Before DEF file_delete
<1> HIDE DEF c
<1>3. g \in Machines /\ (g.sound => sound)
  BY <1>1, GetTyped
<1>4. g.sound => Coherent(g, c)
  BY <1>1, <1>3, GetKeeps
<1> HIDE DEF g
<1>5. s \in Machines /\ s.slot \in Slots /\ (s.sound => g.sound)
  BY <1>3, GetTyped
<1>6. s.sound => Coherent(s, c) /\ Holds(s, s.slot, i)
  BY <1>1, <1>3, <1>4, <1>5, GetKeeps
<1> HIDE DEF s
<1>7. t \in Machines /\ t.sound = s.sound
  BY <1>5, Destroying
<1>8. t.sound => Coherent(t, e)
  BY <1>1, <1>5, <1>6, <1>7, DestroyingKeeps
<1>9. e \in [Inodes -> Nat]
  BY <1>1
<1> HIDE DEF t, e
<1> QED BY <1>2, <1>7, <1>8, <1>9, Concluding

(* dir_remove takes its pointer.                                           *)
LEMMA RmdirOpenKeeps ==
    ASSUME IInv, NEW i \in Inodes, dir_remove_open(i)
    PROVE  IInv'
<1> DEFINE t == get(State, i)
<1>1. /\ State \in Machines /\ contents \in [Inodes -> Nat] /\ State.sound = sound
      /\ sound => Coherent(State, contents)
  BY Before
<1>2. t \in Machines /\ t.slot \in Slots /\ (t.sound => State.sound)
  BY <1>1, GetTyped
<1>3. t.sound => Coherent(t, contents) /\ Pinned(t, t.slot, i)
  BY <1>1, <1>2, GetKeeps, GetPins
<1>4. /\ Become(t) /\ phase' # "directory" /\ contents' = contents
      /\ kept' = [inode |-> i, slot |-> t.slot]
  BY DEF dir_remove_open
<1> HIDE DEF t
<1> QED BY <1>1, <1>2, <1>3, <1>4, Concluding

(* It gives up: the state of the cache is that after its last look-up.     *)
LEMMA RmdirRefuseKeeps ==
    ASSUME IInv, dir_remove_refuse
    PROVE  IInv'
<1>1. /\ State' = State /\ contents' = contents /\ sound' = sound
      /\ phase' = "run" /\ kept'.inode \in Inodes
  BY SlotsAndInodes DEF dir_remove_refuse, State, NoPointer
<1> QED BY <1>1 DEF IInv

(* The pointer is still that of its inode, whatever was looked up since it *)
(* was taken.                                                              *)
LEMMA RmdirKeeps ==
    ASSUME IInv, NEW d \in Inodes, dir_remove(d)
    PROVE  IInv'
<1> DEFINE c == contents
           i == kept.inode
           k == kept.slot
           s == get(State, i)
           u == destroy(s, k)
           t == get(u, d)
           e == [c EXCEPT ![i] = 0]
<1>1. /\ State \in Machines /\ c \in [Inodes -> Nat] /\ State.sound = sound
      /\ sound => Coherent(State, c) /\ Pinned(State, k, i)
      /\ i \in Inodes /\ k \in Slots
  BY Before DEF dir_remove
<1>2. /\ phase' # "directory" /\ phase' # "rmdir" /\ kept'.inode \in Inodes
      /\ Become(t) /\ contents' = e
  BY SlotsAndInodes DEF dir_remove, NoPointer
<1> HIDE DEF c, i, k
<1>3. s \in Machines /\ (s.sound => sound)
  BY <1>1, GetTyped
<1>4. s.sound => Coherent(s, c) /\ Holds(s, k, i)
  <2>1. SUFFICES ASSUME s.sound PROVE Coherent(s, c) /\ Holds(s, k, i)
    OBVIOUS
  <2>2. Coherent(State, c) /\ Pinned(State, k, i)
    BY <1>1, <1>3, <2>1
  <2>3. Coherent(s, c)
    BY <1>1, <2>1, <2>2, GetKeeps
  <2>4. Pinned(s, k, i)
    BY <1>1, <2>1, <2>2, GetPins
  <2> QED BY <2>3, <2>4 DEF Pinned
<1> HIDE DEF s
<1>5. u \in Machines /\ u.sound = s.sound
  BY <1>1, <1>3, Destroying
<1>6. e \in [Inodes -> Nat]
  BY <1>1
<1>7. u.sound => Coherent(u, e)
  BY <1>1, <1>3, <1>4, <1>5, DestroyingKeeps
<1> HIDE DEF u, e
<1>8. t \in Machines /\ (t.sound => u.sound)
  BY <1>5, GetTyped
<1>9. t.sound => Coherent(t, e)
  BY <1>5, <1>6, <1>7, <1>8, GetKeeps
<1> HIDE DEF t
<1> QED BY <1>2, <1>6, <1>8, <1>9, Concluding

LEMMA NextKeeps == IInv /\ [Next]_vars => IInv'
<1>1. ASSUME IInv, UNCHANGED vars PROVE IInv'
  <2>1. /\ State' = State /\ Fresh' = Fresh /\ contents' = contents /\ sound' = sound
        /\ phase' = phase /\ kept' = kept
    BY <1>1 DEF State, Fresh, vars
  <2> QED BY <1>1, <2>1 DEF IInv
<1>2. ASSUME IInv, Next PROVE IInv'
  BY <1>2, RootKeeps, LoadKeeps, LookupKeeps, TouchKeeps, MkdirKeeps, RmKeeps,
        RmdirOpenKeeps, RmdirRefuseKeeps, RmdirKeeps
     DEF Next
<1> QED BY <1>1, <1>2

(* What fs_inode.c keeps between the commands of the shell: in every state *)
(* they reach, until the hand leaves the cache or a free inode is looked   *)
(* up, the cache and the table on disk are coherent.                       *)
THEOREM Invariance == Spec => []IInv
  BY InitCoherent, NextKeeps, PTL DEF Spec

(* No change of an inode is lost, and each destruction hits the inode that *)
(* was asked for, also through the pointer dir_remove kept.                *)
THEOREM NoUpdateIsLost == Spec => []UpdatesSurvive
<1>1. IInv => UpdatesSurvive
  <2>1. SUFFICES ASSUME IInv, sound, NEW i \in Inodes PROVE Seen(i) = contents[i]
    BY DEF UpdatesSurvive
  <2> DEFINE k == Min(Cached(State, i))
  <2>2. State \in Machines /\ Coherent(State, contents)
    BY <2>1 DEF IInv
  <2>3. CASE Cached(State, i) = {}
    <3>1. \A l \in Slots : ~ Holds(State, l, i)
      BY <2>2, <2>3, CachedSlots
    <3>2. State.table[i] = contents[i]
      BY <2>2, <3>1 DEF Coherent
    <3> QED BY <2>3, <3>2 DEF Seen, State
  <2>4. CASE Cached(State, i) # {}
    <3>1. k \in Cached(State, i) /\ Cached(State, i) \subseteq Slots
      BY <2>2, <2>4, CachedSlots DEF Cached
    <3>2. k \in Slots /\ Holds(State, k, i)
      BY <2>2, <3>1, CachedSlots
    <3>3. Seen(i) = State.cache[k].size
      BY <2>4 DEF Seen, State
    <3> HIDE DEF k
    <3> QED BY <2>2, <3>2, <3>3, CoherentFacts DEF Holds
  <2> QED BY <2>3, <2>4
<1> QED BY <1>1, Invariance, PTL

(* The pointer that dir_remove took is not given to another inode by the   *)
(* look-ups between taking and using it, however many they are.            *)
THEOREM PointersStayGood == Spec => []PointerStaysGood
<1>1. IInv => PointerStaysGood
  BY DEF IInv, PointerStaysGood, Pinned, Holds, State
<1> QED BY <1>1, Invariance, PTL

(* No inode is cached twice, although fs_inode_create_forced adds without  *)
(* a search.                                                               *)
THEOREM NoSecondCopy == Spec => []OneCopy
<1>1. IInv => OneCopy
  <2>1. SUFFICES ASSUME IInv, sound, NEW i \in Inodes
                 PROVE  Cardinality(Cached(State, i)) <= 1
    BY DEF OneCopy
  <2> DEFINE T == Cached(State, i)
  <2>2. State \in Machines /\ Coherent(State, contents)
    BY <2>1 DEF IInv
  <2>3. \A k, l \in T : k = l
    BY <2>2, CoherentFacts DEF Cached
  <2> HIDE DEF T
  <2>4. T = {} \/ \E k : T = {k}
    BY <2>3
  <2>5. Cardinality(T) <= 1
    <3>1. CASE T = {}
      BY <3>1, FS_EmptySet
    <3>2. CASE \E k : T = {k}
      <4>1. Cardinality(T) = 1
        BY <3>2, FS_Singleton
      <4> QED BY <4>1
    <3> QED BY <2>4, <3>1, <3>2
  <2> QED BY <2>5 DEF T
<1> QED BY <1>1, Invariance, PTL

(* An entry that is not dirty can leave the cache without being written.   *)
THEOREM CleanCanBeDropped == Spec => []CleanMeansOnDisk
<1>1. IInv => CleanMeansOnDisk
  <2>1. SUFFICES ASSUME IInv, sound, NEW k \in Slots,
                        inode_cache[k].valid, ~ inode_cache[k].dirty
                 PROVE  inode_cache[k].size = table[inode_cache[k].index]
    BY DEF CleanMeansOnDisk
  <2>2. State \in Machines /\ Coherent(State, contents)
    BY <2>1 DEF IInv
  <2>3. State.cache = inode_cache /\ State.table = table
    BY DEF State
  <2> QED BY <2>1, <2>2, <2>3, CoherentFacts
<1> QED BY <1>1, Invariance, PTL

=============================================================================

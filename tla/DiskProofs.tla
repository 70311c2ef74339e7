----------------------------- MODULE DiskProofs ------------------------------
(***************************************************************************)
(* Proofs about the disk: the driver with the drive it polls, and the      *)
(* volume the file system makes of the sectors.                            *)
(*                                                                         *)
(* The driver is proved for sectors of any size, a drive of any number of  *)
(* them, and any calls of the sizes the driver is made for; the volume for *)
(* sectors, blocks and inodes of any size, and any number of starts.       *)
(***************************************************************************)
EXTENDS Ata, Volume, FiniteSetTheorems, SequenceTheorems, TLAPS

-----------------------------------------------------------------------------
(* Division with remainder, in the forms the provers can use.              *)
LEMMA Quotient ==
    ASSUME NEW n \in Nat, NEW d \in Nat \ {0}
    PROVE  n = d * (n \div d) + (n % d)
  OBVIOUS

LEMMA Remainder ==
    ASSUME NEW n \in Nat, NEW d \in Nat \ {0}
    PROVE  n % d \in 0 .. d - 1
  OBVIOUS

LEMMA QuotientNat ==
    ASSUME NEW n \in Nat, NEW d \in Nat \ {0}
    PROVE  n \div d \in Nat
<1> DEFINE q == n \div d
           r == n % d
<1>1. n = d * q + r
  BY Quotient
<1>2. r \in 0 .. d - 1
  BY Remainder
<1>3. q \in Int
  OBVIOUS
<1> HIDE DEF q, r
<1>4. q < 0 => d * q <= - d
  BY <1>3
<1>5. q \in Nat
  BY <1>1, <1>2, <1>3, <1>4
<1> QED BY <1>5 DEF q

(* Multiplication keeps the order, and what is between.                    *)
LEMMA Product ==
    ASSUME NEW a \in Nat, NEW b \in Nat, NEW k \in Nat, NEW d \in Nat, a + k <= b
    PROVE  /\ a * d \in Nat /\ b * d \in Nat /\ k * d \in Nat
           /\ a * d + k * d <= b * d
<1>1. PICK m \in Nat : b = a + k + m
  <2>1. b - (a + k) \in Nat /\ b = a + k + (b - (a + k))
    OBVIOUS
  <2> QED BY <2>1
<1>2. b * d = a * d + k * d + m * d
  BY <1>1
<1>3. a * d \in Nat /\ k * d \in Nat /\ m * d \in Nat /\ b * d \in Nat
  BY <1>1
<1> QED BY <1>2, <1>3

LEMMA AtLeastOnce ==
    ASSUME NEW a \in Nat, NEW d \in Nat \ {0}
    PROVE  a * d \in Nat /\ a <= a * d
<1>1. PICK e \in Nat : d = 1 + e
  <2>1. d - 1 \in Nat /\ d = 1 + (d - 1)
    OBVIOUS
  <2> QED BY <2>1
<1>2. a * d = a + a * e /\ a * e \in Nat
  BY <1>1
<1> QED BY <1>2

(* A number below m times d has a quotient below m.                        *)
LEMMA QuotientBelow ==
    ASSUME NEW n \in Nat, NEW d \in Nat \ {0}, NEW m \in Nat, n < m * d
    PROVE  n \div d < m
<1> DEFINE q == n \div d
           r == n % d
<1>1. n = d * q + r
  BY Quotient
<1>2. r \in 0 .. d - 1
  BY Remainder
<1>3. q \in Nat
  BY QuotientNat
<1> HIDE DEF q, r
<1>4. CASE q >= m
  <2>1. m * d + 0 * d <= q * d /\ q * d \in Nat /\ m * d \in Nat
    BY <1>3, <1>4, Product
  <2>2. q * d = d * q
    BY <1>3
  <2> QED BY <1>1, <1>2, <2>1, <2>2
<1>5. CASE ~ (q >= m)
  BY <1>3, <1>5 DEF q
<1> QED BY <1>4, <1>5

-----------------------------------------------------------------------------
(***************************************************************************)
(* The driver.                                                             *)
(***************************************************************************)
W == ATA_SECTOR_WORD_COUNT
SectorType == [1 .. W -> Nat]

ReadCalls == {[op |-> "read", lba |-> r.lba, sector_count |-> r.sector_count] : r \in Reads}
WriteCalls == {[op |-> "write", lba |-> w.lba, buf |-> w.buf,
                sector_count |-> SectorsOf(Len(w.buf))] : w \in Writes}

(* The first n sectors of the call are stored, and nothing else changed.   *)
Stored(n) == \A l \in Lbas : media[l] = IF l < call.lba + n THEN Wanted[l] ELSE before[l]

(* The drive is at work on the command of the call.                        *)
Commanded(op) ==
    /\ call.op = op
    /\ command = [op |-> call.op, lba |-> call.lba, sector_count |-> call.sector_count]
    /\ done \in 0 .. call.sector_count
    /\ "DRQ" \in status => done < call.sector_count

(* A write on its way: a sector that was given is stored, or asked for     *)
(* again, before another one is given; or else there is an error to see.   *)
Writing ==
    /\ Commanded("write")
    /\ Stored(done)
    /\ "ERR" \in status => failed
    /\ given # <<>> => /\ "BSY" \in status
                       /\ passed = done + 1 /\ given = Sector(call.buf, done)
    /\ given = <<>> => "ERR" \in status \/ done = passed

Reading ==
    /\ Commanded("read")
    /\ media = before /\ given = <<>>
    /\ done = passed /\ Delivered(passed)

(* The flush of the cache was accepted.                                    *)
Flushing ==
    /\ command = Idle /\ given = <<>> /\ "DRQ" \notin status
    /\ call.op = "write"
    /\ \E n \in 0 .. call.sector_count : Stored(n) /\ (~ failed => n = call.sector_count)

AtRest ==
    /\ given = <<>> /\ "DRQ" \notin status
    /\ "BSY" \in status => command = Idle

AtaTypes ==
    /\ call \in {Idle} \cup ReadCalls \cup WriteCalls
    /\ passed \in 0 .. call.sector_count /\ done \in Nat
    /\ status \in {{"BSY"}, {"DRDY"}, {"DRDY", "DRQ"}, {"DRDY", "ERR"}}
    /\ media \in [Lbas -> SectorType] /\ before \in [Lbas -> SectorType]
    /\ buffer \in Seq(Nat)
    /\ failed \in BOOLEAN

(* What the driver and the drive know of each other at each point of a     *)
(* call.  The hard part is the write: the last sector may still be on its  *)
(* way, or lost, when the driver has moved on to the flush.                *)
AtaPhases ==
    /\ at = "idle" => /\ AtRest
                      /\ \E n \in 0 .. call.sector_count : Stored(n)
                      /\ SuccessMeansDone
    /\ at = "wait_bsy" => AtRest /\ media = before /\ passed = 0 /\ call # Idle /\ buffer = <<>>
    /\ at = "wait_drdy" => /\ AtRest /\ "BSY" \notin status
                           /\ media = before /\ passed = 0 /\ call # Idle /\ buffer = <<>>
    /\ at \in {"read", "next", "settle"} => Reading
    /\ at = "read" => passed < call.sector_count
    /\ at \in {"write", "flush"} => Writing
    /\ at = "write" => passed < call.sector_count
    /\ at = "flush" => passed = call.sector_count
    /\ at = "finish" => (Writing /\ passed = call.sector_count) \/ Flushing
    /\ at # "idle" => result = "none"
    /\ at \in {"idle", "wait_bsy", "wait_drdy", "read", "next", "settle", "write", "flush", "finish"}

AtaIInv == AtaTypes /\ AtaPhases

-----------------------------------------------------------------------------
(* A buffer fits in its sectors (ata_write rounds up).                     *)
LEMMA BufferFits ==
    ASSUME NEW words \in Nat
    PROVE  /\ SectorsOf(words) \in Nat
           /\ words <= SectorsOf(words) * W
           /\ words > 0 => SectorsOf(words) # 0
<1> DEFINE n == words + W - 1
           q == n \div W
           r == n % W
<1>1. W \in Nat \ {0}
  BY CallsAssumption DEF W
<1>2. n \in Nat
  BY <1>1
<1>3. n = W * q + r
  BY <1>1, <1>2, Quotient
<1>4. r \in 0 .. W - 1
  BY <1>1, <1>2, Remainder
<1>5. q \in Int
  BY <1>1, <1>2
<1>6. SectorsOf(words) = q
  BY DEF SectorsOf, W
<1> HIDE DEF q, r, W
<1>7. q < 0 => W * q <= - W
  BY <1>1, <1>5
<1>8. q \in Nat
  BY <1>1, <1>2, <1>3, <1>4, <1>5, <1>7
<1>9. words <= q * W
  <2>1. q * W = W * q
    BY <1>1, <1>8
  <2> QED BY <1>1, <1>3, <1>4, <1>8, <2>1
<1>10. words > 0 => q # 0
  BY <1>1, <1>9
<1> QED BY <1>6, <1>8, <1>9, <1>10

(* What a call may be.                                                     *)
LEMMA CallFacts ==
    ASSUME call \in {Idle} \cup ReadCalls \cup WriteCalls
    PROVE  /\ call.sector_count \in Nat /\ call.lba \in Nat
           /\ call = Idle \/ call.op \in {"read", "write"}
           /\ call.op = "read" => call \in ReadCalls
           /\ call.op = "write" => call \in WriteCalls
           /\ call.op # "none" <=> call # Idle
           /\ call # Idle => call.sector_count # 0
           /\ \A n \in 0 .. call.sector_count - 1 : call.lba + n \in Lbas
<1>1. CASE call = Idle
  BY <1>1 DEF Idle
<1>2. CASE call \in ReadCalls
  <2>1. PICK r \in Reads : call = [op |-> "read", lba |-> r.lba, sector_count |-> r.sector_count]
    BY <1>2 DEF ReadCalls
  <2>2. /\ r.lba \in Nat /\ r.sector_count \in 1 .. 255
        /\ r.lba .. r.lba + r.sector_count - 1 \subseteq Lbas
    BY CallsAssumption
  <2>3. \A n \in 0 .. r.sector_count - 1 : r.lba + n \in Lbas
    BY <2>2
  <2> QED BY <1>2, <2>1, <2>2, <2>3 DEF Idle
<1>3. CASE call \in WriteCalls
  <2>1. PICK w \in Writes : call = [op |-> "write", lba |-> w.lba, buf |-> w.buf,
                                    sector_count |-> SectorsOf(Len(w.buf))]
    BY <1>3 DEF WriteCalls
  <2>2. /\ w.lba \in Nat /\ Len(w.buf) \in Nat /\ Len(w.buf) > 0
        /\ w.lba .. w.lba + SectorsOf(Len(w.buf)) - 1 \subseteq Lbas
    <3>1. w.lba \in Nat /\ w.buf \in Seq(Nat)
      BY CallsAssumption
    <3>2. Len(w.buf) \in Nat
      BY <3>1, LenProperties
    <3> QED BY <3>1, <3>2, CallsAssumption
  <2>3. SectorsOf(Len(w.buf)) \in Nat /\ SectorsOf(Len(w.buf)) # 0
    BY <2>2, BufferFits
  <2>4. \A n \in 0 .. SectorsOf(Len(w.buf)) - 1 : w.lba + n \in Lbas
    BY <2>2, <2>3
  <2> QED BY <1>3, <2>1, <2>2, <2>3, <2>4 DEF Idle
<1> QED BY <1>1, <1>2, <1>3

(* The sector the driver makes of the buffer is the one that is wanted.    *)
LEMMA WantedSector ==
    ASSUME call \in WriteCalls, NEW n \in 0 .. call.sector_count - 1
    PROVE  /\ Sector(call.buf, n) \in SectorType
           /\ Sector(call.buf, n) # <<>>
           /\ Wanted[call.lba + n] = Sector(call.buf, n)
<1> DEFINE sc == call.sector_count
           len == Len(call.buf)
           rest == sc * W - len
           S == Sector(call.buf, n)
           from == n * W + 1
           to == (n + 1) * W
<1>1. PICK w \in Writes : call = [op |-> "write", lba |-> w.lba, buf |-> w.buf,
                                  sector_count |-> SectorsOf(Len(w.buf))]
  BY DEF WriteCalls
<1>2. W \in Nat \ {0}
  BY CallsAssumption DEF W
<1>3. call.buf \in Seq(Nat) /\ len \in Nat /\ sc = SectorsOf(len)
  BY <1>1, CallsAssumption
<1>4. sc \in Nat /\ len <= sc * W
  BY <1>3, BufferFits
<1>5. call.op = "write" /\ call.lba \in Nat /\ call.lba + n \in Lbas
  BY CallFacts, <1>1
<1>6. rest \in Nat
  <2>1. sc * W \in Nat
    BY <1>2, <1>4
  <2> HIDE DEF len, sc
  <2> QED BY <1>3, <1>4, <2>1
<1>7. /\ Zeros(rest) \in Seq(Nat) /\ Len(Zeros(rest)) = rest
      /\ \A k \in 1 .. rest : Zeros(rest)[k] = 0
  <2> HIDE DEF rest
  <2> QED BY <1>6, IsASeq DEF Zeros
<1>8. /\ Padded \in Seq(Nat) /\ Len(Padded) = sc * W
      /\ \A j \in 1 .. sc * W : Padded[j] = IF j <= len THEN call.buf[j] ELSE 0
  <2>1. Padded = call.buf \o Zeros(rest)
    BY DEF Padded, W
  <2>2. len + rest = sc * W
    BY <1>2, <1>3, <1>4
  <2> DEFINE B == call.buf
             Z == Zeros(rest)
  <2>3. /\ Padded \in Seq(Nat) /\ Len(Padded) = len + rest
        /\ \A j \in 1 .. len + rest :
              Padded[j] = IF j <= len THEN call.buf[j] ELSE Zeros(rest)[j - len]
    <3>1. B \in Seq(Nat) /\ Z \in Seq(Nat) /\ Padded = B \o Z /\ Len(B) = len /\ Len(Z) = rest
      BY <1>3, <1>7, <2>1
    <3> HIDE DEF B, Z, len, rest
    <3>2. /\ B \o Z \in Seq(Nat) /\ Len(B \o Z) = Len(B) + Len(Z)
          /\ \A j \in 1 .. Len(B) + Len(Z) :
                (B \o Z)[j] = IF j <= Len(B) THEN B[j] ELSE Z[j - Len(B)]
      BY <3>1, ConcatProperties
    <3>3. /\ Padded \in Seq(Nat) /\ Len(Padded) = len + rest
          /\ \A j \in 1 .. len + rest : Padded[j] = IF j <= len THEN B[j] ELSE Z[j - len]
      BY <3>1, <3>2, Zenon
    <3> QED BY <3>3 DEF B, Z
  <2> HIDE DEF rest, len
  <2>4. ASSUME NEW j \in 1 .. len + rest, ~ (j <= len) PROVE Zeros(rest)[j - len] = 0
    BY <1>3, <1>6, <1>7, <2>4
  <2> QED BY <2>2, <2>3, <2>4
<1>9. /\ n \in Nat /\ n * W \in Nat /\ to = n * W + W /\ to <= sc * W /\ from \in Nat
  <2>1. n \in Nat /\ n * W \in Nat /\ to = n * W + W
    BY <1>2, <1>4
  <2>2. PICK k \in Nat : sc = (n + 1) + k
    <3>1. sc - (n + 1) \in Nat /\ sc = (n + 1) + (sc - (n + 1))
      BY <1>4
    <3> QED BY <3>1
  <2>3. sc * W = to + k * W /\ k * W \in Nat
    <3> HIDE DEF sc
    <3> QED BY <1>2, <2>1, <2>2
  <2> QED BY <1>2, <2>1, <2>3
<1>10. ASSUME NEW k \in 1 .. W
       PROVE  /\ n * W + k \in 1 .. sc * W
              /\ S[k] = Padded[n * W + k] /\ Padded[n * W + k] \in Nat
  <2>1. n * W + k \in 1 .. sc * W
    BY <1>2, <1>4, <1>9
  <2>2. S[k] = IF n * W + k <= len THEN call.buf[n * W + k] ELSE 0
    BY DEF Sector, W
  <2>3. S[k] = Padded[n * W + k]
    BY <1>8, <2>1, <2>2
  <2>4. Padded[n * W + k] \in Nat
    BY <1>8, <2>1, ElementOfSeq
  <2> QED BY <2>1, <2>3, <2>4
<1>11. S \in SectorType
  <2>1. S = [k \in 1 .. W |-> S[k]]
    BY DEF Sector, W
  <2> HIDE DEF S
  <2> QED BY <1>10, <2>1 DEF SectorType
<1>12. S # <<>>
  <2>1. 1 \in DOMAIN S
    BY <1>2, <1>11 DEF SectorType
  <2> QED BY <2>1
<1>13. Wanted[call.lba + n] = SubSeq(Padded, from, to)
  <2> DEFINE l == call.lba + n
  <2>1. l \in call.lba .. call.lba + sc - 1 /\ l \in Lbas
    BY <1>4, <1>5
  <2>2. l - call.lba = n
    BY <1>5, <1>9
  <2> HIDE DEF l
  <2>3. Wanted[l] = SubSeq(Padded, (l - call.lba) * W + 1, (l - call.lba + 1) * W)
    BY <1>5, <2>1 DEF Wanted, W
  <2>4. Wanted[l] = SubSeq(Padded, from, to)
    BY <2>2, <2>3
  <2> QED BY <2>4 DEF l
<1>14. SubSeq(Padded, from, to) = S
  <2> DEFINE T == SubSeq(Padded, from, to)
  <2>1. from \in Int /\ to \in Int /\ to - from + 1 = W /\ from <= to
    BY <1>2, <1>9
  <2>2. \A j \in from .. to : Padded[j] \in Nat
    <3> SUFFICES ASSUME NEW j \in from .. to PROVE j \in 1 .. Len(Padded)
      BY <1>8, ElementOfSeq
    <3> HIDE DEF from, to, sc
    <3>1. from >= 1 /\ to <= sc * W /\ sc * W \in Nat
      BY <1>2, <1>4, <1>9 DEF from
    <3> QED BY <1>8, <2>1, <3>1
  <2> HIDE DEF from, to, S
  <2>3. /\ T \in Seq(Nat) /\ Len(T) = to - from + 1
        /\ \A k \in 1 .. to - from + 1 : T[k] = Padded[from + k - 1]
    BY <2>1, <2>2, SubSeqProperties
  <2>4. S \in Seq(Nat) /\ Len(S) = W
    BY <1>2, <1>11, LenProperties, IsASeq DEF SectorType
  <2> HIDE DEF T
  <2>5. ASSUME NEW k \in 1 .. W PROVE T[k] = S[k]
    <3>1. from + k - 1 = n * W + k
      BY <1>2, <1>9 DEF from
    <3> QED BY <1>10, <2>1, <2>3, <3>1
  <2> QED BY <2>1, <2>3, <2>4, <2>5, SeqEqual DEF T
<1> QED BY <1>11, <1>12, <1>13, <1>14

(* A sector more at the end of a row of n sectors.                         *)
LEMMA OneMoreSector ==
    ASSUME NEW b \in Seq(Nat), NEW n \in Nat, Len(b) = n * W, NEW S \in SectorType
    PROVE  /\ b \o S \in Seq(Nat) /\ Len(b \o S) = (n + 1) * W
           /\ \A k \in 0 .. n - 1 :
                 SubSeq(b \o S, k * W + 1, (k + 1) * W) = SubSeq(b, k * W + 1, (k + 1) * W)
           /\ SubSeq(b \o S, n * W + 1, (n + 1) * W) = S
<1> DEFINE end == n * W
<1>1. W \in Nat \ {0}
  BY CallsAssumption DEF W
<1>2. S \in Seq(Nat) /\ Len(S) = W /\ S \in [1 .. W -> Nat]
  BY <1>1, IsASeq, LenProperties DEF SectorType
<1>3. end \in Nat /\ (n + 1) * W = end + W
  BY <1>1
<1>4. b \o S \in Seq(Nat) /\ Len(b \o S) = end + W
  BY <1>2, ConcatProperties
<1>5. ASSUME NEW k \in 0 .. n - 1
      PROVE  SubSeq(b \o S, k * W + 1, (k + 1) * W) = SubSeq(b, k * W + 1, (k + 1) * W)
  <2> DEFINE from == k * W + 1
             to == (k + 1) * W
  <2>1. k \in Nat /\ k * W \in Nat /\ to = k * W + W
    BY <1>1
  <2>2. PICK j \in Nat : n = (k + 1) + j
    <3>1. n - (k + 1) \in Nat /\ n = (k + 1) + (n - (k + 1))
      OBVIOUS
    <3> QED BY <3>1
  <2>3. end = to + j * W /\ j * W \in Nat
    BY <1>1, <2>1, <2>2
  <2> HIDE DEF end
  <2>4. from \in 1 .. Len(b) /\ to \in 1 .. Len(b)
    BY <1>1, <1>3, <2>1, <2>3 DEF end
  <2> HIDE DEF from, to
  <2>5. SubSeq(b \o S, from, to) = SubSeq(b, from, to)
    BY <1>2, <2>4, SubSeqOfConcat1
  <2> QED BY <2>5 DEF from, to
<1>6. SubSeq(b \o S, end + 1, end + W) = S
  <2> DEFINE from == end + 1
             to == end + W
  <2>1. /\ from \in Len(b) + 1 .. Len(b) + Len(S) /\ to \in Len(b) + 1 .. Len(b) + Len(S)
        /\ from - Len(b) = 1 /\ to - Len(b) = Len(S)
    BY <1>1, <1>2, <1>3
  <2> HIDE DEF from, to
  <2>2. SubSeq(b \o S, from, to) = SubSeq(S, from - Len(b), to - Len(b))
    BY <1>2, <2>1, SubSeqOfConcat2
  <2>3. SubSeq(S, 1, Len(S)) = S
    BY <1>2, SubSeqFull
  <2> QED BY <2>1, <2>2, <2>3 DEF from, to
<1> QED BY <1>3, <1>4, <1>5, <1>6

-----------------------------------------------------------------------------
(* What is wanted depends on the call alone.                               *)
LEMMA SameCall ==
    ASSUME call' = call, before' = before
    PROVE  Wanted' = Wanted
  BY DEF Wanted, Padded

LEMMA SameMedia ==
    ASSUME call' = call, before' = before, media' = media, NEW n
    PROVE  Stored(n)' <=> Stored(n)
  BY SameCall DEF Stored

(* Of a call that has just been made nothing is stored.                    *)
LEMMA NothingStored ==
    ASSUME AtaTypes, media = before
    PROVE  Stored(0) /\ (call.op # "write" => Wanted = before)
<1>1. call.lba \in Nat /\ Lbas \subseteq Nat
  BY CallFacts, CallsAssumption DEF AtaTypes
<1>2. ASSUME NEW l \in Lbas, l < call.lba PROVE Wanted[l] = before[l]
  <2>1. ~ (l \in call.lba .. call.lba + call.sector_count - 1)
    BY <1>1, <1>2
  <2> QED BY <2>1 DEF Wanted
<1>3. Stored(0)
  BY <1>1, <1>2 DEF Stored
<1>4. call.op # "write" => Wanted = before
  BY DEF Wanted, AtaTypes
<1> QED BY <1>3, <1>4

(* When every sector is stored the call is carried out.                    *)
LEMMA AllStored ==
    ASSUME AtaTypes, Stored(call.sector_count)
    PROVE  media = Wanted
<1>1. call.lba \in Nat /\ call.sector_count \in Nat /\ Lbas \subseteq Nat
  BY CallFacts, CallsAssumption DEF AtaTypes
<1>2. ASSUME NEW l \in Lbas PROVE media[l] = Wanted[l]
  <2>1. CASE l < call.lba + call.sector_count
    BY <2>1 DEF Stored
  <2>2. CASE ~ (l < call.lba + call.sector_count)
    <3>1. ~ (l \in call.lba .. call.lba + call.sector_count - 1)
      BY <1>1, <2>2
    <3> QED BY <2>2, <3>1 DEF Stored, Wanted
  <2> QED BY <2>1, <2>2
<1>3. Wanted = [l \in Lbas |-> Wanted[l]] /\ media = [l \in Lbas |-> media[l]]
  BY DEF Wanted, AtaTypes
<1> QED BY <1>2, <1>3

-----------------------------------------------------------------------------
(* The invariant holds at the start: nobody has called.                    *)
LEMMA AtaInitIInv == AtaInit => AtaIInv
<1> SUFFICES ASSUME AtaInit PROVE AtaIInv
  OBVIOUS
<1> USE DEF AtaInit
<1>1. W \in Nat \ {0}
  BY CallsAssumption DEF W
<1>2. Zeros(W) \in SectorType
  BY <1>1 DEF Zeros, SectorType
<1>3. AtaTypes
  <2>1. media \in [Lbas -> SectorType] /\ before \in [Lbas -> SectorType]
    BY <1>2 DEF W
  <2>2. buffer \in Seq(Nat)
    BY EmptySeq
  <2>3. /\ call \in {Idle} \cup ReadCalls \cup WriteCalls /\ failed \in BOOLEAN
        /\ passed \in 0 .. call.sector_count /\ done \in Nat
        /\ status \in {{"BSY"}, {"DRDY"}, {"DRDY", "DRQ"}, {"DRDY", "ERR"}}
    <3>1. Idle.sector_count = 0
      BY DEF Idle
    <3>2. call \in {Idle} \cup ReadCalls \cup WriteCalls /\ failed \in BOOLEAN
      OBVIOUS
    <3>3. passed \in 0 .. call.sector_count /\ done \in Nat
      BY <3>1
    <3>4. status \in {{"BSY"}, {"DRDY"}, {"DRDY", "DRQ"}, {"DRDY", "ERR"}}
      OBVIOUS
    <3> QED BY <3>2, <3>3, <3>4
  <2> QED BY <2>1, <2>2, <2>3 DEF AtaTypes
<1>4. Stored(0) /\ 0 \in 0 .. call.sector_count
  BY <1>3, NothingStored DEF Idle
<1>5. AtRest
  BY DEF AtRest, Idle
<1>6. SuccessMeansDone
  BY DEF SuccessMeansDone
<1>7. AtaPhases
  BY <1>4, <1>5, <1>6 DEF AtaPhases
<1> QED BY <1>3, <1>7 DEF AtaIInv

(* A call starts from what the drive holds then.                           *)
LEMMA CallPreserves ==
    ASSUME AtaIInv, NEW c \in ReadCalls \cup WriteCalls, Call(c)
    PROVE  AtaIInv'
<1> USE DEF AtaIInv
<1>1. /\ at = "idle" /\ at' = "wait_bsy" /\ call' = c /\ passed' = 0 /\ result' = "none"
      /\ buffer' = <<>> /\ before' = media /\ failed' = FALSE
      /\ UNCHANGED <<status, command, done, given, media>>
  BY DEF Call, Goto, drive
<1>2. c # Idle /\ c.sector_count \in Nat
  <2>1. c \in ReadCalls => c # Idle /\ c.sector_count \in Nat
    BY CallsAssumption DEF ReadCalls, Idle
  <2>2. c \in WriteCalls => c # Idle /\ c.sector_count \in Nat
    <3> SUFFICES ASSUME c \in WriteCalls PROVE c # Idle /\ c.sector_count \in Nat
      OBVIOUS
    <3>1. PICK w \in Writes : c = [op |-> "write", lba |-> w.lba, buf |-> w.buf,
                                  sector_count |-> SectorsOf(Len(w.buf))]
      BY DEF WriteCalls
    <3>2. w.buf \in Seq(Nat)
      BY CallsAssumption
    <3>3. SectorsOf(Len(w.buf)) \in Nat
      BY <3>2, LenProperties, BufferFits
    <3> QED BY <3>1, <3>3 DEF Idle
  <2> QED BY <2>1, <2>2
<1>3. AtaTypes'
  <2>1. buffer' \in Seq(Nat)
    BY <1>1, EmptySeq
  <2>2. passed' \in 0 .. call'.sector_count
    BY <1>1, <1>2
  <2>3. /\ call' \in {Idle} \cup ReadCalls \cup WriteCalls
        /\ media' = media /\ before' = media /\ status' = status /\ done' = done
        /\ failed' = FALSE
    BY <1>1
  <2>4. AtaTypes
    OBVIOUS
  <2> QED BY <2>1, <2>2, <2>3, <2>4 DEF AtaTypes
<1>4. AtRest'
  BY <1>1 DEF AtaPhases, AtRest
<1>5. AtaPhases'
  BY <1>1, <1>2, <1>4 DEF AtaPhases
<1> QED BY <1>3, <1>5

(* Nothing but a successful end of a call has a result to live up to.      *)
LEMMA NoSuccess ==
    ASSUME result' # "ATA_SUCCESS"
    PROVE  SuccessMeansDone'
  BY DEF SuccessMeansDone

LEMMA SetAddressPreserves == AtaIInv /\ SetAddress => AtaIInv'
<1> SUFFICES ASSUME AtaIInv, SetAddress PROVE AtaIInv'
  OBVIOUS
<1> USE DEF AtaIInv
<1>1. /\ at = "wait_bsy" /\ at' = "wait_drdy" /\ "BSY" \notin status
      /\ UNCHANGED <<call, passed, result, buffer, status, command, done, given, media,
                     before, failed>>
  BY DEF SetAddress, Goto, drive, NotBusy
<1>2. AtaTypes'
  BY <1>1 DEF AtaTypes
<1>3. AtRest'
  BY <1>1 DEF AtaPhases, AtRest
<1>4. AtaPhases'
  BY <1>1, <1>3 DEF AtaPhases
<1> QED BY <1>2, <1>4

(* The command reaches a drive that is not at work.                        *)
LEMMA SendCommandPreserves == AtaIInv /\ SendCommand => AtaIInv'
<1> SUFFICES ASSUME AtaIInv, SendCommand PROVE AtaIInv'
  OBVIOUS
<1> USE DEF AtaIInv
<1>1. /\ at = "wait_drdy" /\ AtRest /\ "BSY" \notin status
      /\ media = before /\ passed = 0 /\ call # Idle /\ buffer = <<>> /\ result = "none"
  BY DEF SendCommand, Return, Goto, AtaPhases
<1>2. UNCHANGED <<call, passed, buffer, before, failed>>
  BY DEF SendCommand
<1>3. call.sector_count \in Nat /\ call.sector_count # 0 /\ call.op \in {"read", "write"}
  BY <1>1, CallFacts DEF AtaTypes
<1>4. Stored(0)
  BY <1>1, NothingStored
<1>5. CASE /\ "ERR" \in status /\ at' = "idle" /\ result' = "ATA_ERROR"
           /\ UNCHANGED <<status, command, done, given, media>>
  <2>1. AtaTypes'
    BY <1>2, <1>5 DEF AtaTypes
  <2>2. AtRest'
    BY <1>1, <1>5 DEF AtRest
  <2>3. Stored(0)' /\ 0 \in 0 .. call'.sector_count
    BY <1>2, <1>3, <1>4, <1>5, SameMedia
  <2>4. SuccessMeansDone'
    BY <1>5, NoSuccess
  <2>5. AtaPhases'
    BY <1>5, <2>2, <2>3, <2>4 DEF AtaPhases
  <2> QED BY <2>1, <2>5
<1>6. CASE /\ at' = call.op
           /\ Command([op |-> call.op, lba |-> call.lba, sector_count |-> call.sector_count])
           /\ UNCHANGED <<result, given, media>>
  <2>1. /\ status' = {"BSY"} /\ done' = 0
        /\ command' = [op |-> call.op, lba |-> call.lba, sector_count |-> call.sector_count]
    BY <1>1, <1>6 DEF Command, AtRest
  <2>2. AtaTypes'
    BY <1>2, <1>6, <2>1 DEF AtaTypes
  <2>3. Stored(0)'
    BY <1>2, <1>4, <1>6, SameMedia
  <2>4. Commanded(call.op)'
    BY <1>2, <1>3, <2>1 DEF Commanded
  <2>5. given' = <<>>
    BY <1>1, <1>6 DEF AtRest
  <2>6. CASE call.op = "read"
    <3>1. Len(buffer') = 0 /\ W \in Nat
      BY <1>1, <1>2, EmptySeq, CallsAssumption DEF W
    <3>2. Delivered(passed)'
      BY <1>1, <1>2, <3>1 DEF Delivered, W
    <3>3. Reading'
      BY <1>1, <1>2, <1>6, <2>1, <2>4, <2>5, <2>6, <3>2 DEF Reading
    <3>4. AtaPhases'
      BY <1>1, <1>2, <1>3, <1>6, <2>6, <3>3 DEF AtaPhases
    <3> QED BY <2>2, <3>4
  <2>7. CASE call.op = "write"
    <3>1. Writing'
      BY <1>1, <1>2, <2>1, <2>3, <2>4, <2>5, <2>7 DEF Writing
    <3>2. AtaPhases'
      BY <1>1, <1>2, <1>3, <1>6, <2>7, <3>1 DEF AtaPhases
    <3> QED BY <2>2, <3>2
  <2> QED BY <1>3, <2>6, <2>7
<1> QED BY <1>5, <1>6 DEF SendCommand, Return, Goto, drive

(* A read that goes on has what was delivered, and one that is given up    *)
(* has changed nothing.                                                    *)
LEMMA ReadSectorPreserves == AtaIInv /\ ReadSector => AtaIInv'
<1> SUFFICES ASSUME AtaIInv, ReadSector PROVE AtaIInv'
  OBVIOUS
<1> USE DEF AtaIInv
<1>1. /\ at = "read" /\ Reading /\ passed < call.sector_count /\ result = "none"
  BY DEF ReadSector, Return, Goto, AtaPhases
<1>2. UNCHANGED <<call, command, given, media, before, failed>>
  BY DEF ReadSector
<1>3. /\ call.sector_count \in Nat
      /\ \A n \in 0 .. call.sector_count - 1 : call.lba + n \in Lbas
  BY CallFacts DEF AtaTypes
<1>4. /\ call.op = "read" /\ given = <<>> /\ done = passed /\ media = before /\ Delivered(passed)
      /\ command = [op |-> call.op, lba |-> call.lba, sector_count |-> call.sector_count]
      /\ passed \in Nat
  BY <1>1, <1>3 DEF Reading, Commanded, AtaTypes
<1>5. CASE /\ "ERR" \in status /\ at' = "idle" /\ result' = "ATA_ERROR"
           /\ UNCHANGED <<passed, buffer, status, done>>
  <2>1. AtaTypes'
    BY <1>2, <1>5 DEF AtaTypes
  <2>2. AtRest'
    BY <1>2, <1>4, <1>5 DEF AtRest, AtaTypes
  <2>3. Stored(0)' /\ 0 \in 0 .. call'.sector_count
    <3>1. Stored(0)
      BY <1>4, NothingStored
    <3> QED BY <1>2, <1>3, <3>1, SameMedia
  <2>4. SuccessMeansDone'
    BY <1>5, NoSuccess
  <2>5. AtaPhases'
    BY <1>5, <2>2, <2>3, <2>4 DEF AtaPhases
  <2> QED BY <2>1, <2>5
<1>6. CASE /\ NotBusy /\ "DRQ" \in status /\ at' = "next"
           /\ buffer' = buffer \o media[command.lba + done]
           /\ passed' = passed + 1 /\ done' = done + 1
           /\ status' = IF done + 1 < command.sector_count THEN {"BSY"} ELSE {"DRDY"}
           /\ UNCHANGED result
  <2> DEFINE S == media[call.lba + passed]
  <2>1. S \in SectorType
    BY <1>1, <1>3, <1>4 DEF AtaTypes
  <2>2. buffer' = buffer \o S
    BY <1>4, <1>6
  <2>3. buffer \in Seq(Nat) /\ Len(buffer) = passed * W
    BY <1>4 DEF AtaTypes, Delivered, W
  <2>4. /\ buffer' \in Seq(Nat) /\ Len(buffer') = (passed + 1) * W
        /\ \A k \in 0 .. passed - 1 :
              SubSeq(buffer', k * W + 1, (k + 1) * W) = SubSeq(buffer, k * W + 1, (k + 1) * W)
        /\ SubSeq(buffer', passed * W + 1, (passed + 1) * W) = S
    <3> HIDE DEF S
    <3> QED BY <1>4, <2>1, <2>2, <2>3, OneMoreSector
  <2>5. Delivered(passed)'
    <3>1. \A k \in 0 .. passed - 1 : SubSeq(buffer, k * W + 1, (k + 1) * W) = media[call.lba + k]
      BY <1>4 DEF Delivered, W
    <3>2. ASSUME NEW k \in 0 .. passed
          PROVE  SubSeq(buffer', k * W + 1, (k + 1) * W) = media[call.lba + k]
      <4>1. CASE k = passed
        BY <2>4, <4>1
      <4>2. CASE k # passed
        <5>1. k \in 0 .. passed - 1
          BY <1>4, <4>2
        <5> QED BY <2>4, <3>1, <5>1
      <4> QED BY <4>1, <4>2
    <3>3. passed' - 1 = passed /\ passed' = passed + 1
      BY <1>4, <1>6
    <3> QED BY <1>2, <2>4, <3>2, <3>3 DEF Delivered, W
  <2>6. passed + 1 \in 0 .. call.sector_count
    BY <1>1, <1>3, <1>4
  <2>7. /\ status' \in {{"BSY"}, {"DRDY"}} /\ "DRQ" \notin status'
    BY <1>6
  <2>8. AtaTypes'
    BY <1>2, <1>4, <1>6, <2>4, <2>6, <2>7 DEF AtaTypes
  <2>9. Commanded("read")'
    BY <1>2, <1>4, <1>6, <2>6, <2>7 DEF Commanded
  <2>10. Reading'
    BY <1>2, <1>4, <1>6, <2>5, <2>9 DEF Reading
  <2>11. AtaPhases'
    BY <1>1, <1>6, <2>10 DEF AtaPhases
  <2> QED BY <2>8, <2>11
<1> QED BY <1>5, <1>6 DEF ReadSector, Return, Goto

LEMMA CheckErrorPreserves == AtaIInv /\ CheckError => AtaIInv'
<1> SUFFICES ASSUME AtaIInv, CheckError PROVE AtaIInv'
  OBVIOUS
<1> USE DEF AtaIInv
<1>1. at = "next" /\ Reading /\ result = "none"
  BY DEF CheckError, Return, Goto, AtaPhases
<1>2. UNCHANGED <<call, passed, buffer, status, command, done, given, media, before, failed>>
  BY DEF CheckError, drive
<1>3. AtaTypes'
  BY <1>2 DEF AtaTypes
<1>4. CASE "ERR" \in status /\ at' = "idle" /\ result' = "ATA_ERROR"
  <2>1. AtRest'
    BY <1>1, <1>2, <1>4 DEF AtRest, AtaTypes, Reading
  <2>2. Stored(0)' /\ 0 \in 0 .. call'.sector_count
    <3>1. Stored(0) /\ call.sector_count \in Nat
      BY <1>1, NothingStored, CallFacts DEF Reading, AtaTypes
    <3> QED BY <1>2, <3>1, SameMedia
  <2>3. SuccessMeansDone'
    BY <1>4, NoSuccess
  <2>4. AtaPhases'
    BY <1>4, <2>1, <2>2, <2>3 DEF AtaPhases
  <2> QED BY <1>3, <2>4
<1>5. CASE at' = "settle" /\ result' = result
  <2>1. Reading'
    BY <1>1, <1>2 DEF Reading, Commanded, Delivered
  <2>2. AtaPhases'
    BY <1>1, <1>5, <2>1 DEF AtaPhases
  <2> QED BY <1>3, <2>2
<1> QED BY <1>4, <1>5 DEF CheckError, Return, Goto

(* A read that ends well has delivered every sector.                       *)
LEMMA SettlePreserves == AtaIInv /\ Settle => AtaIInv'
<1> SUFFICES ASSUME AtaIInv, Settle PROVE AtaIInv'
  OBVIOUS
<1> USE DEF AtaIInv
<1>1. at = "settle" /\ Reading /\ result = "none" /\ "BSY" \notin status
  BY DEF Settle, Return, Goto, AtaPhases, NotBusy
<1>2. UNCHANGED <<call, passed, buffer, status, command, done, given, media, before, failed>>
  BY DEF Settle, drive
<1>3. AtaTypes'
  BY <1>2 DEF AtaTypes
<1>4. call.sector_count \in Nat /\ passed \in 0 .. call.sector_count
  BY CallFacts DEF AtaTypes
<1>5. CASE passed < call.sector_count /\ at' = "read" /\ result' = result
  <2>1. Reading'
    BY <1>1, <1>2 DEF Reading, Commanded, Delivered
  <2>2. AtaPhases'
    BY <1>1, <1>2, <1>5, <2>1 DEF AtaPhases
  <2> QED BY <1>3, <2>2
<1>6. CASE ~ (passed < call.sector_count) /\ at' = "idle" /\ result' = "ATA_SUCCESS"
  <2>1. passed = call.sector_count
    BY <1>4, <1>6
  <2>2. Stored(0) /\ Wanted = before
    BY <1>1, NothingStored DEF Reading, Commanded
  <2>3. Stored(0)' /\ 0 \in 0 .. call'.sector_count
    BY <1>2, <1>4, <2>2, SameMedia
  <2>4. AtRest'
    BY <1>1, <1>2, <1>4, <2>1 DEF AtRest, Reading, Commanded
  <2>5. media' = Wanted'
    BY <1>1, <1>2, <2>2, SameCall DEF Reading
  <2>6. Delivered(call.sector_count)'
    BY <1>1, <1>2, <2>1 DEF Reading, Delivered
  <2>7. SuccessMeansDone'
    BY <2>5, <2>6 DEF SuccessMeansDone
  <2>8. AtaPhases'
    BY <1>6, <2>3, <2>4, <2>7 DEF AtaPhases
  <2> QED BY <1>3, <2>8
<1> QED BY <1>5, <1>6 DEF Settle, Return, Goto

(* The drive is given the sector it asks for, and none before it asks.     *)
LEMMA WriteSectorPreserves == AtaIInv /\ WriteSector => AtaIInv'
<1> SUFFICES ASSUME AtaIInv, WriteSector PROVE AtaIInv'
  OBVIOUS
<1> USE DEF AtaIInv
<1>1. /\ at = "write" /\ Writing /\ passed < call.sector_count /\ result = "none"
      /\ "BSY" \notin status
  BY DEF WriteSector, Return, Goto, AtaPhases, NotBusy
<1>2. UNCHANGED <<call, buffer, command, done, media, before, failed>>
  BY DEF WriteSector
<1>3. call.sector_count \in Nat /\ passed \in 0 .. call.sector_count
  BY CallFacts DEF AtaTypes
<1>4. given = <<>> /\ Stored(done) /\ ("ERR" \in status \/ done = passed)
      /\ done \in 0 .. call.sector_count
  BY <1>1 DEF Writing, Commanded
<1>5. Stored(done)'
  <2>1. \A n : Stored(n)' <=> Stored(n)
    BY <1>2, SameMedia
  <2>2. \A l \in Lbas : media'[l] = IF l < call'.lba + done THEN Wanted'[l] ELSE before'[l]
    BY <1>4, <2>1 DEF Stored
  <2> QED BY <1>2, <2>2 DEF Stored
<1>6. CASE /\ "ERR" \in status \/ "DRQ" \notin status
           /\ at' = "idle" /\ result' = "ATA_ERROR" /\ UNCHANGED <<passed, status, given>>
  <2>1. AtaTypes'
    BY <1>2, <1>6 DEF AtaTypes
  <2>2. AtRest'
    BY <1>1, <1>4, <1>6 DEF AtRest, AtaTypes
  <2>3. \E n \in 0 .. call'.sector_count : Stored(n)'
    BY <1>2, <1>4, <1>5
  <2>4. SuccessMeansDone'
    BY <1>6, NoSuccess
  <2>5. AtaPhases'
    BY <1>6, <2>2, <2>3, <2>4 DEF AtaPhases
  <2> QED BY <2>1, <2>5
<1>7. CASE /\ "ERR" \notin status /\ "DRQ" \in status
           /\ at' = IF passed + 1 < call.sector_count THEN "write" ELSE "flush"
           /\ given' = Sector(call.buf, passed) /\ passed' = passed + 1 /\ status' = {"BSY"}
           /\ UNCHANGED result
  <2>1. passed + 1 \in 0 .. call.sector_count /\ passed \in 0 .. call.sector_count - 1
    BY <1>1, <1>3
  <2>2. AtaTypes'
    BY <1>2, <1>7, <2>1 DEF AtaTypes
  <2>3. call.op = "write" /\ call \in WriteCalls
    BY <1>1, CallFacts DEF Writing, Commanded, AtaTypes
  <2>4. given' # <<>>
    BY <1>7, <2>1, <2>3, WantedSector
  <2>5. done = passed
    BY <1>4, <1>7
  <2>6. given' = Sector(call'.buf, done') /\ passed' = done' + 1
    BY <1>2, <1>7, <2>5
  <2>7. Commanded("write")'
    BY <1>1, <1>2, <1>7 DEF Writing, Commanded
  <2>8. Writing'
    BY <1>5, <1>7, <2>4, <2>6, <2>7 DEF Writing
  <2>9. AtaPhases'
    BY <1>1, <1>2, <1>3, <1>7, <2>1, <2>8 DEF AtaPhases
  <2> QED BY <2>2, <2>9
<1> QED BY <1>6, <1>7 DEF WriteSector, Return, Goto

(* The command to flush is heard only by a drive that has stored the last  *)
(* sector or lost it; a busy one does not hear it, and goes on storing.    *)
LEMMA FlushPreserves == AtaIInv /\ Flush => AtaIInv'
<1> SUFFICES ASSUME AtaIInv, Flush PROVE AtaIInv'
  OBVIOUS
<1> USE DEF AtaIInv
<1>1. /\ at = "flush" /\ at' = "finish" /\ Writing /\ passed = call.sector_count /\ result = "none"
  BY DEF Flush, Goto, AtaPhases
<1>2. UNCHANGED <<call, passed, result, buffer, given, media, before, failed>> /\ Command(Idle)
  BY DEF Flush
<1>3. call.sector_count \in Nat
  BY CallFacts DEF AtaTypes
<1>4. \A n : Stored(n)' <=> Stored(n)
  BY <1>2, SameMedia
<1>5. Stored(done) /\ done \in 0 .. call.sector_count /\ call.op = "write"
  BY <1>1 DEF Writing, Commanded
<1>6. CASE status \cap {"BSY", "DRQ"} # {}
  <2>1. UNCHANGED <<status, command, done>>
    BY <1>2, <1>6 DEF Command
  <2>2. AtaTypes'
    BY <1>2, <2>1 DEF AtaTypes
  <2>3. Stored(done)'
    <3>1. \A l \in Lbas : media'[l] = IF l < call'.lba + done THEN Wanted'[l] ELSE before'[l]
      BY <1>4, <1>5 DEF Stored
    <3> QED BY <2>1, <3>1 DEF Stored
  <2>4. Writing'
    BY <1>1, <1>2, <2>1, <2>3 DEF Writing, Commanded
  <2>5. AtaPhases'
    BY <1>1, <1>2, <2>4 DEF AtaPhases
  <2> QED BY <2>2, <2>5
<1>7. CASE status \cap {"BSY", "DRQ"} = {}
  <2>1. status' = {"BSY"} /\ command' = Idle /\ done' = 0
    BY <1>2, <1>7 DEF Command
  <2>2. AtaTypes'
    BY <1>2, <2>1 DEF AtaTypes
  <2>3. "BSY" \notin status
    BY <1>7
  <2>4. given = <<>> /\ (failed \/ done = passed)
    BY <1>1, <2>3 DEF Writing
  <2>5. \E n \in 0 .. call'.sector_count :
           Stored(n)' /\ (~ failed' => n = call'.sector_count)
    BY <1>1, <1>2, <1>4, <1>5, <2>4
  <2>6. Flushing'
    BY <1>2, <1>5, <2>1, <2>4, <2>5 DEF Flushing
  <2>7. AtaPhases'
    BY <1>1, <1>2, <2>6 DEF AtaPhases
  <2> QED BY <2>2, <2>7
<1> QED BY <1>6, <1>7

(* A write that ends well: if the drive did not fail, it was not busy for  *)
(* the last time because it stored the last sector.                        *)
LEMMA FinishWritePreserves == AtaIInv /\ FinishWrite => AtaIInv'
<1> SUFFICES ASSUME AtaIInv, FinishWrite PROVE AtaIInv'
  OBVIOUS
<1> USE DEF AtaIInv
<1>1. /\ at = "finish" /\ at' = "idle" /\ result' = "ATA_SUCCESS" /\ "BSY" \notin status
      /\ (Writing /\ passed = call.sector_count) \/ Flushing
  BY DEF FinishWrite, Return, Goto, AtaPhases, NotBusy
<1>2. UNCHANGED <<call, passed, buffer, status, command, done, given, media, before, failed>>
  BY DEF FinishWrite, drive
<1>3. call.sector_count \in Nat
  BY CallFacts DEF AtaTypes
<1>4. \A n : Stored(n)' <=> Stored(n)
  BY <1>2, SameMedia
<1>5. AtaTypes'
  BY <1>2 DEF AtaTypes
<1>6. /\ given = <<>> /\ "DRQ" \notin status /\ call.op = "write"
      /\ \E n \in 0 .. call.sector_count :
            Stored(n) /\ (failed = FALSE => n = call.sector_count)
  <2>1. CASE Flushing
    BY <2>1 DEF Flushing
  <2>2. CASE Writing /\ passed = call.sector_count
    <3>1. /\ given = <<>> /\ (failed \/ done = passed) /\ Stored(done)
          /\ done \in 0 .. call.sector_count /\ call.op = "write"
      BY <1>1, <2>2 DEF Writing, Commanded
    <3>2. "DRQ" \notin status
      <4>1. CASE "ERR" \in status
        BY <4>1 DEF AtaTypes
      <4>2. CASE "ERR" \notin status
        <5>1. done = passed
          BY <2>2, <3>1, <4>2 DEF Writing
        <5> QED BY <1>3, <2>2, <5>1 DEF Writing, Commanded
      <4> QED BY <4>1, <4>2
    <3> QED BY <2>2, <3>1, <3>2
  <2> QED BY <1>1, <2>1, <2>2
<1>7. AtRest'
  BY <1>1, <1>2, <1>6 DEF AtRest
<1>8. \E n \in 0 .. call'.sector_count : Stored(n)'
  BY <1>2, <1>4, <1>6
<1>9. SuccessMeansDone'
  <2>1. failed = FALSE => media = Wanted
    BY <1>6, AllStored
  <2>2. failed \in BOOLEAN
    BY DEF AtaTypes
  <2>3. failed' = failed /\ media' = media /\ Wanted' = Wanted
    BY <1>2, SameCall
  <2>4. call'.op # "read"
    BY <1>2, <1>6
  <2> QED BY <2>1, <2>2, <2>3, <2>4 DEF SuccessMeansDone
<1>10. AtaPhases'
  BY <1>1, <1>7, <1>8, <1>9 DEF AtaPhases
<1> QED BY <1>5, <1>10

(* A drive that is no longer busy has stored what it was given, in its     *)
(* place, or has nothing to store.                                         *)
LEMMA ReadyPreserves == AtaIInv /\ Ready => AtaIInv'
<1> SUFFICES ASSUME AtaIInv, Ready PROVE AtaIInv'
  OBVIOUS
<1> USE DEF AtaIInv
<1>1. /\ "BSY" \in status /\ UNCHANGED <<command, failed, before>>
      /\ UNCHANGED <<at, call, passed, result, buffer>>
  BY DEF Ready, Finish, driver
<1>2. /\ call.sector_count \in Nat /\ call.lba \in Nat
      /\ \A n \in 0 .. call.sector_count - 1 : call.lba + n \in Lbas
      /\ status = {"BSY"}
  BY <1>1, CallFacts DEF AtaTypes
<1>3. CASE given = <<>>
  <2>1. UNCHANGED <<done, given, media>> /\ status' = Flags(done)
    BY <1>3 DEF Ready, Finish
  <2>2. status' \in {{"DRDY"}, {"DRDY", "DRQ"}} /\ ("DRQ" \in status' <=> done < command.sector_count)
    BY <2>1 DEF Flags
  <2>3. AtaTypes'
    BY <1>1, <2>1, <2>2 DEF AtaTypes
  <2>4. \A n : Stored(n)' <=> Stored(n)
    BY <1>1, <2>1, SameMedia
  <2>5. \A op : Commanded(op) => Commanded(op)'
    BY <1>1, <2>1, <2>2 DEF Commanded
  <2>6. AtRest => AtRest'
    <3>1. AtRest => ~ (done < command.sector_count)
      BY <1>1 DEF AtRest, Idle, AtaTypes
    <3> QED BY <2>1, <2>2, <3>1 DEF AtRest
  <2>7. Writing => Writing'
    <3> SUFFICES ASSUME Writing PROVE Writing'
      OBVIOUS
    <3>1. Commanded("write")' /\ done = passed
      BY <1>2, <1>3, <2>5 DEF Writing
    <3>2. Stored(done)'
      <4>1. \A l \in Lbas : media'[l] = IF l < call'.lba + done THEN Wanted'[l] ELSE before'[l]
        BY <2>4 DEF Writing, Stored
      <4> QED BY <2>1, <4>1 DEF Stored
    <3> QED BY <1>1, <1>3, <2>1, <2>2, <3>1, <3>2 DEF Writing
  <2>8. Reading => Reading'
    BY <1>1, <2>1, <2>5 DEF Reading, Delivered
  <2>9. Flushing => Flushing'
    <3> SUFFICES ASSUME Flushing PROVE Flushing'
      OBVIOUS
    <3>1. ~ (done < command.sector_count)
      BY DEF Flushing, Idle, AtaTypes
    <3>2. \E n \in 0 .. call'.sector_count :
             Stored(n)' /\ (~ failed' => n = call'.sector_count)
      BY <1>1, <2>4 DEF Flushing
    <3> QED BY <1>1, <1>3, <2>1, <2>2, <3>1, <3>2 DEF Flushing
  <2>10. SuccessMeansDone => SuccessMeansDone'
    BY <1>1, <2>1, SameCall DEF SuccessMeansDone, Delivered
  <2>11. at # "wait_drdy"
    BY <1>1 DEF AtaPhases
  <2>12. AtaPhases'
    BY <1>1, <2>1, <2>4, <2>6, <2>7, <2>8, <2>9, <2>10, <2>11 DEF AtaPhases
  <2> QED BY <2>3, <2>12
<1>4. CASE given # <<>>
  <2>1. /\ media' = [media EXCEPT ![command.lba + done] = given]
        /\ done' = done + 1 /\ given' = <<>> /\ status' = Flags(done + 1)
    BY <1>4 DEF Ready, Finish
  <2>2. at \in {"write", "flush", "finish"} /\ Writing
    BY <1>4 DEF AtaPhases, AtRest, Reading, Flushing
  <2>2a. ~ Flushing
    BY <1>4 DEF Flushing
  <2>3. /\ Commanded("write") /\ Stored(done) /\ passed = done + 1 /\ given = Sector(call.buf, done)
        /\ call.op = "write"
        /\ command = [op |-> call.op, lba |-> call.lba, sector_count |-> call.sector_count]
    BY <1>4, <2>2 DEF Writing, Commanded
  <2>4. done \in 0 .. call.sector_count - 1 /\ passed \in 0 .. call.sector_count
    BY <1>2, <2>3 DEF AtaTypes, Commanded
  <2>5. call \in WriteCalls
    BY <2>3, CallFacts DEF AtaTypes
  <2>6. given \in SectorType /\ Wanted[call.lba + done] = given
    BY <2>3, <2>4, <2>5, WantedSector
  <2> DEFINE l0 == call.lba + done
  <2>7. l0 \in Lbas /\ l0 \in Nat /\ Lbas \subseteq Nat
    BY <1>2, <2>4, CallsAssumption
  <2>8. media' = [media EXCEPT ![l0] = given]
    BY <2>1, <2>3
  <2>9. status' \in {{"DRDY"}, {"DRDY", "DRQ"}}
        /\ ("DRQ" \in status' <=> done + 1 < call.sector_count)
    BY <2>1, <2>3 DEF Flags
  <2>10. media' \in [Lbas -> SectorType]
    BY <2>6, <2>7, <2>8 DEF AtaTypes
  <2>11. AtaTypes'
    BY <1>1, <2>1, <2>4, <2>9, <2>10 DEF AtaTypes
  <2>12. Wanted' = Wanted
    BY <1>1, SameCall
  <2>13. Stored(done)'
    <3>1. call'.lba + done' = l0 + 1
      BY <1>1, <1>2, <2>1, <2>4
    <3> HIDE DEF l0
    <3>2. ASSUME NEW l \in Lbas
          PROVE  media'[l] = IF l < l0 + 1 THEN Wanted[l] ELSE before[l]
      <4>1. media[l] = IF l < l0 THEN Wanted[l] ELSE before[l]
        BY <2>3 DEF Stored, l0
      <4>2. CASE l = l0
        <5>1. media'[l] = given /\ l < l0 + 1
          BY <2>7, <2>8, <4>2 DEF AtaTypes
        <5>2. Wanted[l] = given
          BY <2>6, <4>2 DEF l0
        <5> QED BY <5>1, <5>2
      <4>3. CASE l # l0
        <5>1. media'[l] = media[l] /\ (l < l0 + 1 <=> l < l0)
          BY <2>7, <2>8, <4>3 DEF AtaTypes
        <5> QED BY <4>1, <5>1
      <4> QED BY <4>2, <4>3
    <3> QED BY <1>1, <2>12, <3>1, <3>2 DEF Stored
  <2>14. Commanded("write")'
    <3>1. done' \in 0 .. call'.sector_count
      BY <1>1, <1>2, <2>1, <2>4
    <3>2. "DRQ" \in status' => done' < call'.sector_count
      BY <1>1, <2>1, <2>9
    <3> QED BY <1>1, <2>3, <3>1, <3>2 DEF Commanded
  <2>15. Writing'
    <3>1. "ERR" \notin status'
      BY <2>9
    <3> QED BY <1>1, <2>1, <2>3, <2>13, <2>14, <3>1 DEF Writing
  <2>16. AtaPhases'
    BY <1>1, <2>2, <2>2a, <2>15 DEF AtaPhases
  <2> QED BY <2>11, <2>16
<1> QED BY <1>3, <1>4

(* A drive that fails loses the sector it was given, and says so until the *)
(* next command.                                                           *)
LEMMA FailPreserves == AtaIInv /\ Fail => AtaIInv'
<1> SUFFICES ASSUME AtaIInv, Fail PROVE AtaIInv'
  OBVIOUS
<1> USE DEF AtaIInv
<1>1. /\ "BSY" \in status /\ command.op # "none"
      /\ status' = {"DRDY", "ERR"} /\ failed' = TRUE /\ given' = <<>>
      /\ UNCHANGED <<at, call, passed, result, buffer, command, done, media, before>>
  BY DEF Fail, Finish, driver
<1>2. command # Idle
  BY <1>1 DEF Idle
<1>3. at \notin {"idle", "wait_bsy", "wait_drdy"}
  BY <1>1, <1>2 DEF AtaPhases, AtRest
<1>4. AtaTypes'
  BY <1>1 DEF AtaTypes
<1>5. \A n : Stored(n)' <=> Stored(n)
  BY <1>1, SameMedia
<1>6. \A op : Commanded(op) => Commanded(op)'
  BY <1>1 DEF Commanded
<1>7. Reading => Reading'
  BY <1>1, <1>6 DEF Reading, Delivered
<1>8. Writing => Writing'
  <2> SUFFICES ASSUME Writing PROVE Writing'
    OBVIOUS
  <2>1. Stored(done)'
    <3>1. \A l \in Lbas : media'[l] = IF l < call'.lba + done THEN Wanted'[l] ELSE before'[l]
      BY <1>5 DEF Writing, Stored
    <3> QED BY <1>1, <3>1 DEF Stored
  <2> QED BY <1>1, <1>6, <2>1 DEF Writing
<1>9. ~ Flushing
  BY <1>2 DEF Flushing
<1>10. AtaPhases'
  BY <1>1, <1>3, <1>7, <1>8, <1>9 DEF AtaPhases
<1> QED BY <1>4, <1>10

LEMMA AtaNextPreserves == AtaIInv /\ [AtaNext]_ata_vars => AtaIInv'
<1> SUFFICES ASSUME AtaIInv, [AtaNext]_ata_vars PROVE AtaIInv'
  OBVIOUS
<1>1. ASSUME NEW r \in Reads, ata_read(r) PROVE AtaIInv'
  BY <1>1, CallPreserves DEF ata_read, ReadCalls
<1>2. ASSUME NEW w \in Writes, ata_write(w) PROVE AtaIInv'
  BY <1>2, CallPreserves DEF ata_write, WriteCalls
<1>3. CASE Work
  BY <1>3, SetAddressPreserves, SendCommandPreserves, ReadSectorPreserves, CheckErrorPreserves,
     SettlePreserves, WriteSectorPreserves, FlushPreserves, FinishWritePreserves DEF Work
<1>4. CASE Drive
  BY <1>4, ReadyPreserves, FailPreserves DEF Drive
<1>5. CASE UNCHANGED ata_vars
  <2>1. UNCHANGED <<at, call, passed, result, buffer, status, command, done, given, media,
                    before, failed>>
    BY <1>5 DEF ata_vars, driver, drive
  <2>2. \A n : Stored(n)' <=> Stored(n)
    BY <2>1, SameMedia
  <2>3. Stored(done)' <=> Stored(done)
    BY <2>1, SameCall DEF Stored
  <2>4. \A op : Commanded(op)' <=> Commanded(op)
    BY <2>1 DEF Commanded
  <2>5. SuccessMeansDone' <=> SuccessMeansDone
    BY <2>1, SameCall DEF SuccessMeansDone, Delivered
  <2>6. /\ AtRest' <=> AtRest
        /\ Reading' <=> Reading
        /\ Writing' <=> Writing
        /\ Flushing' <=> Flushing
    BY <2>1, <2>2, <2>3, <2>4 DEF AtRest, Reading, Writing, Flushing, Delivered
  <2>7. AtaTypes'
    BY <2>1 DEF AtaIInv, AtaTypes
  <2>8. AtaPhases'
    BY <2>1, <2>2, <2>5, <2>6 DEF AtaIInv, AtaPhases
  <2> QED BY <2>7, <2>8 DEF AtaIInv
<1> QED BY <1>1, <1>2, <1>3, <1>4, <1>5 DEF AtaNext

(* What the driver and the drive know of each other holds at every step of *)
(* every call of ata_read and ata_write.                                   *)
THEOREM AtaInvariance == AtaSpec => []AtaIInv
  BY AtaInitIInv, AtaNextPreserves, PTL DEF AtaSpec

(* ATA_SUCCESS means that the data is on the disk, or in the buffer, if    *)
(* the drive did not fail during the call, for any buffer and any sector.  *)
THEOREM SuccessIsTrue == AtaSpec => []SuccessMeansDone
<1>1. AtaIInv => SuccessMeansDone
  BY DEF AtaIInv, AtaPhases, SuccessMeansDone
<1> QED BY <1>1, AtaInvariance, PTL

(* Wherever ata_write is, or stopped, a first part of its sectors is on    *)
(* the disk and every other sector is what it was.                         *)
THEOREM WritesAreInOrder == AtaSpec => []SectorsInOrder
<1>1. AtaIInv => SectorsInOrder
  <2> SUFFICES ASSUME AtaIInv PROVE \E n \in 0 .. call.sector_count : Stored(n)
    BY DEF SectorsInOrder, Stored
  <2> USE DEF AtaIInv
  <2>1. call.sector_count \in Nat
    BY CallFacts DEF AtaTypes
  <2>2. CASE media = before
    <3>1. Stored(0)
      BY <2>2, NothingStored
    <3> QED BY <2>1, <3>1
  <2>3. CASE Writing
    BY <2>3 DEF Writing, Commanded
  <2>4. CASE Flushing
    BY <2>4 DEF Flushing
  <2>5. CASE at = "idle"
    BY <2>5 DEF AtaPhases
  <2> QED BY <2>2, <2>3, <2>4, <2>5 DEF AtaPhases, Reading
<1> QED BY <1>1, AtaInvariance, PTL

-----------------------------------------------------------------------------
(***************************************************************************)
(* The volume.  The layout comes down to five sectors and how far they are *)
(* apart, Layout: a bitmap of n blocks has room for n + 1, which is what   *)
(* the writes of bitmap_disk_init may need.  The rest is what each phase of*)
(* fs_init finds on the disk and in memory, and that every write stays in  *)
(* its area.                                                               *)
(***************************************************************************)
(* Up(n, unit) units hold n, and no fewer do.                              *)
LEMMA UpHolds ==
    ASSUME NEW n \in Nat, NEW unit \in Nat \ {0}
    PROVE  /\ Up(n, unit) \in Nat
           /\ n <= Up(n, unit) * unit
           /\ n > 0 => Up(n, unit) > 0
<1> DEFINE m == n + unit - 1
           q == m \div unit
           r == m % unit
<1>1. m \in Nat
  OBVIOUS
<1>2. m = unit * q + r
  BY <1>1, Quotient
<1>3. r \in 0 .. unit - 1
  BY <1>1, Remainder
<1>4. q \in Nat
  BY <1>1, QuotientNat
<1>5. Up(n, unit) = q
  BY DEF Up
<1> HIDE DEF q, r
<1>6. n <= q * unit
  <2>1. unit * q = q * unit /\ q * unit \in Nat
    BY <1>4
  <2> QED BY <1>2, <1>3, <2>1
<1>7. n > 0 => q > 0
  <2>1. q = 0 => q * unit = 0
    OBVIOUS
  <2> QED BY <1>4, <1>6, <2>1
<1> QED BY <1>4, <1>5, <1>6, <1>7

LEMMA UpLeast ==
    ASSUME NEW n \in Nat, NEW unit \in Nat \ {0}, NEW k \in Nat, n <= k * unit
    PROVE  Up(n, unit) <= k
<1>1. (k + 1) * unit = k * unit + unit /\ k * unit \in Nat
  OBVIOUS
<1>2. n + unit - 1 < (k + 1) * unit /\ n + unit - 1 \in Nat
  BY <1>1
<1>3. (n + unit - 1) \div unit < k + 1
  BY <1>2, QuotientBelow
<1>4. (n + unit - 1) \div unit \in Nat
  BY <1>2, QuotientNat
<1> QED BY <1>3, <1>4 DEF Up

-----------------------------------------------------------------------------
(* The layout.  First its sizes: an inode has room in a block, the bitmap  *)
(* of inodes has no more blocks than the layout gives it, although that    *)
(* counts the blocks of the inode table, and the bitmap of data blocks     *)
(* neither.                                                                *)
LEMMA InodeSizes ==
    ASSUME NEW ic \in Nat \ {0}, NEW bytes \in Nat \ {0}, NEW is \in Nat \ {0},
           is <= bytes, ic % 8 = 0
    PROVE  LET per_block == bytes \div is
               table == Up(ic, per_block)
           IN  /\ per_block \in Nat \ {0}
               /\ table \in Nat \ {0}
               /\ Up(table, 8) \in Nat
               /\ Up(ic \div 8, bytes) \in Nat \ {0}
               /\ Up(ic \div 8, bytes) <= Up(table, 8)
<1> DEFINE per_block == bytes \div is
           rest == bytes % is
<1>1. bytes = is * per_block + rest
  BY Quotient
<1>2. rest \in 0 .. is - 1
  BY Remainder
<1>3. per_block \in Nat
  BY QuotientNat
<1> HIDE DEF per_block, rest
<1>4. per_block # 0
  <2>1. per_block = 0 => is * per_block = 0
    OBVIOUS
  <2> QED BY <1>1, <1>2, <2>1
<1>5. per_block <= bytes
  <2>1. per_block <= per_block * is /\ per_block * is \in Nat
    BY <1>3, AtLeastOnce
  <2>2. per_block * is = is * per_block
    BY <1>3
  <2> QED BY <1>1, <1>2, <1>3, <2>1, <2>2
<1> DEFINE table == Up(ic, per_block)
<1>6. table \in Nat /\ ic <= table * per_block /\ table > 0
  BY <1>3, <1>4, UpHolds
<1> HIDE DEF table
<1> DEFINE octets == Up(table, 8)
<1>7. octets \in Nat /\ table <= octets * 8
  BY <1>6, UpHolds
<1> HIDE DEF octets
<1> DEFINE eighth == ic \div 8
<1>8. ic = 8 * eighth /\ eighth \in Nat
  OBVIOUS
<1> HIDE DEF eighth
<1>9. eighth <= octets * bytes
  <2>1. per_block * table + 0 * table <= bytes * table /\ bytes * table \in Nat
           /\ per_block * table \in Nat
    BY <1>3, <1>5, <1>6, Product
  <2>2. table * bytes + 0 * bytes <= (octets * 8) * bytes /\ table * bytes \in Nat
           /\ (octets * 8) * bytes \in Nat
    BY <1>6, <1>7, Product
  <2>3. (octets * 8) * bytes = 8 * (octets * bytes) /\ octets * bytes \in Nat
    BY <1>7
  <2>4. table * per_block = per_block * table /\ table * bytes = bytes * table
    BY <1>3, <1>6
  <2> QED BY <1>6, <1>8, <2>1, <2>2, <2>3, <2>4
<1>10. Up(eighth, bytes) <= octets
  BY <1>7, <1>8, <1>9, UpLeast
<1>11. Up(eighth, bytes) \in Nat /\ Up(eighth, bytes) > 0
  BY <1>8, UpHolds
<1>12. /\ per_block \in Nat \ {0} /\ table \in Nat \ {0} /\ octets \in Nat
       /\ Up(eighth, bytes) \in Nat \ {0} /\ Up(eighth, bytes) <= octets
  BY <1>3, <1>4, <1>6, <1>7, <1>10, <1>11
<1> QED BY <1>12 DEF per_block, table, octets, eighth

LEMMA DataSizes ==
    ASSUME NEW n \in Nat \ {0}, NEW bytes \in Nat \ {0}
    PROVE  Up((8 * n) \div 8, bytes) \in Nat \ {0} /\ Up((8 * n) \div 8, bytes) <= n
<1>1. (8 * n) \div 8 = n
  OBVIOUS
<1>2. n <= n * bytes
  BY AtLeastOnce
<1> QED BY <1>1, <1>2, UpHolds, UpLeast

(* How far the parts of the superblock are apart, in blocks.               *)
LEMMA SuperblockSizes ==
    ASSUME NEW p \in Volumes
    PROVE  LET q == Superblock(p)
               bytes == p.sectors_per_block * p.sector_size
               inode_blocks == Up(p.inode_count \div 8, bytes)
               data_blocks == Up(q.data_blocks_block_count \div 8, bytes)
           IN  /\ q.inodes_per_block \in Nat \ {0}
               /\ q.inode_table_block_count \in Nat \ {0}
               /\ q.data_blocks_block_count \in Nat \ 0 .. 7
               /\ inode_blocks \in Nat \ {0} /\ data_blocks \in Nat \ {0}
               /\ q.inode_bitmap_start \in Nat \ {0}
               /\ q.inode_table_start \in Nat /\ q.data_bitmap_start \in Nat
               /\ q.data_blocks_start \in Nat /\ q.block_count \in Nat
               /\ q.inode_bitmap_start + inode_blocks + 1 <= q.inode_table_start
               /\ q.inode_table_start + q.inode_table_block_count + 1 <= q.data_bitmap_start
               /\ q.data_bitmap_start + data_blocks + 1 <= q.data_blocks_start
               /\ q.data_blocks_start + q.data_blocks_block_count <= q.block_count + 2
<1> DEFINE bytes == p.sectors_per_block * p.sector_size
           count == p.sector_count \div p.sectors_per_block
           per_block == bytes \div p.inode_size
           table == Up(p.inode_count, per_block)
           super == Up(p.superblock_size, bytes)
           octets == Up(table, 8)
           ib == p.start + super + 1
           it == ib + octets + 1
           remaining == count - (it + table)
           nine == remaining \div 9
           db == it + table + 1
           ds == db + nine + 1
           inode_blocks == Up(p.inode_count \div 8, bytes)
           data_blocks == Up((8 * nine) \div 8, bytes)
<1>1. /\ p.start \in Nat /\ p.sector_size \in Nat \ {0} /\ p.superblock_size \in Nat
      /\ p.inode_size \in Nat \ {0} /\ p.sectors_per_block \in Nat \ {0}
      /\ p.sector_count \in Nat /\ p.inode_count \in Nat \ {0}
      /\ p.inode_count % 8 = 0
  BY VolumesAssumption
<1>2. /\ p.inode_size <= bytes
      /\ Superblock(p).data_blocks_block_count \in Nat \ {0}
  BY VolumesAssumption
<1>3. bytes \in Nat \ {0}
  <2>1. p.sectors_per_block <= bytes /\ bytes \in Nat
    BY <1>1, AtLeastOnce
  <2> QED BY <1>1, <2>1
<1>4. Superblock(p) =
        [ block_count |-> count, inodes_per_block |-> per_block,
          inode_bitmap_start |-> ib,
          inode_table_start |-> it, inode_table_block_count |-> table,
          data_bitmap_start |-> db,
          data_blocks_start |-> ds,
          data_blocks_block_count |-> 8 * nine ]
  BY DEF Superblock
<1> HIDE DEF bytes
<1>5. /\ per_block \in Nat \ {0} /\ table \in Nat \ {0} /\ octets \in Nat
      /\ inode_blocks \in Nat \ {0} /\ inode_blocks <= octets
  BY <1>1, <1>2, <1>3, InodeSizes
<1>6. count \in Nat
  BY <1>1, QuotientNat
<1>7. super \in Nat
  BY <1>1, <1>3, UpHolds
<1> HIDE DEF per_block, table, octets, inode_blocks, count, super
<1>8. /\ ib \in Nat \ {0} /\ it \in Nat /\ db \in Nat /\ remaining \in Int
      /\ ib + inode_blocks + 1 <= it /\ it + table + 1 = db
      /\ remaining = count - db + 1
  BY <1>1, <1>5, <1>6, <1>7
<1> HIDE DEF ib, it, db, remaining
<1>9. nine \in Int /\ 9 * nine <= remaining
  BY <1>8
<1> HIDE DEF nine
<1>10. nine \in Nat \ {0}
  <2>1. 8 * nine \in Nat \ {0}
    BY <1>2, <1>4
  <2> QED BY <1>9, <2>1
<1>11. data_blocks \in Nat \ {0} /\ data_blocks <= nine
  BY <1>3, <1>10, DataSizes
<1> HIDE DEF data_blocks
<1>12. /\ ds \in Nat
       /\ db + data_blocks + 1 <= ds
       /\ ds + 8 * nine <= count + 2
  BY <1>6, <1>8, <1>9, <1>10, <1>11
<1> HIDE DEF ds
<1> DEFINE q == Superblock(p)
<1>13. /\ q.block_count = count /\ q.inodes_per_block = per_block
       /\ q.inode_bitmap_start = ib /\ q.inode_table_start = it
       /\ q.inode_table_block_count = table /\ q.data_bitmap_start = db
       /\ q.data_blocks_start = ds /\ q.data_blocks_block_count = 8 * nine
  BY <1>4
<1>14. /\ inode_blocks = Up(p.inode_count \div 8, bytes)
       /\ data_blocks = Up(q.data_blocks_block_count \div 8, bytes)
  BY <1>13 DEF inode_blocks, data_blocks
<1>15. 8 * nine \in Nat \ 0 .. 7
  BY <1>10
<1> HIDE DEF q
<1>16. /\ q.inodes_per_block \in Nat \ {0}
       /\ q.inode_table_block_count \in Nat \ {0}
       /\ q.data_blocks_block_count \in Nat \ 0 .. 7
       /\ inode_blocks \in Nat \ {0} /\ data_blocks \in Nat \ {0}
       /\ q.inode_bitmap_start \in Nat \ {0}
       /\ q.inode_table_start \in Nat /\ q.data_bitmap_start \in Nat
       /\ q.data_blocks_start \in Nat /\ q.block_count \in Nat
       /\ q.inode_bitmap_start + inode_blocks + 1 <= q.inode_table_start
       /\ q.inode_table_start + q.inode_table_block_count + 1 <= q.data_bitmap_start
       /\ q.data_bitmap_start + data_blocks + 1 <= q.data_blocks_start
       /\ q.data_blocks_start + q.data_blocks_block_count <= q.block_count + 2
  BY <1>5, <1>6, <1>8, <1>11, <1>12, <1>13, <1>15
<1> QED BY <1>14, <1>16 DEF q, bytes

(* The same in sectors: the superblock, and where the other areas begin.   *)
TableBlocks == sb.inode_table_block_count
DataBlocks == sb.data_blocks_block_count
step == v.sectors_per_block

LEMMA Layout ==
    ASSUME v \in Volumes
    PROVE  /\ step \in Nat \ {0} /\ v.start \in Nat
           /\ TableBlocks \in Nat \ {0} /\ DataBlocks \in Nat \ {0}
           /\ sb.inodes_per_block \in Nat \ {0}
           /\ BitmapBlocks(v.inode_count) \in Nat \ {0}
           /\ BitmapBlocks(DataBlocks) \in Nat \ {0}
           /\ InodeBitmap \in Nat /\ RootInode \in Nat
           /\ DataBitmap \in Nat /\ DataBlock(0) \in Nat
           /\ v.start < InodeBitmap
           /\ InodeBitmap + BitmapBlocks(v.inode_count) * step + step <= RootInode
           /\ RootInode = block_to_sector(sb.inode_table_start)
           /\ RootInode + TableBlocks * step + step <= DataBitmap
           /\ DataBitmap + BitmapBlocks(DataBlocks) * step + step <= DataBlock(0)
           /\ DataBlock(0) = block_to_sector(sb.data_blocks_start)
           /\ DataBlock(0) + step <= v.start + (sb.block_count + 4) * step
<1> DEFINE ib == sb.inode_bitmap_start
           it == sb.inode_table_start
           db == sb.data_bitmap_start
           ds == sb.data_blocks_start
           bc == sb.block_count
           inodes == BitmapBlocks(v.inode_count)
           data == BitmapBlocks(DataBlocks)
<1>1. v.start \in Nat /\ step \in Nat \ {0}
  BY VolumesAssumption DEF step
<1>2. /\ sb.inodes_per_block \in Nat \ {0}
      /\ TableBlocks \in Nat \ {0} /\ DataBlocks \in Nat \ {0}
      /\ inodes \in Nat \ {0} /\ data \in Nat \ {0}
      /\ ib \in Nat \ {0} /\ it \in Nat /\ db \in Nat /\ ds \in Nat /\ bc \in Nat
      /\ ib + inodes + 1 <= it
      /\ it + TableBlocks + 1 <= db
      /\ db + data + 1 <= ds
      /\ ds + DataBlocks <= bc + 2
  BY SuperblockSizes DEF sb, BitmapBlocks, TableBlocks, DataBlocks
<1>3. /\ InodeBitmap = v.start + ib * step /\ DataBitmap = v.start + db * step
  BY DEF InodeBitmap, DataBitmap, block_to_sector, step
<1>4. RootInode = block_to_sector(it) /\ RootInode = v.start + it * step
  <2>1. 0 \div sb.inodes_per_block = 0
    <3>1. 0 < 1 * sb.inodes_per_block
      BY <1>2
    <3>2. 0 \div sb.inodes_per_block < 1
      BY <1>2, <3>1, QuotientBelow
    <3>3. 0 \div sb.inodes_per_block \in Nat
      BY <1>2, QuotientNat
    <3> QED BY <3>2, <3>3
  <2>2. it + 0 = it
    BY <1>2
  <2> QED BY <2>1, <2>2 DEF RootInode, FS_ROOT_DIRECTORY_INODE, block_to_sector, step
<1>5. DataBlock(0) = block_to_sector(ds) /\ DataBlock(0) = v.start + ds * step
  <2>1. ds + 0 = ds
    BY <1>2
  <2> QED BY <2>1 DEF DataBlock, block_to_sector, step
<1> HIDE DEF ib, it, db, ds, bc, inodes, data
<1>6. /\ 0 * step + 1 * step <= ib * step /\ 1 * step \in Nat /\ 0 * step \in Nat
      /\ ib * step \in Nat
  BY <1>1, <1>2, Product
<1>7. /\ ib * step + (inodes + 1) * step <= it * step
      /\ it * step \in Nat /\ (inodes + 1) * step \in Nat
  BY <1>1, <1>2, Product
<1>8. /\ it * step + (TableBlocks + 1) * step <= db * step
      /\ db * step \in Nat /\ (TableBlocks + 1) * step \in Nat
  BY <1>1, <1>2, Product
<1>9. /\ db * step + (data + 1) * step <= ds * step
      /\ ds * step \in Nat /\ (data + 1) * step \in Nat
  BY <1>1, <1>2, Product
<1>10. ds * step + 1 * step <= (bc + 4) * step /\ (bc + 4) * step \in Nat
  BY <1>1, <1>2, Product
<1>11. /\ (inodes + 1) * step = inodes * step + step /\ inodes * step \in Nat
       /\ (TableBlocks + 1) * step = TableBlocks * step + step /\ TableBlocks * step \in Nat
       /\ (data + 1) * step = data * step + step /\ data * step \in Nat
       /\ 1 * step = step /\ 0 * step = 0
  BY <1>1, <1>2
<1>12. /\ InodeBitmap \in Nat /\ RootInode \in Nat
       /\ DataBitmap \in Nat /\ DataBlock(0) \in Nat
       /\ v.start < InodeBitmap
       /\ InodeBitmap + inodes * step + step <= RootInode
       /\ RootInode + TableBlocks * step + step <= DataBitmap
       /\ DataBitmap + data * step + step <= DataBlock(0)
       /\ DataBlock(0) + step <= v.start + (bc + 4) * step
  BY <1>1, <1>3, <1>4, <1>5, <1>6, <1>7, <1>8, <1>9, <1>10, <1>11
<1> QED BY <1>1, <1>2, <1>4, <1>5, <1>12 DEF it, ds, inodes, data, bc

(* What bitmap_disk_init writes stays within one block behind the bitmap.  *)
LEMMA BitmapHasRoom ==
    ASSUME v \in Volumes, NEW start \in Nat, NEW bits, BitmapBlocks(bits) \in Nat \ {0}
    PROVE  LET end == start + BitmapBlocks(bits) * step + step
           IN  /\ BitmapWrites(start, bits) \subseteq start .. end - 1
               /\ BitmapWrites(start, bits) # {}
               /\ \A k \in 0 .. BitmapBlocks(bits) * step - 2 :
                     start + k \in Nat /\ start + k + step < end
               /\ start + (BitmapBlocks(bits) - 1) * step \in Nat
               /\ start <= start + (BitmapBlocks(bits) - 1) * step
               /\ start + (BitmapBlocks(bits) - 1) * step + step < end
<1> DEFINE n == BitmapBlocks(bits)
           count == n * step
           last == (n - 1) * step
           end == start + count + step
<1>1. step \in Nat \ {0}
  BY Layout
<1>2. count = last + step /\ last \in Nat /\ count \in Nat
  <2>1. n - 1 \in Nat /\ n = (n - 1) + 1
    OBVIOUS
  <2> QED BY <1>1, <2>1
<1> DEFINE blocks == { start + k .. start + k + step - 1 : k \in 0 .. count - 2 }
           tail == start + last .. start + count - 1
<1>3. BitmapWrites(start, bits) = (UNION blocks) \cup tail
  BY DEF BitmapWrites, step
<1> HIDE DEF n, count, last
<1>4. tail \subseteq start .. end - 1
  BY <1>1, <1>2
<1>5. start + last \in tail
  BY <1>1, <1>2
<1>6. \A k \in 0 .. count - 2 : start + k \in Nat /\ start + k + step < end
  BY <1>1, <1>2
<1>7. \A k \in 0 .. count - 2 : start + k .. start + k + step - 1 \subseteq start .. end - 1
  BY <1>1, <1>2
<1>8. UNION blocks \subseteq start .. end - 1
  BY <1>7
<1>9. /\ start + last \in Nat /\ start <= start + last /\ start + last + step < end
  BY <1>1, <1>2
<1> HIDE DEF end, blocks, tail
<1>10. BitmapWrites(start, bits) \subseteq start .. end - 1
  BY <1>3, <1>4, <1>8
<1>11. BitmapWrites(start, bits) # {}
  BY <1>3, <1>5
<1> QED BY <1>6, <1>9, <1>10, <1>11 DEF end, count, last, n

LEMMA FiveSets ==
    ASSUME NEW A, NEW B, NEW C, NEW D, NEW E,
           A # B, A # C, A # D, A # E, B # C, B # D, B # E, C # D, C # E, D # E
    PROVE  Cardinality({A, B, C, D, E}) = 5
<1>1. IsFiniteSet({}) /\ Cardinality({}) = 0
  BY FS_EmptySet
<1>2. IsFiniteSet({A}) /\ Cardinality({A}) = 1
  BY FS_Singleton
<1>3. IsFiniteSet({A, B}) /\ Cardinality({A, B}) = 2
  <2>1. {A, B} = {A} \cup {B} /\ B \notin {A}
    OBVIOUS
  <2> QED BY <1>2, <2>1, FS_AddElement
<1>4. IsFiniteSet({A, B, C}) /\ Cardinality({A, B, C}) = 3
  <2>1. {A, B, C} = {A, B} \cup {C} /\ C \notin {A, B}
    OBVIOUS
  <2> QED BY <1>3, <2>1, FS_AddElement
<1>5. IsFiniteSet({A, B, C, D}) /\ Cardinality({A, B, C, D}) = 4
  <2>1. {A, B, C, D} = {A, B, C} \cup {D} /\ D \notin {A, B, C}
    OBVIOUS
  <2> QED BY <1>4, <2>1, FS_AddElement
<1>6. {A, B, C, D, E} = {A, B, C, D} \cup {E} /\ E \notin {A, B, C, D}
  OBVIOUS
<1> QED BY <1>5, <1>6, FS_AddElement

(* The five areas, each between the border before it and the one behind.   *)
LEMMA VolumeLaidOut ==
    ASSUME v \in Volumes
    PROVE  AreasApart
<1> DEFINE S == v.start
           I == InodeBitmap
           T == RootInode
           D == DataBitmap
           B == DataBlock(0)
           inodes == BitmapWrites(InodeBitmap, v.inode_count)
           table == Blocks(sb.inode_table_start, sb.inode_table_block_count)
           bitmap == BitmapWrites(DataBitmap, sb.data_blocks_block_count)
           data == Blocks(sb.data_blocks_start, sb.data_blocks_block_count)
           n == BitmapBlocks(v.inode_count) * step
           t == TableBlocks * step
           m == BitmapBlocks(DataBlocks) * step
           d == DataBlocks * step
<1>1. S \in Nat /\ I \in Nat /\ T \in Nat /\ D \in Nat /\ B \in Nat /\ S < I
  BY Layout
<1>2. step \in Nat \ {0} /\ I + n + step <= T /\ T + t + step <= D /\ D + m + step <= B
  BY Layout
<1>3. n \in Nat /\ m \in Nat /\ t \in Nat \ {0} /\ d \in Nat \ {0}
  <2>1. /\ BitmapBlocks(v.inode_count) \in Nat /\ BitmapBlocks(DataBlocks) \in Nat
        /\ TableBlocks \in Nat \ {0} /\ DataBlocks \in Nat \ {0}
    BY Layout
  <2>2. n \in Nat /\ m \in Nat
    BY <1>2, <2>1, AtLeastOnce
  <2>3. t \in Nat /\ d \in Nat /\ TableBlocks <= t /\ DataBlocks <= d
    BY <1>2, <2>1, AtLeastOnce
  <2> QED BY <2>1, <2>2, <2>3
<1>4. inodes \subseteq I .. (I + n + step) - 1 /\ inodes # {}
  <2>1. BitmapBlocks(v.inode_count) \in Nat \ {0}
    BY Layout
  <2>2. InodeBitmap \in Nat
    BY Layout
  <2> QED BY <2>1, <2>2, BitmapHasRoom, Zenon
<1>5. bitmap \subseteq D .. (D + m + step) - 1 /\ bitmap # {}
  <2>1. BitmapBlocks(DataBlocks) \in Nat \ {0} /\ DataBlocks = sb.data_blocks_block_count
    BY Layout DEF DataBlocks
  <2>2. DataBitmap \in Nat
    BY Layout
  <2> QED BY <2>1, <2>2, BitmapHasRoom, Zenon
<1>6. table = T .. (T + t) - 1
  <2>1. T = block_to_sector(sb.inode_table_start) /\ sb.inode_table_start \in Nat
    BY Layout, SuperblockSizes DEF sb
  <2>2. block_to_sector(sb.inode_table_start + TableBlocks) = T + t
    BY <1>1, <1>2, <2>1, Layout DEF block_to_sector, step
  <2>3. table = block_to_sector(sb.inode_table_start)
                .. block_to_sector(sb.inode_table_start + TableBlocks) - 1
    BY DEF Blocks, TableBlocks
  <2> QED BY <2>1, <2>2, <2>3, Zenon
<1>7. data = B .. (B + d) - 1
  <2>1. B = block_to_sector(sb.data_blocks_start) /\ sb.data_blocks_start \in Nat
    BY Layout, SuperblockSizes DEF sb
  <2>2. block_to_sector(sb.data_blocks_start + DataBlocks) = B + d
    BY <1>1, <1>2, <2>1, Layout DEF block_to_sector, step
  <2>3. data = block_to_sector(sb.data_blocks_start)
               .. block_to_sector(sb.data_blocks_start + DataBlocks) - 1
    BY DEF Blocks, DataBlocks
  <2> QED BY <2>1, <2>2, <2>3, Zenon
<1>8. Areas = {{S}, inodes, table, bitmap, data}
  BY DEF Areas
<1> HIDE DEF S, I, T, D, B, n, t, m, d, inodes, table, bitmap, data
<1>9. T \in table /\ B \in data
  BY <1>1, <1>3, <1>6, <1>7
<1>10. /\ {S} \cap inodes = {} /\ {S} \cap table = {} /\ {S} \cap bitmap = {}
       /\ {S} \cap data = {}
  BY <1>1, <1>2, <1>3, <1>4, <1>5, <1>6, <1>7
<1>11. inodes \cap table = {} /\ inodes \cap bitmap = {} /\ inodes \cap data = {}
  BY <1>1, <1>2, <1>3, <1>4, <1>5, <1>6, <1>7
<1>12. table \cap bitmap = {} /\ table \cap data = {} /\ bitmap \cap data = {}
  BY <1>1, <1>2, <1>3, <1>5, <1>6, <1>7
<1>13. Cardinality(Areas) = 5
  <2>1. /\ {S} # inodes /\ {S} # table /\ {S} # bitmap /\ {S} # data
        /\ inodes # table /\ inodes # bitmap /\ inodes # data
        /\ table # bitmap /\ table # data /\ bitmap # data
    BY <1>4, <1>5, <1>9, <1>10, <1>11, <1>12
  <2> QED BY <1>8, <2>1, FiveSets
<1>14. ASSUME NEW a \in Areas, NEW b \in Areas, a # b PROVE a \cap b = {}
  <2>1. CASE a = {S}
    BY <1>8, <1>10, <1>14, <2>1
  <2>2. CASE a = inodes
    BY <1>8, <1>10, <1>11, <1>14, <2>2
  <2>3. CASE a = table
    BY <1>8, <1>10, <1>11, <1>12, <1>14, <2>3
  <2>4. CASE a = bitmap
    BY <1>8, <1>10, <1>11, <1>12, <1>14, <2>4
  <2>5. CASE a = data
    BY <1>8, <1>10, <1>11, <1>12, <1>14, <2>5
  <2> QED BY <1>8, <2>1, <2>2, <2>3, <2>4, <2>5
<1> QED BY <1>13, <1>14 DEF AreasApart

-----------------------------------------------------------------------------
(* The root on the disk, in its five parts.                                *)
MagicThere == disk[v.start] = Magic
InodeBitSet == FS_ROOT_DIRECTORY_INODE \in SetIn(InodeBitmap, "bits")
InodeThere == FS_ROOT_DIRECTORY_INODE \in SetIn(RootInode, "inodes")
DataBitSet == 0 \in SetIn(DataBitmap, "bits")
EntriesThere == disk[DataBlock(0)] = Entries({".", ".."})

(* fs_init is making the file system, between the superblock and the end.  *)
Making ==
    \/ pc \in {"init_data", "init_inodes", "mark_root", "add_current", "add_parent"}
    \/ root # {}

(* The inductive invariant.  RootSurvives is about the end of formatting   *)
(* only: it needs what each phase on the way leaves behind, that a made    *)
(* file system is never made again, and that the bitmaps in memory, which  *)
(* SaveBitmap writes back, have the bits of the root once they are loaded. *)
Types ==
    /\ v \in Volumes
    /\ disk = [s \in Sectors |-> disk[s]]
    /\ i \in Nat
    /\ root \in {{}, {FS_ROOT_DIRECTORY_INODE}}

Phases ==
    /\ root # {} => pc \in {"add_parent", "load_data", "load_inodes"}
    /\ Making => MagicThere
    /\ pc \in {"add_current", "add_parent"} \/ root # {} => InodeBitSet
    /\ root # {} => 0 \in data_bits
    /\ root # {} /\ pc \in {"load_data", "load_inodes"} => EntriesThere
    /\ root # {} /\ pc = "load_inodes" => DataBitSet

MadeOnce == formatted => ~ Making /\ pc # "superblock"

InMemory ==
    formatted =>
        /\ pc \in {"load_inodes", "up"} => 0 \in data_bits
        /\ pc = "up" => FS_ROOT_DIRECTORY_INODE \in inode_bits

RootOnDisk ==
    formatted => MagicThere /\ InodeBitSet /\ InodeThere /\ DataBitSet /\ EntriesThere

VolumeIInv == Types /\ Phases /\ MadeOnce /\ RootOnDisk /\ InMemory

-----------------------------------------------------------------------------
(* The five sectors are there, in this order, with room for a block.       *)
LEMMA InOrder ==
    ASSUME v \in Volumes
    PROVE  /\ step \in Nat \ {0} /\ v.start \in Nat
           /\ InodeBitmap \in Nat /\ RootInode \in Nat
           /\ DataBitmap \in Nat /\ DataBlock(0) \in Nat
           /\ v.start < InodeBitmap /\ InodeBitmap + step <= RootInode
           /\ RootInode + step <= DataBitmap /\ DataBitmap + step <= DataBlock(0)
           /\ {v.start, InodeBitmap, RootInode, DataBitmap, DataBlock(0)} \subseteq Sectors
<1> DEFINE S == v.start
           I == InodeBitmap
           T == RootInode
           D == DataBitmap
           B == DataBlock(0)
           n == BitmapBlocks(v.inode_count) * step
           t == TableBlocks * step
           m == BitmapBlocks(DataBlocks) * step
           end == v.start + (sb.block_count + 4) * step
<1>1. /\ step \in Nat \ {0} /\ S \in Nat /\ I \in Nat /\ T \in Nat /\ D \in Nat /\ B \in Nat
      /\ S < I /\ I + n + step <= T /\ T + t + step <= D /\ D + m + step <= B
      /\ B + step <= end
  BY Layout
<1>2. n \in Nat /\ t \in Nat /\ m \in Nat
  <2>1. /\ step \in Nat \ {0} /\ BitmapBlocks(v.inode_count) \in Nat
        /\ BitmapBlocks(DataBlocks) \in Nat /\ TableBlocks \in Nat
    BY Layout
  <2> QED BY <2>1, AtLeastOnce
<1>3. end \in Nat
  <2>1. sb.block_count + 4 \in Nat
    BY SuperblockSizes DEF sb
  <2>2. (sb.block_count + 4) * step \in Nat
    BY <1>1, <2>1, AtLeastOnce
  <2> QED BY <1>1, <2>2
<1>4. Sectors = S .. end
  BY DEF Sectors, step
<1> HIDE DEF S, I, T, D, B, n, t, m, end
<1>5. I + step <= T /\ T + step <= D /\ D + step <= B
  BY <1>1, <1>2
<1>6. {S, I, T, D, B} \subseteq Sectors
  BY <1>1, <1>3, <1>4, <1>5
<1> QED BY <1>1, <1>5, <1>6 DEF S, I, T, D, B

(* The constants of a kernel do not change while it runs.                  *)
LEMMA SameVolume ==
    ASSUME v' = v
    PROVE  /\ Sectors' = Sectors
           /\ InodeBitmap' = InodeBitmap /\ RootInode' = RootInode
           /\ DataBitmap' = DataBitmap /\ DataBlock(0)' = DataBlock(0)
  BY DEF Sectors, InodeBitmap, RootInode, DataBitmap, DataBlock, block_to_sector, sb

(* What a write does to the five sectors: it can only be told from the     *)
(* ones it begins at, if they are not in the rest of its block.            *)
LEMMA WriteKeeps ==
    ASSUME Types, v' = v, NEW sector \in Nat, NEW what, WriteBlock(sector, what)
    PROVE  /\ disk' = [s \in Sectors' |-> disk'[s]]
           /\ \A x \in Sectors : x < sector \/ sector + step <= x => disk'[x] = disk[x]
           /\ \A x \in Sectors : x = sector => disk'[x] = what
<1>1. disk' = [s \in Sectors |->
                  IF s = sector THEN what
                  ELSE IF s \in sector + 1 .. sector + step - 1 THEN Part
                  ELSE disk[s]]
  BY DEF WriteBlock, Written, step
<1>2. Sectors' = Sectors
  BY SameVolume
<1>3. step \in Nat \ {0} /\ Sectors \subseteq Int
  BY InOrder DEF Types, Sectors
<1>4. disk' = [s \in Sectors' |-> disk'[s]]
  BY <1>1, <1>2
<1>5. ASSUME NEW x \in Sectors, x < sector \/ sector + step <= x
      PROVE  disk'[x] = disk[x]
  <2>1. x \in Int /\ x # sector /\ x \notin sector + 1 .. sector + step - 1
    BY <1>3, <1>5
  <2> QED BY <1>1, <2>1
<1>6. \A x \in Sectors : x = sector => disk'[x] = what
  BY <1>1
<1> QED BY <1>4, <1>5, <1>6

(* The parts of the root a write leaves alone, and those it writes.        *)
LEMMA PartsKept ==
    ASSUME Types, v' = v, NEW sector \in Nat, NEW what, WriteBlock(sector, what)
    PROVE  /\ disk' = [s \in Sectors' |-> disk'[s]]
           /\ v.start < sector => (MagicThere' <=> MagicThere)
           /\ InodeBitmap < sector \/ sector + step <= InodeBitmap =>
                (InodeBitSet' <=> InodeBitSet)
           /\ RootInode < sector \/ sector + step <= RootInode => (InodeThere' <=> InodeThere)
           /\ DataBitmap < sector \/ sector + step <= DataBitmap => (DataBitSet' <=> DataBitSet)
           /\ DataBlock(0) < sector \/ sector + step <= DataBlock(0) =>
                (EntriesThere' <=> EntriesThere)
           /\ sector \in {InodeBitmap, RootInode, DataBitmap, DataBlock(0)} =>
                disk'[sector] = what
<1>1. {v.start, InodeBitmap, RootInode, DataBitmap, DataBlock(0)} \subseteq Sectors
  BY InOrder DEF Types
<1>2. /\ InodeBitmap' = InodeBitmap /\ RootInode' = RootInode
      /\ DataBitmap' = DataBitmap /\ DataBlock(0)' = DataBlock(0)
  BY SameVolume
<1>3. \A x \in Sectors : x < sector \/ sector + step <= x => disk'[x] = disk[x]
  BY WriteKeeps
<1>4. v.start < sector => (MagicThere' <=> MagicThere)
  BY <1>1, <1>3 DEF MagicThere, Magic
<1>5. InodeBitmap < sector \/ sector + step <= InodeBitmap => (InodeBitSet' <=> InodeBitSet)
  BY <1>1, <1>2, <1>3 DEF InodeBitSet, SetIn
<1>6. RootInode < sector \/ sector + step <= RootInode => (InodeThere' <=> InodeThere)
  BY <1>1, <1>2, <1>3 DEF InodeThere, SetIn
<1>7. DataBitmap < sector \/ sector + step <= DataBitmap => (DataBitSet' <=> DataBitSet)
  BY <1>1, <1>2, <1>3 DEF DataBitSet, SetIn
<1>8. DataBlock(0) < sector \/ sector + step <= DataBlock(0) =>
         (EntriesThere' <=> EntriesThere)
  BY <1>1, <1>2, <1>3 DEF EntriesThere, Entries
<1>9. sector \in {InodeBitmap, RootInode, DataBitmap, DataBlock(0)} => disk'[sector] = what
  BY <1>1, WriteKeeps
<1> QED BY <1>4, <1>5, <1>6, <1>7, <1>8, <1>9, WriteKeeps

(* Where the other writes go: the data blocks behind that of the root, and *)
(* the blocks of the inode table, of which the first has the root.         *)
LEMMA BehindTheRoot ==
    ASSUME v \in Volumes, NEW b \in Nat \ {0}
    PROVE  DataBlock(b) \in Nat /\ DataBlock(0) + step <= DataBlock(b)
<1> DEFINE ds == sb.data_blocks_start
<1>1. ds \in Nat /\ step \in Nat \ {0} /\ v.start \in Nat
  BY Layout, SuperblockSizes DEF sb
<1>2. DataBlock(0) = v.start + ds * step
  BY Layout DEF block_to_sector, step
<1>3. DataBlock(b) = v.start + (ds + b) * step
  BY DEF DataBlock, block_to_sector, step
<1> HIDE DEF ds
<1>4. /\ ds * step + 1 * step <= (ds + b) * step
      /\ ds * step \in Nat /\ (ds + b) * step \in Nat
  BY <1>1, Product
<1>5. 1 * step = step
  BY <1>1
<1> QED BY <1>1, <1>2, <1>3, <1>4, <1>5

InodeSector(n) == block_to_sector(sb.inode_table_start + n \div sb.inodes_per_block)

LEMMA InTheTable ==
    ASSUME v \in Volumes, NEW n \in Nat, n < v.inode_count
    PROVE  /\ InodeSector(n) \in Nat
           /\ InodeSector(n) = RootInode \/ RootInode + step <= InodeSector(n)
           /\ InodeSector(n) + step <= DataBitmap
<1> DEFINE it == sb.inode_table_start
           per_block == sb.inodes_per_block
           block == n \div per_block
<1>1. /\ it \in Nat /\ step \in Nat \ {0} /\ v.start \in Nat /\ per_block \in Nat \ {0}
      /\ TableBlocks \in Nat \ {0} /\ v.inode_count \in Nat
  BY Layout, SuperblockSizes, VolumesAssumption DEF sb
<1>2. v.inode_count <= TableBlocks * per_block
  <2>1. TableBlocks = Up(v.inode_count, per_block)
    BY DEF TableBlocks, sb, Superblock
  <2> QED BY <1>1, <2>1, UpHolds
<1>3. block \in Nat /\ block < TableBlocks
  <2>1. TableBlocks * per_block \in Nat
    BY <1>1
  <2>2. n < TableBlocks * per_block
    BY <1>1, <1>2, <2>1
  <2> QED BY <1>1, <2>2, QuotientNat, QuotientBelow
<1>4. RootInode = v.start + it * step
  BY Layout DEF block_to_sector, step
<1>5. InodeSector(n) = v.start + (it + block) * step
  BY DEF InodeSector, block_to_sector, step
<1>6. RootInode + TableBlocks * step + step <= DataBitmap /\ DataBitmap \in Nat
  BY Layout
<1> HIDE DEF it, block, per_block
<1>7. /\ (it + block) * step = it * step + block * step
      /\ it * step \in Nat /\ block * step \in Nat /\ TableBlocks * step \in Nat
  BY <1>1, <1>3
<1>8. block * step <= TableBlocks * step
  <2>1. block * step + 0 * step <= TableBlocks * step /\ 0 * step \in Nat
    BY <1>1, <1>3, Product
  <2> QED BY <1>7, <2>1
<1>9. block = 0 \/ step <= block * step
  <2>1. CASE block # 0
    <3>1. 0 * step + 1 * step <= block * step
      BY <1>1, <1>3, <2>1, Product
    <3>2. 1 * step = step /\ 0 * step = 0
      BY <1>1
    <3> QED BY <1>1, <1>7, <3>1, <3>2
  <2> QED BY <2>1
<1>10. block = 0 => block * step = 0
  BY <1>1
<1> QED BY <1>1, <1>4, <1>5, <1>6, <1>7, <1>8, <1>9, <1>10

-----------------------------------------------------------------------------
LEMMA VolumeInitHolds ==
    ASSUME Init
    PROVE  VolumeIInv
  BY DEF Init, VolumeIInv, Types, Phases, Making, MadeOnce, RootOnDisk, InMemory

(* A step that writes nothing to the disk.                                 *)
LEMMA NoWrite ==
    ASSUME Types, v' = v, disk' = disk
    PROVE  /\ disk' = [s \in Sectors' |-> disk'[s]]
           /\ (MagicThere' <=> MagicThere) /\ (InodeBitSet' <=> InodeBitSet)
           /\ (InodeThere' <=> InodeThere) /\ (DataBitSet' <=> DataBitSet)
           /\ (EntriesThere' <=> EntriesThere)
<1>1. /\ Sectors' = Sectors
      /\ InodeBitmap' = InodeBitmap /\ RootInode' = RootInode
      /\ DataBitmap' = DataBitmap /\ DataBlock(0)' = DataBlock(0)
  BY SameVolume
<1> QED BY <1>1 DEF Types, MagicThere, Magic, InodeBitSet, InodeThere, DataBitSet,
                    EntriesThere, Entries, SetIn

LEMMA LoadSuperblockKeeps ==
    ASSUME VolumeIInv, LoadSuperblock
    PROVE  VolumeIInv'
<1>1. v' = v /\ disk' = disk
  BY DEF LoadSuperblock, others
<1>2. Types
  BY DEF VolumeIInv
<1> USE <1>1, <1>2, NoWrite DEF VolumeIInv, LoadSuperblock, Then, memory, others
<1>3. Types'
  BY DEF Types
<1>4. Phases'
  BY DEF Phases, Making
<1>5. MadeOnce' /\ RootOnDisk' /\ InMemory'
  BY DEF Phases, MadeOnce, Making, RootOnDisk, InMemory, MagicThere
<1> QED BY <1>3, <1>4, <1>5

LEMMA InitSuperblockKeeps ==
    ASSUME VolumeIInv, InitSuperblock
    PROVE  VolumeIInv'
<1>1. v' = v /\ disk' = [disk EXCEPT ![v.start] = Magic] /\ root' = root
      /\ formatted' = formatted /\ pc = "superblock" /\ pc' = "init_data" /\ i' = 0
  BY DEF InitSuperblock, Then, others, memory
<1>2. ~ formatted /\ root = {}
  BY <1>1 DEF VolumeIInv, Phases, MadeOnce
<1>3. v.start \in Sectors /\ Sectors' = Sectors
  BY <1>1, InOrder, SameVolume DEF VolumeIInv, Types
<1>4. disk' = [s \in Sectors' |-> disk'[s]] /\ MagicThere'
  BY <1>1, <1>3 DEF VolumeIInv, Types, MagicThere
<1>5. Types'
  BY <1>1, <1>4 DEF VolumeIInv, Types
<1> QED BY <1>1, <1>2, <1>4, <1>5
        DEF VolumeIInv, Phases, Making, MadeOnce, RootOnDisk, InMemory

(* Each write of bitmap_disk_init is in the bitmap or the block behind it. *)
LEMMA InitBitmapWrites ==
    ASSUME v \in Volumes, i \in Nat, NEW from, NEW to, NEW start \in Nat, NEW bits,
           BitmapBlocks(bits) \in Nat \ {0}, InitBitmap(from, to, start, bits)
    PROVE  /\ pc = from /\ pc' \in {from, to} /\ i' \in Nat
           /\ \E sector \in Nat :
                 /\ start <= sector
                 /\ sector + step < start + BitmapBlocks(bits) * step + step
                 /\ WriteBlock(sector, Bits({}))
<1> DEFINE count == BitmapBlocks(bits) * step
           last == start + (BitmapBlocks(bits) - 1) * step
           end == start + BitmapBlocks(bits) * step + step
<1>1. /\ \A k \in 0 .. count - 2 : start + k \in Nat /\ start + k + step < end
      /\ last \in Nat /\ start <= last /\ last + step < end
  BY BitmapHasRoom
<1>2. count \in Nat
  BY Layout, AtLeastOnce
<1>3. \/ /\ i < count - 1
         /\ pc = from /\ pc' = from /\ i' = i + 1
         /\ WriteBlock(start + i, Bits({}))
      \/ /\ pc = from /\ pc' = to /\ i' = 0
         /\ WriteBlock(last, Bits({}))
  BY DEF InitBitmap, Then, step
<1> HIDE DEF count, last, end
<1>4. CASE i < count - 1 /\ pc = from /\ pc' = from /\ i' = i + 1
           /\ WriteBlock(start + i, Bits({}))
  <2>1. i \in 0 .. count - 2
    BY <1>2, <1>4
  <2>2. start + i \in Nat /\ start <= start + i /\ start + i + step < end
    BY <1>1, <2>1
  <2> QED BY <1>4, <2>2 DEF end
<1>5. CASE pc = from /\ pc' = to /\ i' = 0 /\ WriteBlock(last, Bits({}))
  BY <1>1, <1>5 DEF end
<1> QED BY <1>3, <1>4, <1>5

(* In the two phases that make the bitmaps only the superblock matters.    *)
LEMMA InitDataKeeps ==
    ASSUME VolumeIInv, InitData
    PROVE  VolumeIInv'
<1>1. v' = v /\ root' = root /\ formatted' = formatted
      /\ InitBitmap("init_data", "init_inodes", DataBitmap, DataBlocks)
  BY DEF InitData, others, DataBlocks
<1>2. v \in Volumes /\ i \in Nat /\ Types
  BY DEF VolumeIInv, Types
<1>3. DataBitmap \in Nat /\ BitmapBlocks(DataBlocks) \in Nat \ {0}
  BY <1>2, Layout
<1>4. PICK sector \in Nat : DataBitmap <= sector /\ WriteBlock(sector, Bits({}))
  BY <1>1, <1>2, <1>3, InitBitmapWrites
<1>5. pc = "init_data" /\ pc' \in {"init_data", "init_inodes"} /\ i' \in Nat
  BY <1>1, <1>2, <1>3, InitBitmapWrites
<1>6. v.start < sector
  BY <1>2, <1>4, InOrder
<1>7. disk' = [s \in Sectors' |-> disk'[s]] /\ (MagicThere' <=> MagicThere)
  BY <1>1, <1>2, <1>4, <1>6, PartsKept
<1>8. ~ formatted /\ root = {} /\ MagicThere
  BY <1>5 DEF VolumeIInv, Phases, MadeOnce, Making
<1>9. Types'
  BY <1>1, <1>2, <1>5, <1>7 DEF Types
<1> QED BY <1>1, <1>5, <1>7, <1>8, <1>9
        DEF VolumeIInv, Phases, Making, MadeOnce, RootOnDisk, InMemory

LEMMA InitInodesKeeps ==
    ASSUME VolumeIInv, InitInodes
    PROVE  VolumeIInv'
<1>1. v' = v /\ root' = root /\ formatted' = formatted
      /\ InitBitmap("init_inodes", "mark_root", InodeBitmap, v.inode_count)
  BY DEF InitInodes, others
<1>2. v \in Volumes /\ i \in Nat /\ Types
  BY DEF VolumeIInv, Types
<1>3. InodeBitmap \in Nat /\ BitmapBlocks(v.inode_count) \in Nat \ {0}
  BY <1>2, Layout
<1>4. PICK sector \in Nat : InodeBitmap <= sector /\ WriteBlock(sector, Bits({}))
  BY <1>1, <1>2, <1>3, InitBitmapWrites
<1>5. pc = "init_inodes" /\ pc' \in {"init_inodes", "mark_root"} /\ i' \in Nat
  BY <1>1, <1>2, <1>3, InitBitmapWrites
<1>6. v.start < sector
  BY <1>2, <1>4, InOrder
<1>7. disk' = [s \in Sectors' |-> disk'[s]] /\ (MagicThere' <=> MagicThere)
  BY <1>1, <1>2, <1>4, <1>6, PartsKept
<1>8. ~ formatted /\ root = {} /\ MagicThere
  BY <1>5 DEF VolumeIInv, Phases, MadeOnce, Making
<1>9. Types'
  BY <1>1, <1>2, <1>5, <1>7 DEF Types
<1> QED BY <1>1, <1>5, <1>7, <1>8, <1>9
        DEF VolumeIInv, Phases, Making, MadeOnce, RootOnDisk, InMemory

(* What is written at a bitmap or at the inode table is found there.       *)
LEMMA Found ==
    ASSUME v \in Volumes, v' = v, NEW set
    PROVE  /\ disk'[InodeBitmap] = Bits(set) => SetIn(InodeBitmap, "bits")' = set
           /\ disk'[DataBitmap] = Bits(set) => SetIn(DataBitmap, "bits")' = set
           /\ disk'[RootInode] = Inodes(set) => SetIn(RootInode, "inodes")' = set
<1>1. InodeBitmap' = InodeBitmap /\ RootInode' = RootInode /\ DataBitmap' = DataBitmap
  BY SameVolume
<1> QED BY <1>1 DEF SetIn, Bits, Inodes

LEMMA MarkRootKeeps ==
    ASSUME VolumeIInv, MarkRoot
    PROVE  VolumeIInv'
<1>1. /\ v' = v /\ root' = root /\ formatted' = formatted
      /\ pc = "mark_root" /\ pc' = "add_current" /\ i' = 0
      /\ inode_bits' = inode_bits \cup {FS_ROOT_DIRECTORY_INODE}
      /\ WriteBlock(InodeBitmap, Bits(inode_bits'))
  BY DEF MarkRoot, Then, others
<1>2. v \in Volumes /\ Types
  BY DEF VolumeIInv, Types
<1>3. InodeBitmap \in Nat /\ v.start < InodeBitmap
  BY <1>2, InOrder
<1>4. /\ disk' = [s \in Sectors' |-> disk'[s]] /\ (MagicThere' <=> MagicThere)
      /\ disk'[InodeBitmap] = Bits(inode_bits')
  BY <1>1, <1>2, <1>3, PartsKept
<1>5. InodeBitSet'
  BY <1>1, <1>2, <1>4, Found DEF InodeBitSet
<1>6. ~ formatted /\ root = {} /\ MagicThere
  BY <1>1 DEF VolumeIInv, Phases, MadeOnce, Making
<1>7. Types'
  BY <1>1, <1>2, <1>4 DEF Types
<1> QED BY <1>1, <1>4, <1>5, <1>6, <1>7
        DEF VolumeIInv, Phases, Making, MadeOnce, RootOnDisk, InMemory

LEMMA AddCurrentKeeps ==
    ASSUME VolumeIInv, AddCurrent
    PROVE  VolumeIInv'
<1>1. /\ v' = v /\ root' = {FS_ROOT_DIRECTORY_INODE} /\ formatted' = formatted
      /\ pc = "add_current" /\ pc' = "add_parent" /\ i' = 0
      /\ data_bits' = data_bits \cup {0}
      /\ WriteBlock(DataBlock(0), Entries({"."}))
  BY DEF AddCurrent, Then, others
<1>2. v \in Volumes /\ Types
  BY DEF VolumeIInv, Types
<1>3. DataBlock(0) \in Nat /\ v.start < DataBlock(0) /\ InodeBitmap < DataBlock(0)
  BY <1>2, InOrder
<1>4. /\ disk' = [s \in Sectors' |-> disk'[s]] /\ (MagicThere' <=> MagicThere)
      /\ (InodeBitSet' <=> InodeBitSet)
  BY <1>1, <1>2, <1>3, PartsKept
<1>5. ~ formatted /\ MagicThere /\ InodeBitSet
  BY <1>1 DEF VolumeIInv, Phases, MadeOnce, Making
<1>6. Types'
  BY <1>1, <1>2, <1>4 DEF Types
<1> QED BY <1>1, <1>4, <1>5, <1>6
        DEF VolumeIInv, Phases, Making, MadeOnce, RootOnDisk, InMemory

LEMMA AddParentKeeps ==
    ASSUME VolumeIInv, AddParent
    PROVE  VolumeIInv'
<1>1. /\ v' = v /\ root' = root /\ formatted' = formatted /\ data_bits' = data_bits
      /\ pc = "add_parent" /\ pc' = "load_data" /\ i' = 0
      /\ WriteBlock(DataBlock(0), Entries({".", ".."}))
  BY DEF AddParent, Then, others, memory
<1>2. v \in Volumes /\ Types
  BY DEF VolumeIInv, Types
<1>3. DataBlock(0) \in Nat /\ v.start < DataBlock(0) /\ InodeBitmap < DataBlock(0)
  BY <1>2, InOrder
<1>4. /\ disk' = [s \in Sectors' |-> disk'[s]] /\ (MagicThere' <=> MagicThere)
      /\ (InodeBitSet' <=> InodeBitSet)
      /\ disk'[DataBlock(0)] = Entries({".", ".."})
  BY <1>1, <1>2, <1>3, PartsKept
<1>5. EntriesThere'
  BY <1>1, <1>4, SameVolume DEF EntriesThere, Entries
<1>6. ~ formatted /\ MagicThere /\ InodeBitSet /\ (root # {} => 0 \in data_bits)
  BY <1>1 DEF VolumeIInv, Phases, MadeOnce, Making
<1>7. Types'
  BY <1>1, <1>2, <1>4 DEF Types
<1> QED BY <1>1, <1>4, <1>5, <1>6, <1>7
        DEF VolumeIInv, Phases, Making, MadeOnce, RootOnDisk, InMemory

LEMMA LoadDataKeeps ==
    ASSUME VolumeIInv, LoadData
    PROVE  VolumeIInv'
<1>1. /\ v' = v /\ root' = root /\ formatted' = formatted /\ inode_bits' = inode_bits
      /\ pc = "load_data" /\ pc' = "load_inodes" /\ i' = 0
  BY DEF LoadData, Then, others
<1>2. v \in Volumes /\ Types
  BY DEF VolumeIInv, Types
<1>3. CASE root # {}
  <2>1. WriteBlock(DataBitmap, Bits(data_bits)) /\ data_bits' = data_bits
    BY <1>3 DEF LoadData
  <2>2. /\ DataBitmap \in Nat /\ v.start < DataBitmap /\ DataBitmap + step <= DataBlock(0)
        /\ InodeBitmap < DataBitmap
    BY <1>2, InOrder
  <2>3. /\ disk' = [s \in Sectors' |-> disk'[s]] /\ (MagicThere' <=> MagicThere)
        /\ (InodeBitSet' <=> InodeBitSet) /\ (EntriesThere' <=> EntriesThere)
        /\ disk'[DataBitmap] = Bits(data_bits)
    BY <1>1, <1>2, <2>1, <2>2, PartsKept
  <2>4. ~ formatted /\ MagicThere /\ InodeBitSet /\ EntriesThere /\ 0 \in data_bits
    BY <1>1, <1>3 DEF VolumeIInv, Phases, MadeOnce, Making
  <2>5. DataBitSet'
    BY <1>1, <1>2, <2>3, <2>4, Found DEF DataBitSet
  <2>6. Types'
    BY <1>1, <1>2, <2>3 DEF Types
  <2> QED BY <1>1, <2>1, <2>3, <2>4, <2>5, <2>6
          DEF VolumeIInv, Phases, Making, MadeOnce, RootOnDisk, InMemory
<1>4. CASE root = {}
  <2>1. disk' = disk /\ data_bits' = SetIn(DataBitmap, "bits")
    BY <1>4 DEF LoadData
  <2>2. /\ disk' = [s \in Sectors' |-> disk'[s]]
        /\ (MagicThere' <=> MagicThere) /\ (InodeBitSet' <=> InodeBitSet)
        /\ (InodeThere' <=> InodeThere) /\ (DataBitSet' <=> DataBitSet)
        /\ (EntriesThere' <=> EntriesThere)
    BY <1>1, <1>2, <2>1, NoWrite
  <2>3. Types'
    BY <1>1, <1>2, <2>2 DEF Types
  <2>4. formatted => 0 \in data_bits'
    BY <2>1 DEF VolumeIInv, RootOnDisk, DataBitSet
  <2> QED BY <1>1, <1>4, <2>2, <2>3, <2>4
          DEF VolumeIInv, Phases, Making, MadeOnce, RootOnDisk, InMemory
<1> QED BY <1>3, <1>4

LEMMA LoadInodesKeeps ==
    ASSUME VolumeIInv, LoadInodes
    PROVE  VolumeIInv'
<1>1. /\ v' = v /\ root' = {} /\ formatted' = (formatted \/ root # {})
      /\ data_bits' = data_bits /\ inode_bits' = SetIn(InodeBitmap, "bits")
      /\ pc = "load_inodes" /\ pc' = "up" /\ i' = 0
  BY DEF LoadInodes, Then, others
<1>2. v \in Volumes /\ Types
  BY DEF VolumeIInv, Types
<1>3. CASE root # {}
  <2> DEFINE inodes == SetIn(RootInode, "inodes") \cup {FS_ROOT_DIRECTORY_INODE}
  <2>1. WriteBlock(RootInode, Inodes(inodes))
    BY <1>3 DEF LoadInodes, SetInode, RootInode
  <2> HIDE DEF inodes
  <2>2. /\ RootInode \in Nat /\ v.start < RootInode /\ RootInode + step <= DataBitmap
        /\ RootInode + step <= DataBlock(0) /\ InodeBitmap < RootInode
    BY <1>2, InOrder
  <2>3. /\ disk' = [s \in Sectors' |-> disk'[s]] /\ (MagicThere' <=> MagicThere)
        /\ (InodeBitSet' <=> InodeBitSet) /\ (EntriesThere' <=> EntriesThere)
        /\ (DataBitSet' <=> DataBitSet)
        /\ disk'[RootInode] = Inodes(inodes)
    BY <1>1, <1>2, <2>1, <2>2, PartsKept
  <2>4. /\ MagicThere /\ InodeBitSet /\ EntriesThere /\ DataBitSet
        /\ 0 \in data_bits
    BY <1>1, <1>3 DEF VolumeIInv, Phases, Making
  <2>5. InodeThere'
    BY <1>1, <1>2, <2>3, Found DEF InodeThere, inodes
  <2>6. Types'
    BY <1>1, <1>2, <2>3 DEF Types
  <2>7. FS_ROOT_DIRECTORY_INODE \in inode_bits'
    BY <1>1, <2>4 DEF InodeBitSet
  <2> QED BY <1>1, <2>3, <2>4, <2>5, <2>6, <2>7
          DEF VolumeIInv, Phases, Making, MadeOnce, RootOnDisk, InMemory
<1>4. CASE root = {}
  <2>1. disk' = disk
    BY <1>4 DEF LoadInodes
  <2>2. /\ disk' = [s \in Sectors' |-> disk'[s]]
        /\ (MagicThere' <=> MagicThere) /\ (InodeBitSet' <=> InodeBitSet)
        /\ (InodeThere' <=> InodeThere) /\ (DataBitSet' <=> DataBitSet)
        /\ (EntriesThere' <=> EntriesThere)
    BY <1>1, <1>2, <2>1, NoWrite
  <2>3. Types'
    BY <1>1, <1>2, <2>2 DEF Types
  <2>4. formatted => FS_ROOT_DIRECTORY_INODE \in inode_bits' /\ 0 \in data_bits
    BY <1>1 DEF VolumeIInv, RootOnDisk, InodeBitSet, InMemory
  <2> QED BY <1>1, <1>4, <2>2, <2>3, <2>4
          DEF VolumeIInv, Phases, Making, MadeOnce, RootOnDisk, InMemory
<1> QED BY <1>3, <1>4

(* The file system at work writes beside the root, or writes its bits and  *)
(* its inode again.                                                        *)
AtWork ==
    /\ pc = "up" /\ pc' = pc /\ i' = i /\ v' = v /\ formatted' = formatted
    /\ data_bits' = data_bits /\ inode_bits' = inode_bits /\ root' = root

LEMMA AtWorkKeeps ==
    ASSUME VolumeIInv, AtWork, disk' = [s \in Sectors' |-> disk'[s]],
           formatted => MagicThere' /\ InodeBitSet' /\ InodeThere' /\ DataBitSet' /\ EntriesThere'
    PROVE  VolumeIInv'
<1>1. root = {}
  BY DEF AtWork, VolumeIInv, Phases
<1>2. Types'
  BY DEF AtWork, VolumeIInv, Types
<1> QED BY <1>1, <1>2 DEF AtWork, VolumeIInv, Phases, Making, MadeOnce, RootOnDisk, InMemory

LEMMA WriteDataKeeps ==
    ASSUME VolumeIInv, NEW b \in Nat \ {0}, WriteData(b)
    PROVE  VolumeIInv'
<1>1. AtWork /\ v' = v /\ WriteBlock(DataBlock(b), Entries({}))
  BY DEF WriteData, AtWork, memory, others
<1>2. v \in Volumes /\ Types
  BY DEF VolumeIInv, Types
<1>3. DataBlock(b) \in Nat /\ DataBlock(0) + step <= DataBlock(b)
  BY <1>2, BehindTheRoot
<1>4. /\ v.start < DataBlock(b) /\ InodeBitmap < DataBlock(b) /\ RootInode < DataBlock(b)
      /\ DataBitmap < DataBlock(b) /\ DataBlock(0) < DataBlock(b)
  BY <1>2, <1>3, InOrder
<1>5. /\ disk' = [s \in Sectors' |-> disk'[s]] /\ (MagicThere' <=> MagicThere)
      /\ (InodeBitSet' <=> InodeBitSet) /\ (InodeThere' <=> InodeThere)
      /\ (DataBitSet' <=> DataBitSet) /\ (EntriesThere' <=> EntriesThere)
  BY <1>1, <1>2, <1>3, <1>4, PartsKept
<1>6. formatted => MagicThere /\ InodeBitSet /\ InodeThere /\ DataBitSet /\ EntriesThere
  BY DEF VolumeIInv, RootOnDisk
<1> QED BY <1>1, <1>5, <1>6, AtWorkKeeps

LEMMA WriteInodeKeeps ==
    ASSUME VolumeIInv, NEW n \in Nat, n < v.inode_count, WriteInode(n)
    PROVE  VolumeIInv'
<1> DEFINE sector == InodeSector(n)
           inodes == SetIn(sector, "inodes") \cup {n}
<1>1. AtWork /\ v' = v /\ WriteBlock(sector, Inodes(inodes))
  BY DEF WriteInode, SetInode, InodeSector, AtWork, memory, others
<1>2. v \in Volumes /\ Types
  BY DEF VolumeIInv, Types
<1>3. /\ sector \in Nat /\ (sector = RootInode \/ RootInode + step <= sector)
      /\ sector + step <= DataBitmap
  BY <1>2, InTheTable
<1> HIDE DEF sector, inodes
<1>4. /\ v.start < sector /\ InodeBitmap < sector /\ sector + step <= DataBlock(0)
      /\ sector # RootInode => RootInode < sector
  BY <1>2, <1>3, InOrder
<1>5. /\ disk' = [s \in Sectors' |-> disk'[s]] /\ (MagicThere' <=> MagicThere)
      /\ (InodeBitSet' <=> InodeBitSet)
      /\ RootInode < sector => (InodeThere' <=> InodeThere)
      /\ (DataBitSet' <=> DataBitSet) /\ (EntriesThere' <=> EntriesThere)
      /\ sector = RootInode => disk'[RootInode] = Inodes(inodes)
  BY <1>1, <1>2, <1>3, <1>4, PartsKept
<1>6. formatted => MagicThere /\ InodeBitSet /\ InodeThere /\ DataBitSet /\ EntriesThere
  BY DEF VolumeIInv, RootOnDisk
<1>7. InodeThere => InodeThere'
  <2>1. CASE sector = RootInode
    <3>1. SetIn(RootInode, "inodes")' = inodes
      BY <1>1, <1>2, <1>5, <2>1, Found
    <3> QED BY <2>1, <3>1 DEF InodeThere, inodes
  <2> QED BY <1>4, <1>5, <2>1
<1> QED BY <1>1, <1>5, <1>6, <1>7, AtWorkKeeps

LEMMA SaveDataBitmapKeeps ==
    ASSUME VolumeIInv, SaveBitmap(DataBitmap, DataBlocks, data_bits)
    PROVE  VolumeIInv'
<1>1. AtWork /\ v' = v /\ WriteBlock(DataBitmap, Bits(data_bits))
  BY DEF SaveBitmap, AtWork, memory, others
<1>2. v \in Volumes /\ Types
  BY DEF VolumeIInv, Types
<1>3. /\ DataBitmap \in Nat /\ v.start < DataBitmap /\ InodeBitmap < DataBitmap
      /\ RootInode < DataBitmap /\ DataBitmap + step <= DataBlock(0)
  BY <1>2, InOrder
<1>4. /\ disk' = [s \in Sectors' |-> disk'[s]] /\ (MagicThere' <=> MagicThere)
      /\ (InodeBitSet' <=> InodeBitSet) /\ (InodeThere' <=> InodeThere)
      /\ (EntriesThere' <=> EntriesThere)
      /\ disk'[DataBitmap] = Bits(data_bits)
  BY <1>1, <1>2, <1>3, PartsKept
<1>5. formatted => MagicThere /\ InodeBitSet /\ InodeThere /\ EntriesThere /\ 0 \in data_bits
  BY <1>1 DEF AtWork, VolumeIInv, RootOnDisk, InMemory
<1>6. formatted => DataBitSet'
  BY <1>1, <1>2, <1>4, <1>5, Found DEF DataBitSet
<1> QED BY <1>1, <1>4, <1>5, <1>6, AtWorkKeeps

LEMMA SaveInodeBitmapKeeps ==
    ASSUME VolumeIInv, SaveBitmap(InodeBitmap, v.inode_count, inode_bits)
    PROVE  VolumeIInv'
<1>1. AtWork /\ v' = v /\ WriteBlock(InodeBitmap, Bits(inode_bits))
  BY DEF SaveBitmap, AtWork, memory, others
<1>2. v \in Volumes /\ Types
  BY DEF VolumeIInv, Types
<1>3. /\ InodeBitmap \in Nat /\ v.start < InodeBitmap /\ InodeBitmap + step <= RootInode
      /\ InodeBitmap + step <= DataBitmap /\ InodeBitmap + step <= DataBlock(0)
  BY <1>2, InOrder
<1>4. /\ disk' = [s \in Sectors' |-> disk'[s]] /\ (MagicThere' <=> MagicThere)
      /\ (InodeThere' <=> InodeThere) /\ (DataBitSet' <=> DataBitSet)
      /\ (EntriesThere' <=> EntriesThere)
      /\ disk'[InodeBitmap] = Bits(inode_bits)
  BY <1>1, <1>2, <1>3, PartsKept
<1>5. formatted => /\ MagicThere /\ InodeThere /\ DataBitSet /\ EntriesThere
                   /\ FS_ROOT_DIRECTORY_INODE \in inode_bits
  BY <1>1 DEF AtWork, VolumeIInv, RootOnDisk, InMemory
<1>6. formatted => InodeBitSet'
  BY <1>1, <1>2, <1>4, <1>5, Found DEF InodeBitSet
<1> QED BY <1>1, <1>4, <1>5, <1>6, AtWorkKeeps

(* Whatever fs_init or the file system was doing, the disk stays.          *)
LEMMA RebootKeeps ==
    ASSUME VolumeIInv, Reboot
    PROVE  VolumeIInv'
<1>1. /\ v' = v /\ disk' = disk /\ formatted' = formatted
      /\ pc' = "load_superblock" /\ i' = 0 /\ root' = {}
  BY DEF Reboot
<1>2. Types
  BY DEF VolumeIInv
<1>3. /\ disk' = [s \in Sectors' |-> disk'[s]]
      /\ (MagicThere' <=> MagicThere) /\ (InodeBitSet' <=> InodeBitSet)
      /\ (InodeThere' <=> InodeThere) /\ (DataBitSet' <=> DataBitSet)
      /\ (EntriesThere' <=> EntriesThere)
  BY <1>1, <1>2, NoWrite
<1>4. Types'
  BY <1>1, <1>2, <1>3 DEF Types
<1> QED BY <1>1, <1>3, <1>4 DEF VolumeIInv, Phases, Making, MadeOnce, RootOnDisk, InMemory

LEMMA StutterKeeps ==
    ASSUME VolumeIInv, UNCHANGED vars
    PROVE  VolumeIInv'
<1>1. /\ v' = v /\ disk' = disk /\ formatted' = formatted /\ pc' = pc /\ i' = i
      /\ root' = root /\ data_bits' = data_bits /\ inode_bits' = inode_bits
  BY DEF vars
<1>2. Types
  BY DEF VolumeIInv
<1>3. /\ disk' = [s \in Sectors' |-> disk'[s]]
      /\ (MagicThere' <=> MagicThere) /\ (InodeBitSet' <=> InodeBitSet)
      /\ (InodeThere' <=> InodeThere) /\ (DataBitSet' <=> DataBitSet)
      /\ (EntriesThere' <=> EntriesThere)
  BY <1>1, <1>2, NoWrite
<1>4. Types'
  BY <1>1, <1>2, <1>3 DEF Types
<1> QED BY <1>1, <1>3, <1>4 DEF VolumeIInv, Phases, Making, MadeOnce, RootOnDisk, InMemory

(* The invariant of a kernel that is started, stopped anywhere and started *)
(* again.                                                                  *)
THEOREM VolumeInvariance == Spec => []VolumeIInv
<1>1. Init => VolumeIInv
  BY VolumeInitHolds
<1>2. VolumeIInv /\ [Next]_vars => VolumeIInv'
  <2> SUFFICES ASSUME VolumeIInv, [Next]_vars PROVE VolumeIInv'
    OBVIOUS
  <2>1. CASE fs_init
    BY <2>1, LoadSuperblockKeeps, InitSuperblockKeeps, InitDataKeeps, InitInodesKeeps,
       MarkRootKeeps, AddCurrentKeeps, AddParentKeeps, LoadDataKeeps, LoadInodesKeeps
       DEF fs_init
  <2>2. ASSUME NEW b \in {1, sb.data_blocks_block_count - 1}, WriteData(b) PROVE VolumeIInv'
    <3>1. b \in Nat \ {0}
      <4>1. sb.data_blocks_block_count \in Nat /\ sb.data_blocks_block_count >= 8
        BY SuperblockSizes DEF VolumeIInv, Types, sb
      <4> QED BY <4>1
    <3> QED BY <2>2, <3>1, WriteDataKeeps
  <2>3. ASSUME NEW n \in {1, v.inode_count - 1}, WriteInode(n) PROVE VolumeIInv'
    <3>1. v.inode_count \in Nat \ {0} /\ v.inode_count % 8 = 0
      BY VolumesAssumption DEF VolumeIInv, Types
    <3>2. n \in Nat /\ n < v.inode_count
      BY <3>1
    <3> QED BY <2>3, <3>2, WriteInodeKeeps
  <2>4. CASE SaveBitmap(DataBitmap, sb.data_blocks_block_count, data_bits)
    BY <2>4, SaveDataBitmapKeeps DEF DataBlocks
  <2>5. CASE SaveBitmap(InodeBitmap, v.inode_count, inode_bits)
    BY <2>5, SaveInodeBitmapKeeps
  <2>6. CASE Reboot
    BY <2>6, RebootKeeps
  <2>7. CASE UNCHANGED vars
    BY <2>7, StutterKeeps
  <2> QED BY <2>1, <2>2, <2>3, <2>4, <2>5, <2>6, <2>7 DEF Next
<1> QED BY <1>1, <1>2, PTL DEF Spec

(* AreasApart: superblock, bitmap and table of the inodes, bitmap and      *)
(* blocks of the data never share a sector, with all that bitmap_disk_init *)
(* writes behind a bitmap, in every volume fs_superblock_calculate finds   *)
(* room for.                                                               *)
THEOREM AreasNeverMeet == Spec => []AreasApart
<1>1. VolumeIInv => AreasApart
  BY VolumeLaidOut DEF VolumeIInv, Types
<1> QED BY <1>1, VolumeInvariance, PTL

(* RootSurvives: once fs_init made the file system to its end, superblock, *)
(* inode, bits and entries of the root stay, whatever is written and       *)
(* wherever the machine stops.                                             *)
THEOREM RootIsKept == Spec => []RootSurvives
<1>1. VolumeIInv => RootSurvives
  BY DEF VolumeIInv, RootOnDisk, RootSurvives, MagicThere, InodeBitSet, InodeThere, DataBitSet,
         EntriesThere
<1> QED BY <1>1, VolumeInvariance, PTL

==============================================================================

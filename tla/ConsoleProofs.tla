---------------------------- MODULE ConsoleProofs ----------------------------
(***************************************************************************)
(* Proofs about the console: the keyboard driver, for a ring of any size   *)
(* and any keys, whose ring the interrupt and the polling reader share     *)
(* without a lock; and the text screen under the line editor of the shell, *)
(* for any screen, any line and any commands.                              *)
(***************************************************************************)
EXTENDS Keyboard, Terminal, Integers, SequenceTheorems, FiniteSetTheorems,
        WellFoundedInduction, TLAPS

-----------------------------------------------------------------------------
(* The keyboard driver.                                                    *)
Index == 0 .. KEYBOARD_BUFFER_SIZE - 1

TypeOK ==
    /\ head \in Index /\ tail \in Index
    /\ slots \in [Index -> Codes \cup {Blank}]
    /\ written \in Seq(Codes) /\ taken \in Seq(Codes \cup {Blank})
    /\ overflowed \in BOOLEAN
    /\ pc \in {"poll", "head", "nonempty", "index", "code", "advance"}
    /\ pc \in {"head", "index", "advance"} => reg \in Index

(* How many slots are between tail and head, and where: the ring without   *)
(* remainders.                                                             *)
Used == IF head >= tail THEN head - tail ELSE head + KEYBOARD_BUFFER_SIZE - tail
At(j) == IF tail + j < KEYBOARD_BUFFER_SIZE THEN tail + j ELSE tail + j - KEYBOARD_BUFFER_SIZE

(* What the reader has in its register is still so when it is used: the    *)
(* interrupt moves only head, until the ring overflows.                    *)
ReaderKeepsUp ==
    /\ pc = "head" /\ reg # tail => head # tail
    /\ pc \in {"nonempty", "index", "code", "advance"} => head # tail
    /\ pc \in {"index", "advance"} => reg = tail

(* FifoUntilOverflow, slot by slot.                                        *)
SlotsFollowWritten ==
    /\ Used <= Len(written)
    /\ \A j \in 0 .. Used - 1 : slots[At(j)] = written[Len(written) - Used + 1 + j]
    /\ Len(taken) = Len(written) - Used + Behind
    /\ \A k \in 1 .. Len(taken) : taken[k] = written[k]

FifoInv == ~ overflowed => ReaderKeepsUp /\ SlotsFollowWritten

(* As long as a slot was never written, the ring has not gone round: what  *)
(* was written is in front of head, and the reader is there too.  A ring   *)
(* that overflows has gone round.                                          *)
FirstRound ==
    /\ ~ overflowed
    /\ tail <= head
    /\ \A s \in Index : slots[s] = Blank <=> s >= head
    /\ pc = "head" => tail <= reg /\ reg <= head
    /\ pc \in {"nonempty", "index", "code", "advance"} => tail < head
    /\ pc \in {"index", "advance"} => reg = tail

BlankInv ==
    /\ OnlyTypedCodes
    /\ FirstRound \/ \A s \in Index : slots[s] # Blank

IInv == TypeOK /\ FifoInv /\ BlankInv

(* The decoder and the keyboard: a byte on the wire belongs to the key     *)
(* that sent it, and whatever is down is held or about to be released.     *)
Sent(b, brk) == wire # <<>> /\ wire[Len(wire)] = [base |-> b, brk |-> brk]
HeldBases == {k.base : k \in held}

WireOK ==
    /\ held \subseteq Keys
    /\ \/ wire = <<>> /\ ~ extended
       \/ \E k \in Keys, brk \in BOOLEAN :
             /\ ~ brk => k \in held
             /\ \/ wire = <<[base |-> k.base, brk |-> brk]>>
                \/ wire = <<E0, [base |-> k.base, brk |-> brk]>> /\ ~ extended

DownIsHeld ==
    /\ shift_down \in BOOLEAN /\ extended \in BOOLEAN
    /\ down \subseteq Arrows
    /\ \A b \in down : b \in HeldBases \/ Sent(b, TRUE)
    /\ shift_down => \E b \in Shifts : b \in HeldBases \/ Sent(b, TRUE)

DecoderInv == WireOK /\ DownIsHeld

-----------------------------------------------------------------------------
(* The indexes without remainders.                                         *)
LEMMA SuccWraps ==
    ASSUME NEW i \in Index
    PROVE  /\ Succ(i) \in Index
           /\ Succ(i) = IF i = KEYBOARD_BUFFER_SIZE - 1 THEN 0 ELSE i + 1
  BY SizeAssumption, SMT DEF Succ, Index

LEMMA SmallRemainder ==
    ASSUME NEW n \in 0 .. 2 * KEYBOARD_BUFFER_SIZE - 1
    PROVE  n % KEYBOARD_BUFFER_SIZE =
              IF n < KEYBOARD_BUFFER_SIZE THEN n ELSE n - KEYBOARD_BUFFER_SIZE
  BY SizeAssumption, SMT

LEMMA RingIndexes ==
    ASSUME head \in Index, tail \in Index
    PROVE  /\ Used \in Index
           /\ Used = 0 <=> head = tail
           /\ \A j \in Index : At(j) \in Index
           /\ At(0) = tail
           /\ At(Used) = head
           /\ \A j \in 0 .. Used - 1 : At(j) # head
  BY SizeAssumption DEF Used, At, Index

-----------------------------------------------------------------------------
LEMMA InitIInv == Init => IInv
<1> SUFFICES ASSUME Init PROVE IInv
  OBVIOUS
<1> USE SizeAssumption DEF Init
<1>1. TypeOK
  <2>1. head \in Index /\ tail \in Index
    BY DEF Index
  <2>2. slots \in [Index -> Codes \cup {Blank}]
    BY DEF Index
  <2>3. written \in Seq(Codes) /\ taken \in Seq(Codes \cup {Blank})
    OBVIOUS
  <2> QED BY <2>1, <2>2, <2>3 DEF TypeOK
<1>2. FifoInv
  BY DEF FifoInv, ReaderKeepsUp, SlotsFollowWritten, Used, Behind
<1>3. BlankInv
  <2>1. OnlyTypedCodes
    BY DEF OnlyTypedCodes
  <2>2. FirstRound
    BY DEF FirstRound, Index
  <2> QED BY <2>1, <2>2 DEF BlankInv
<1> QED BY <1>1, <1>2, <1>3 DEF IInv

(* All an interrupt does to the ring: nothing, or one write.               *)
LEMMA InterruptWrites ==
    ASSUME Interrupt
    PROVE  /\ UNCHANGED <<pc, reg, taken>>
           /\ WriteNothing \/ \E code \in Codes : keyboard_buffer_write(code)
<1> DEFINE byte == Head(wire)
<1>1. UNCHANGED <<pc, reg, taken>>
  BY DEF Interrupt, reader
<1>2. CASE byte = E0
  BY <1>1, <1>2 DEF Interrupt
<1> DEFINE plain == [key |-> byte.base, upper |-> FALSE]
           shown == [key |-> byte.base, upper |-> TRUE]
<1>3. CASE byte # E0 /\ byte.brk
  <2>1. byte.base \in Arrows => plain \in Codes
    BY DEF Codes
  <2>2. WriteNothing \/ (byte.base \in Arrows /\ keyboard_buffer_write(plain))
    BY <1>3 DEF Interrupt, BreakCode
  <2> QED BY <1>1, <2>1, <2>2
<1>4. CASE byte # E0 /\ ~ byte.brk /\ extended
  <2>1. byte.base \in Arrows => shown \in Codes
    BY DEF Codes
  <2>2. WriteNothing \/ (byte.base \in Arrows /\ keyboard_buffer_write(shown))
    BY <1>4 DEF Interrupt, ExtendedMakeCode
  <2> QED BY <1>1, <2>1, <2>2
<1>5. CASE byte # E0 /\ ~ byte.brk /\ ~ extended
  <2> DEFINE code == [key |-> byte.base,
                      upper |-> byte.base \in Letters /\ shift_down # caps_lock]
  <2>1. CASE byte.base \in Letters \cup Controls
    <3>1. code \in Codes
      BY <2>1 DEF Codes
    <3>2. keyboard_buffer_write(code)
      BY <1>5, <2>1 DEF Interrupt, MakeCode
    <3> QED BY <3>1, <3>2, <1>1
  <2>2. CASE byte.base \notin Letters \cup Controls
    BY <1>1, <1>5, <2>2 DEF Interrupt, MakeCode
  <2> QED BY <2>1, <2>2
<1> QED BY <1>1, <1>2, <1>3, <1>4, <1>5

(* A code that is typed is not the code of an unwritten slot.              *)
LEMMA TypedIsNotBlank == \A code \in Codes : code # Blank
  BY KeysAssumption DEF Codes, Blank

(* One more code in the ring, as long as it does not fill up.              *)
LEMMA RingGrows ==
    ASSUME head \in Index, tail \in Index, tail' = tail,
           head' = Succ(head), Succ(head) # tail
    PROVE  /\ head' \in Index
           /\ Used' = Used + 1
           /\ \A j \in Index : At(j)' = At(j)
           /\ head' # tail'
<1>1. /\ Succ(head) \in Index
      /\ Succ(head) = IF head = KEYBOARD_BUFFER_SIZE - 1 THEN 0 ELSE head + 1
  BY SuccWraps
<1> QED BY <1>1, SizeAssumption DEF Used, At, Index

(* The interrupt writes a code; the reader stands anywhere.                *)
LEMMA WriteStep ==
    ASSUME IInv, NEW code \in Codes, keyboard_buffer_write(code),
           UNCHANGED <<pc, reg, taken>>
    PROVE  IInv'
<1> USE DEF IInv
<1>1. /\ slots' = [slots EXCEPT ![head] = code]
      /\ head' = Succ(head)
      /\ written' = Append(written, code)
      /\ pc' = pc /\ reg' = reg /\ taken' = taken
  BY DEF keyboard_buffer_write
<1>2. head \in Index /\ tail \in Index /\ slots \in [Index -> Codes \cup {Blank}]
  BY DEF TypeOK
<1>3. /\ Succ(head) \in Index /\ Succ(tail) \in Index
      /\ Succ(head) = IF head = KEYBOARD_BUFFER_SIZE - 1 THEN 0 ELSE head + 1
  BY <1>2, SuccWraps
<1>4. /\ slots'[head] = code
      /\ \A s \in Index : s # head => slots'[s] = slots[s]
  BY <1>1, <1>2
<1>5. TypeOK'
  <2>1. head' \in Index /\ tail' \in Index /\ overflowed' \in BOOLEAN
    BY <1>1, <1>3 DEF TypeOK, keyboard_buffer_write
  <2>2. slots' \in [Index -> Codes \cup {Blank}]
    BY <1>1, <1>2
  <2>3. written' \in Seq(Codes) /\ taken' \in Seq(Codes \cup {Blank})
    BY <1>1 DEF TypeOK
  <2> QED BY <1>1, <2>1, <2>2, <2>3 DEF TypeOK
<1>6. OnlyTypedCodes'
  BY <1>1 DEF BlankInv, OnlyTypedCodes
<1>7. CASE Succ(head) = tail
  <2>1. overflowed'
    BY <1>7 DEF keyboard_buffer_write
  <2>2. \A s \in Index : slots'[s] # Blank
    <3>1. CASE FirstRound
      <4>1. head = KEYBOARD_BUFFER_SIZE - 1
        BY <1>2, <1>3, <1>7, <3>1 DEF FirstRound, Index
      <4>2. \A s \in Index : s # head => ~ (s >= head)
        BY <4>1, SizeAssumption DEF Index
      <4>3. \A s \in Index : slots[s] = Blank <=> s >= head
        BY <3>1 DEF FirstRound
      <4> QED BY <1>4, <4>2, <4>3, TypedIsNotBlank
    <3>2. CASE \A s \in Index : slots[s] # Blank
      BY <1>4, <3>2, TypedIsNotBlank
    <3> QED BY <3>1, <3>2 DEF BlankInv
  <2> QED BY <1>5, <1>6, <2>1, <2>2 DEF FifoInv, BlankInv
<1>8. CASE Succ(head) # tail
  <2>1. tail' = tail /\ overflowed' = overflowed
    BY <1>8 DEF keyboard_buffer_write
  <2>2. /\ Used' = Used + 1
        /\ \A j \in Index : At(j)' = At(j)
        /\ head' # tail'
    BY <1>1, <1>2, <1>8, <2>1, RingGrows
  <2>3. /\ Used \in Index
        /\ \A j \in Index : At(j) \in Index
        /\ At(Used) = head
        /\ \A j \in 0 .. Used - 1 : At(j) # head
    BY <1>2, RingIndexes
  <2>4. ASSUME ~ overflowed' PROVE ReaderKeepsUp'
    BY <1>1, <2>1, <2>2, <2>4 DEF FifoInv, ReaderKeepsUp
  <2>5. ASSUME ~ overflowed' PROVE SlotsFollowWritten'
    <3>1. SlotsFollowWritten
      BY <2>1, <2>5 DEF FifoInv
    <3>2. /\ Len(written') = Len(written) + 1
          /\ written'[Len(written) + 1] = code
          /\ \A k \in 1 .. Len(written) : written'[k] = written[k]
          /\ Len(written) \in Nat /\ Len(taken) \in Nat
      BY <1>1 DEF TypeOK
    <3>3. ASSUME NEW j \in 0 .. Used' - 1
          PROVE  slots'[At(j)'] = written'[Len(written') - Used' + 1 + j]
      <4>1. j \in Index /\ j \in 0 .. Used
        BY <2>2, <2>3, <3>3, SizeAssumption DEF Index
      <4>2. At(j)' = At(j) /\ At(j) \in Index
        BY <2>2, <2>3, <4>1
      <4>3. CASE j = Used
        BY <1>4, <2>2, <2>3, <3>1, <3>2, <4>2, <4>3 DEF SlotsFollowWritten, Index
      <4>4. CASE j # Used
        <5>1. j \in 0 .. Used - 1
          BY <4>1, <4>4, <2>3 DEF Index
        <5>2. slots'[At(j)] = written[Len(written) - Used + 1 + j]
          BY <1>4, <2>3, <3>1, <4>2, <5>1 DEF SlotsFollowWritten
        <5>3. /\ Len(written) - Used + 1 + j \in 1 .. Len(written)
              /\ Len(written') - Used' + 1 + j = Len(written) - Used + 1 + j
          BY <2>2, <2>3, <3>1, <3>2, <5>1 DEF SlotsFollowWritten, Index
        <5> QED BY <3>2, <4>2, <5>2, <5>3
      <4> QED BY <4>3, <4>4
    <3>4. Used' <= Len(written')
      BY <2>2, <2>3, <3>1, <3>2 DEF SlotsFollowWritten, Index
    <3>5. Len(taken') = Len(written') - Used' + Behind'
      <4>1. Behind' = Behind /\ Behind \in {0, 1}
        BY <1>1 DEF Behind
      <4> QED BY <1>1, <2>2, <2>3, <3>1, <3>2, <4>1 DEF SlotsFollowWritten, Index
    <3>6. ASSUME NEW k \in 1 .. Len(taken') PROVE taken'[k] = written'[k]
      <4>1. Len(taken) <= Len(written)
        <5>1. Behind = 1 => Used # 0
          BY <1>2, <2>1, <2>5, RingIndexes DEF Behind, FifoInv, ReaderKeepsUp
        <5>2. Behind \in {0, 1}
          BY DEF Behind
        <5> QED BY <2>3, <3>1, <3>2, <5>1, <5>2 DEF SlotsFollowWritten, Index
      <4> QED BY <1>1, <3>1, <3>2, <3>6, <4>1 DEF SlotsFollowWritten
    <3> QED BY <3>3, <3>4, <3>5, <3>6 DEF SlotsFollowWritten
  <2>6. (FirstRound \/ \A s \in Index : slots[s] # Blank)'
    <3>1. CASE FirstRound /\ head = KEYBOARD_BUFFER_SIZE - 1
      <4>1. \A s \in Index : s # head => slots[s] # Blank
        BY <3>1, SizeAssumption DEF FirstRound, Index
      <4> QED BY <1>4, <4>1, TypedIsNotBlank DEF Index
    <3>2. CASE FirstRound /\ head # KEYBOARD_BUFFER_SIZE - 1
      <4>1. head' = head + 1
        BY <1>1, <1>3, <3>2
      <4>2. ASSUME NEW s \in Index PROVE slots'[s] = Blank <=> s >= head'
        <5>1. CASE s = head
          BY <1>2, <1>4, <4>1, <5>1, TypedIsNotBlank DEF Index
        <5>2. CASE s # head
          BY <1>2, <1>4, <3>2, <4>1, <5>2 DEF Index, FirstRound
        <5> QED BY <5>1, <5>2
      <4> QED BY <1>1, <1>2, <2>1, <3>2, <4>1, <4>2 DEF FirstRound, TypeOK, Index
    <3>3. CASE \A s \in Index : slots[s] # Blank
      <4>1. \A s \in Index : slots'[s] # Blank
        BY <1>4, <3>3, TypedIsNotBlank
      <4> QED BY <4>1 DEF Index
    <3> QED BY <3>1, <3>2, <3>3 DEF BlankInv
  <2> QED BY <1>5, <1>6, <2>4, <2>5, <2>6 DEF FifoInv, BlankInv
<1> QED BY <1>7, <1>8

(* Nothing the ring and the reader know of changes.                        *)
LEMMA QuietStep ==
    ASSUME IInv, UNCHANGED <<ring, reader, written, taken, overflowed>>
    PROVE  IInv'
<1>1. /\ head' = head /\ tail' = tail /\ slots' = slots
      /\ pc' = pc /\ reg' = reg
      /\ written' = written /\ taken' = taken /\ overflowed' = overflowed
  BY DEF ring, reader
<1>2. TypeOK'
  BY <1>1 DEF IInv, TypeOK
<1>3. FifoInv'
  BY <1>1 DEF IInv, FifoInv, ReaderKeepsUp, SlotsFollowWritten, Used, At, Behind
<1>4. BlankInv'
  BY <1>1 DEF IInv, BlankInv, OnlyTypedCodes, FirstRound
<1> QED BY <1>2, <1>3, <1>4 DEF IInv

(* A load of head or of tail, or the comparison: the reader learns where   *)
(* an index is and the ring stays as it is.                                *)
LEMMA LoadStep ==
    ASSUME IInv, LoadHead \/ CompareTail \/ LoadTail \/ ReloadTail
    PROVE  IInv'
<1> USE DEF IInv
<1>1. /\ head' = head /\ tail' = tail /\ slots' = slots
      /\ written' = written /\ taken' = taken /\ overflowed' = overflowed
  BY DEF LoadHead, CompareTail, LoadTail, ReloadTail, Goto, ring
<1>2. /\ Used' = Used
      /\ \A j \in Index : At(j)' = At(j)
  BY <1>1 DEF Used, At
<1>3. Behind' = Behind
  BY DEF LoadHead, CompareTail, LoadTail, ReloadTail, Goto, Behind
<1>4. SlotsFollowWritten => SlotsFollowWritten'
  BY <1>1, <1>3 DEF SlotsFollowWritten, Used, At
<1>5. OnlyTypedCodes'
  BY <1>1 DEF BlankInv, OnlyTypedCodes
<1>6. FirstRound => tail <= head /\ head >= tail
  BY DEF FirstRound, TypeOK, Index
<1>7. TypeOK'
  BY <1>1 DEF TypeOK, LoadHead, CompareTail, LoadTail, ReloadTail, Goto
<1>8. (~ overflowed /\ ReaderKeepsUp) => ReaderKeepsUp'
  BY <1>1 DEF ReaderKeepsUp, LoadHead, CompareTail, LoadTail, ReloadTail, Goto
<1>9. FirstRound => FirstRound'
  BY <1>1, SMT DEF FirstRound, TypeOK, Index, LoadHead, CompareTail, LoadTail, ReloadTail, Goto
<1> QED BY <1>1, <1>4, <1>5, <1>7, <1>8, <1>9 DEF FifoInv, BlankInv

(* The oldest code is copied out of its slot.                              *)
LEMMA LoadSlotStep ==
    ASSUME IInv, LoadSlot
    PROVE  IInv'
<1> USE DEF IInv
<1>1. /\ head' = head /\ tail' = tail /\ slots' = slots
      /\ written' = written /\ overflowed' = overflowed
      /\ pc = "index" /\ pc' = "code"
      /\ taken' = Append(taken, slots[reg])
  BY DEF LoadSlot, Goto, ring
<1>2. /\ head \in Index /\ tail \in Index /\ reg \in Index
      /\ slots[reg] \in Codes \cup {Blank}
      /\ taken \in Seq(Codes \cup {Blank}) /\ written \in Seq(Codes)
  BY <1>1 DEF TypeOK
<1>3. /\ Len(taken') = Len(taken) + 1
      /\ taken'[Len(taken) + 1] = slots[reg]
      /\ \A k \in 1 .. Len(taken) : taken'[k] = taken[k]
      /\ DOMAIN taken' = 1 .. Len(taken) + 1 /\ DOMAIN taken = 1 .. Len(taken)
      /\ Len(taken) \in Nat /\ Len(written) \in Nat
  BY <1>1, <1>2
<1>4. TypeOK'
  BY <1>1, <1>2 DEF TypeOK
<1>5. ASSUME ~ overflowed' PROVE ReaderKeepsUp' /\ SlotsFollowWritten'
  <2>1. ReaderKeepsUp /\ SlotsFollowWritten
    BY <1>1, <1>5 DEF FifoInv
  <2>2. ReaderKeepsUp'
    BY <1>1, <2>1 DEF ReaderKeepsUp
  <2>3. Used \in Index /\ Used # 0 /\ At(0) = tail
    BY <1>1, <1>2, <2>1, RingIndexes DEF ReaderKeepsUp
  <2>4. Used' = Used /\ \A j \in Index : At(j)' = At(j)
    BY <1>1 DEF Used, At
  <2>5. Behind = 0 /\ Behind' = 1
    BY <1>1 DEF Behind
  <2>6. slots[reg] = written[Len(taken) + 1]
    BY <1>1, <1>3, <2>1, <2>3, <2>5 DEF ReaderKeepsUp, SlotsFollowWritten, Index
  <2>7. \A k \in 1 .. Len(taken') : taken'[k] = written'[k]
    BY <1>1, <1>3, <2>1, <2>6 DEF SlotsFollowWritten
  <2>8. ASSUME NEW j \in 0 .. Used' - 1
        PROVE  slots'[At(j)'] = written'[Len(written') - Used' + 1 + j]
    <3>1. j \in Index /\ j \in 0 .. Used - 1
      BY <2>3, <2>4, <2>8, SizeAssumption DEF Index
    <3> QED BY <1>1, <2>1, <2>4, <3>1 DEF SlotsFollowWritten
  <2>9. Used' <= Len(written') /\ Len(taken') = Len(written') - Used' + Behind'
    BY <1>1, <1>3, <2>1, <2>3, <2>4, <2>5 DEF SlotsFollowWritten, Index
  <2> QED BY <2>2, <2>4, <2>7, <2>8, <2>9 DEF SlotsFollowWritten
<1>6. slots[reg] # Blank
  <2>1. CASE FirstRound
    <3>1. ~ (reg >= head)
      BY <1>1, <1>2, <2>1 DEF FirstRound, Index
    <3> QED BY <1>2, <2>1, <3>1 DEF FirstRound
  <2>2. CASE \A s \in Index : slots[s] # Blank
    BY <1>2, <2>2
  <2> QED BY <2>1, <2>2 DEF BlankInv
<1>7. OnlyTypedCodes'
  BY <1>3, <1>6 DEF BlankInv, OnlyTypedCodes
<1>8. FirstRound => FirstRound'
  BY <1>1 DEF FirstRound
<1>9. BlankInv'
  BY <1>1, <1>7, <1>8 DEF BlankInv
<1> QED BY <1>4, <1>5, <1>9 DEF FifoInv

(* The slot is given back: tail passes the code that was copied.           *)
LEMMA StoreTailStep ==
    ASSUME IInv, StoreTail
    PROVE  IInv'
<1> USE DEF IInv
<1>1. /\ head' = head /\ tail' = Succ(reg) /\ slots' = slots
      /\ written' = written /\ taken' = taken /\ overflowed' = overflowed
      /\ pc = "advance" /\ pc' = "poll"
  BY DEF StoreTail, Goto
<1>2. /\ head \in Index /\ tail \in Index /\ reg \in Index
      /\ Len(taken) \in Nat /\ Len(written) \in Nat
  BY <1>1 DEF TypeOK
<1>3. /\ Succ(reg) \in Index
      /\ Succ(reg) = IF reg = KEYBOARD_BUFFER_SIZE - 1 THEN 0 ELSE reg + 1
  BY <1>2, SuccWraps
<1>4. TypeOK'
  BY <1>1, <1>3 DEF TypeOK
<1>5. ASSUME ~ overflowed' PROVE ReaderKeepsUp' /\ SlotsFollowWritten'
  <2>1. ReaderKeepsUp /\ SlotsFollowWritten /\ reg = tail /\ head # tail
    BY <1>1, <1>5 DEF FifoInv, ReaderKeepsUp
  <2>2. ReaderKeepsUp'
    BY <1>1 DEF ReaderKeepsUp
  <2>3. Used' = Used - 1 /\ Used' \in Nat
    BY <1>1, <1>2, <1>3, <2>1, SizeAssumption DEF Used, Index
  <2>4. Used \in Index
    BY <1>2, RingIndexes
  <2>5. \A j \in 0 .. Used' - 1 : At(j)' = At(j + 1)
    BY <1>1, <1>2, <1>3, <2>1, <2>3, <2>4, SizeAssumption DEF At, Index
  <2>6. Behind = 1 /\ Behind' = 0
    BY <1>1 DEF Behind
  <2>7. ASSUME NEW j \in 0 .. Used' - 1
        PROVE  slots'[At(j)'] = written'[Len(written') - Used' + 1 + j]
    <3>1. j + 1 \in 0 .. Used - 1 /\ At(j)' = At(j + 1)
      BY <2>3, <2>4, <2>5, <2>7 DEF Index
    <3>2. slots[At(j + 1)] = written[Len(written) - Used + 1 + (j + 1)]
      BY <2>1, <3>1 DEF SlotsFollowWritten
    <3>3. Len(written) - Used + 1 + (j + 1) = Len(written') - Used' + 1 + j
      BY <1>1, <1>2, <2>3, <2>4, <2>7 DEF Index
    <3> QED BY <1>1, <3>1, <3>2, <3>3
  <2>8. Used' <= Len(written') /\ Len(taken') = Len(written') - Used' + Behind'
    BY <1>1, <1>2, <2>1, <2>3, <2>4, <2>6 DEF SlotsFollowWritten, Index
  <2>9. \A k \in 1 .. Len(taken') : taken'[k] = written'[k]
    BY <1>1, <2>1 DEF SlotsFollowWritten
  <2> QED BY <2>2, <2>7, <2>8, <2>9 DEF SlotsFollowWritten
<1>6. BlankInv'
  <2>1. OnlyTypedCodes'
    BY <1>1 DEF BlankInv, OnlyTypedCodes
  <2>2. FirstRound => FirstRound'
    <3>1. FirstRound => Succ(reg) <= head
      BY <1>1, <1>2, <1>3 DEF FirstRound, Index
    <3> QED BY <1>1, <1>2, <1>3, <3>1 DEF FirstRound
  <2> QED BY <1>1, <2>1, <2>2 DEF BlankInv
<1> QED BY <1>4, <1>5, <1>6 DEF FifoInv

-----------------------------------------------------------------------------
(* The ring, the reader and what they may assume of each other, in every   *)
(* reachable state, wherever the interrupts fall.                          *)
THEOREM Invariance == Spec => []IInv
<1>1. Init => IInv
  BY InitIInv
<1>2. IInv /\ [Next]_vars => IInv'
  <2> SUFFICES ASSUME IInv, [Next]_vars PROVE IInv'
    OBVIOUS
  <2>1. ASSUME NEW k \in Keys, Press(k) \/ Release(k) PROVE IInv'
    BY <2>1, QuietStep DEF Press, Release
  <2>2. CASE Interrupt
    <3>1. /\ UNCHANGED <<pc, reg, taken>>
          /\ WriteNothing \/ \E code \in Codes : keyboard_buffer_write(code)
      BY <2>2, InterruptWrites
    <3>2. CASE WriteNothing
      BY <3>1, <3>2, QuietStep DEF WriteNothing, reader
    <3>3. ASSUME NEW code \in Codes, keyboard_buffer_write(code) PROVE IInv'
      BY <3>1, <3>3, WriteStep
    <3> QED BY <3>1, <3>2, <3>3
  <2>3. CASE Read
    BY <2>3, LoadStep, LoadSlotStep, StoreTailStep DEF Read
  <2>4. CASE UNCHANGED vars
    BY <2>4, QuietStep DEF vars
  <2> QED BY <2>1, <2>2, <2>3, <2>4 DEF Next
<1> QED BY <1>1, <1>2, PTL DEF Spec

(* The reader never gets a slot that was never written, even when an       *)
(* overflow moves tail between two of its accesses: by then the ring has   *)
(* gone round.                                                             *)
THEOREM NothingUnwrittenIsRead == Spec => []OnlyTypedCodes
<1>1. IInv => OnlyTypedCodes
  BY DEF IInv, BlankInv
<1> QED BY <1>1, Invariance, PTL

(* Waiting without remainders.                                             *)
LEMMA WaitingIs ==
    ASSUME TypeOK
    PROVE  /\ Waiting \in Seq(Codes \cup {Blank})
           /\ Len(Waiting) = Used
           /\ \A i \in 1 .. Used : Waiting[i] = slots[At(i - 1)]
<1> DEFINE N == KEYBOARD_BUFFER_SIZE
           n == (head + N - tail) % N
<1>1. head \in Index /\ tail \in Index /\ slots \in [Index -> Codes \cup {Blank}]
  BY DEF TypeOK
<1>2. n = Used
  <2> DEFINE m == head + N - tail
  <2>1. m \in 0 .. 2 * N - 1
    BY <1>1, SizeAssumption DEF Index
  <2> HIDE DEF m
  <2>2. m % N = IF m < N THEN m ELSE m - N
    BY <2>1, SmallRemainder
  <2> USE DEF m
  <2> QED BY <1>1, <2>2, SizeAssumption DEF Used, Index
<1>3. Used \in Index /\ \A j \in Index : At(j) \in Index
  BY <1>1, RingIndexes
<1>4. ASSUME NEW i \in 1 .. Used
      PROVE  (tail + i - 1) % N = At(i - 1) /\ At(i - 1) \in Index
  <2> DEFINE m == tail + i - 1
  <2>1. m \in 0 .. 2 * N - 1 /\ i - 1 \in Index
    BY <1>1, <1>3, <1>4, SizeAssumption DEF Index
  <2> HIDE DEF m
  <2>2. m % N = IF m < N THEN m ELSE m - N
    BY <2>1, SmallRemainder
  <2> USE DEF m
  <2> QED BY <1>1, <1>3, <2>1, <2>2, SizeAssumption DEF At, Index
<1>5. Waiting = [i \in 1 .. Used |-> slots[(tail + i - 1) % N]]
  BY <1>2 DEF Waiting
<1>6. Used \in Nat
  BY <1>3 DEF Index
<1>7. \A i \in 1 .. Used : slots[(tail + i - 1) % N] \in Codes \cup {Blank}
  BY <1>1, <1>4
<1> HIDE DEF N, n
<1>8. Waiting \in Seq(Codes \cup {Blank}) /\ Len(Waiting) = Used
  BY <1>5, <1>6, <1>7
<1> QED BY <1>4, <1>5, <1>8

(* Until the ring overflows the reader gets exactly the codes that were    *)
(* typed, once each and in order, wherever interrupts fall between its     *)
(* loads and stores.                                                       *)
THEOREM FirstInFirstOut == Spec => []FifoUntilOverflow
<1>1. IInv => FifoUntilOverflow
  <2> SUFFICES ASSUME IInv, ~ overflowed
               PROVE  written = taken \o SubSeq(Waiting, 1 + Behind, Len(Waiting))
    BY DEF FifoUntilOverflow
  <2> DEFINE S == Codes \cup {Blank}
             rest == SubSeq(Waiting, 1 + Behind, Len(Waiting))
  <2>1. /\ Waiting \in Seq(S) /\ Len(Waiting) = Used
        /\ \A i \in 1 .. Used : Waiting[i] = slots[At(i - 1)]
    BY WaitingIs DEF IInv
  <2>2. ReaderKeepsUp /\ SlotsFollowWritten
    BY DEF IInv, FifoInv
  <2>3. written \in Seq(S) /\ taken \in Seq(S) /\ Len(written) \in Nat /\ Len(taken) \in Nat
    BY DEF IInv, TypeOK
  <2>4. /\ Used \in Nat /\ Behind \in {0, 1} /\ Behind <= Used
    <3>1. head \in Index /\ tail \in Index
      BY DEF IInv, TypeOK
    <3>2. Used \in Nat /\ (Used = 0 <=> head = tail)
      BY <3>1, RingIndexes DEF Index
    <3> QED BY <2>2, <3>2 DEF ReaderKeepsUp, Behind
  <2>5. /\ rest \in Seq(S) /\ Len(rest) = Used - Behind
        /\ \A i \in 1 .. Used - Behind : rest[i] = Waiting[i + Behind]
    BY <2>1, <2>4
  <2>6. \A i \in 1 .. Used : Waiting[i] = written[Len(written) - Used + i]
    <3> SUFFICES ASSUME NEW i \in 1 .. Used
                 PROVE  Waiting[i] = written[Len(written) - Used + i]
      OBVIOUS
    <3>1. i - 1 \in 0 .. Used - 1 /\ Len(written) - Used + 1 + (i - 1) = Len(written) - Used + i
      BY <2>3, <2>4
    <3> QED BY <2>1, <2>2, <3>1 DEF SlotsFollowWritten
  <2>7. Len(taken) = Len(written) - Used + Behind
        /\ \A k \in 1 .. Len(taken) : taken[k] = written[k]
    BY <2>2 DEF SlotsFollowWritten
  <2> HIDE DEF rest, S
  <2>8. /\ taken \o rest \in Seq(S)
        /\ Len(taken \o rest) = Len(written)
    BY <2>3, <2>4, <2>5, <2>7
  <2>9. ASSUME NEW k \in 1 .. Len(written) PROVE (taken \o rest)[k] = written[k]
    <3>1. CASE k <= Len(taken)
      BY <2>3, <2>5, <2>7, <2>9, <3>1
    <3>2. CASE ~ (k <= Len(taken))
      <4>1. k - Len(taken) \in 1 .. Used - Behind
        BY <2>3, <2>4, <2>7, <2>9, <3>2
      <4>2. (taken \o rest)[k] = rest[k - Len(taken)]
        BY <2>3, <2>5, <2>9, <3>2, <4>1
      <4>3. /\ k - Len(taken) + Behind \in 1 .. Used
            /\ Len(written) - Used + (k - Len(taken) + Behind) = k
        BY <2>3, <2>4, <2>7, <4>1
      <4> QED BY <2>5, <2>6, <4>1, <4>2, <4>3
    <3> QED BY <3>1, <3>2
  <2>10. written = taken \o rest
    BY <2>3, <2>8, <2>9, SeqEqual
  <2> QED BY <2>10 DEF rest
<1> QED BY <1>1, Invariance, PTL

-----------------------------------------------------------------------------
LEMMA InitDecoder == Init => DecoderInv
  BY DEF Init, DecoderInv, WireOK, DownIsHeld

(* The two bytes of a key behind the prefix.                               *)
LEMMA TwoBytes ==
    ASSUME NEW x, NEW y
    PROVE  <<x>> \o <<y>> = <<x, y>>
<1> DEFINE S == {x, y}
           s == <<x>> \o <<y>>
           t == <<x, y>>
<1>1. <<x>> \in Seq(S) /\ <<y>> \in Seq(S) /\ t \in Seq(S)
  OBVIOUS
<1>2. Len(<<x>>) = 1 /\ <<x>>[1] = x /\ Len(<<y>>) = 1 /\ <<y>>[1] = y
  OBVIOUS
<1>3. Len(t) = 2 /\ t[1] = x /\ t[2] = y
  OBVIOUS
<1> HIDE DEF S, t
<1>4. s \in Seq(S) /\ Len(s) = 2 /\ s[1] = x /\ s[2] = y
  BY <1>1, <1>2, ConcatProperties
<1> HIDE DEF s
<1>5. \A i \in 1 .. 2 : s[i] = t[i]
  BY <1>3, <1>4
<1>6. s = t
  BY <1>1, <1>3, <1>4, <1>5, SeqEqual
<1> QED BY <1>6 DEF s, t

(* A key is moved only when everything it sent before has been decoded.    *)
LEMMA KeyStep ==
    ASSUME DecoderInv, NEW k \in Keys, Press(k) \/ Release(k)
    PROVE  DecoderInv'
<1>1. wire = <<>> /\ ~ extended /\ \A b : ~ Sent(b, TRUE)
  <2>1. wire = <<>>
    BY DEF Press, Release
  <2>2. ASSUME NEW b PROVE <<b>> # <<>> /\ <<E0, b>> # <<>>
    OBVIOUS
  <2>3. ~ extended
    BY <2>1, <2>2 DEF DecoderInv, WireOK
  <2> QED BY <2>1, <2>3 DEF Sent
<1>2. /\ extended' = extended /\ shift_down' = shift_down /\ down' = down
  BY DEF Press, Release, decoder
<1>3. PICK brk \in BOOLEAN :
         /\ wire' = Bytes(k, brk)
         /\ held' = IF brk THEN held \ {k} ELSE held \cup {k}
  BY DEF Press, Release
<1> DEFINE last == [base |-> k.base, brk |-> brk]
<1>4. wire' = <<last>> \/ wire' = <<E0, last>>
  <2>1. CASE k.ext
    <3>1. <<E0>> \o <<last>> = <<E0, last>>
      BY TwoBytes
    <3>2. wire' = <<E0>> \o <<last>>
      BY <1>3, <2>1 DEF Bytes
    <3> QED BY <3>1, <3>2
  <2>2. CASE ~ k.ext
    <3>1. <<>> \o <<last>> = <<last>>
      OBVIOUS
    <3> QED BY <1>3, <2>2, <3>1 DEF Bytes
  <2> QED BY <2>1, <2>2
<1>5. WireOK'
  <2>1. held' \subseteq Keys /\ (~ brk => k \in held')
    BY <1>3 DEF DecoderInv, WireOK
  <2> QED BY <1>1, <1>2, <1>4, <2>1 DEF WireOK
<1>6. wire' # <<>> /\ wire'[Len(wire')] = last
  BY <1>4
<1>7. ASSUME NEW b, b \in HeldBases PROVE b \in HeldBases' \/ Sent(b, TRUE)'
  <2>1. CASE b = k.base /\ brk
    BY <1>6, <2>1 DEF Sent
  <2>2. CASE ~ (b = k.base /\ brk)
    BY <1>3, <1>7, <2>2 DEF HeldBases
  <2> QED BY <2>1, <2>2
<1>8. DownIsHeld'
  BY <1>1, <1>2, <1>7 DEF DecoderInv, DownIsHeld
<1> QED BY <1>5, <1>8 DEF DecoderInv

(* The prefix is decoded: it is remembered until the byte behind it.       *)
LEMMA PrefixStep ==
    ASSUME DecoderInv, Interrupt, wire # <<>>, Head(wire) = E0
    PROVE  DecoderInv'
<1>1. /\ wire' = Tail(wire) /\ held' = held
      /\ extended' = TRUE /\ shift_down' = shift_down /\ down' = down
  BY DEF Interrupt
<1>2. PICK k \in Keys, brk \in BOOLEAN :
         /\ ~ brk => k \in held
         /\ \/ wire = <<[base |-> k.base, brk |-> brk]>>
            \/ wire = <<E0, [base |-> k.base, brk |-> brk]>> /\ ~ extended
  BY DEF DecoderInv, WireOK
<1> DEFINE last == [base |-> k.base, brk |-> brk]
<1>3. last # E0
  BY KeysAssumption DEF E0
<1>4. wire = <<E0, last>>
  BY <1>2, <1>3
<1>5. wire' = <<last>>
  BY <1>1, <1>4
<1>6. WireOK'
  BY <1>1, <1>2, <1>5 DEF DecoderInv, WireOK
<1>7. /\ HeldBases' = HeldBases
      /\ \A b : Sent(b, TRUE) => Sent(b, TRUE)'
  BY <1>1, <1>4, <1>5 DEF HeldBases, Sent
<1>8. DownIsHeld'
  BY <1>1, <1>7 DEF DecoderInv, DownIsHeld
<1> QED BY <1>6, <1>8 DEF DecoderInv

(* The byte of a key is decoded: nothing of that key is left on the wire,  *)
(* and what its release does not clear belongs to a key still held.        *)
LEMMA ByteStep ==
    ASSUME DecoderInv, Interrupt, wire # <<>>, Head(wire) # E0
    PROVE  DecoderInv'
<1>1. wire' = Tail(wire) /\ held' = held /\ HeldBases' = HeldBases
  BY DEF Interrupt, HeldBases
<1>2. PICK k \in Keys, brk \in BOOLEAN :
         /\ ~ brk => k \in held
         /\ \/ wire = <<[base |-> k.base, brk |-> brk]>>
            \/ wire = <<E0, [base |-> k.base, brk |-> brk]>> /\ ~ extended
  BY DEF DecoderInv, WireOK
<1> DEFINE last == [base |-> k.base, brk |-> brk]
<1>3. wire = <<last>>
  BY <1>2
<1>4. wire' = <<>> /\ Head(wire) = last
  BY <1>1, <1>3
<1>5. \A b : Sent(b, TRUE) => b = k.base /\ brk
  BY <1>3 DEF Sent
<1>6. /\ extended \in BOOLEAN /\ shift_down \in BOOLEAN /\ down \subseteq Arrows
      /\ held \subseteq Keys
      /\ \A b \in down : b \in HeldBases \/ Sent(b, TRUE)
      /\ shift_down => \E b \in Shifts : b \in HeldBases \/ Sent(b, TRUE)
  BY DEF DecoderInv, WireOK, DownIsHeld
<1>7. ~ brk => k.base \in HeldBases
  BY <1>2 DEF HeldBases
<1>8. SUFFICES /\ extended' = FALSE /\ shift_down' \in BOOLEAN
               /\ down' \subseteq Arrows /\ down' \subseteq HeldBases
               /\ shift_down' => \E b \in Shifts : b \in HeldBases
  <2>1. WireOK'
    BY <1>1, <1>4, <1>6, <1>8 DEF WireOK
  <2>2. DownIsHeld'
    BY <1>1, <1>8 DEF DownIsHeld
  <2> QED BY <2>1, <2>2 DEF DecoderInv
<1>9. CASE brk
  <2>1. BreakCode(k.base)
    BY <1>4, <1>9 DEF Interrupt
  <2>2. extended' = FALSE /\ shift_down' = (shift_down /\ k.base \notin Shifts)
    BY <2>1 DEF BreakCode
  <2>3. down' = IF k.base \in Arrows THEN down \ {k.base} ELSE down
    BY <2>1 DEF BreakCode
  <2>4. down' \subseteq Arrows /\ down' \subseteq HeldBases
    <3>1. ASSUME NEW b \in down' PROVE b \in Arrows /\ b \in HeldBases
      <4>1. b \in down /\ b \in Arrows /\ b # k.base
        BY <1>6, <2>3, <3>1
      <4> QED BY <1>5, <1>6, <4>1
    <3> QED BY <3>1
  <2>5. shift_down' => \E b \in Shifts : b \in HeldBases
    BY <1>5, <1>6, <2>2
  <2> QED BY <1>6, <2>2, <2>4, <2>5
<1>10. CASE ~ brk /\ extended
  <2>1. ExtendedMakeCode(k.base)
    BY <1>4, <1>10 DEF Interrupt
  <2>2. /\ extended' = FALSE /\ shift_down' = shift_down
        /\ down' = IF k.base \in Arrows THEN down \cup {k.base} ELSE down
    BY <2>1 DEF ExtendedMakeCode
  <2> QED BY <1>5, <1>6, <1>7, <1>10, <2>2
<1>11. CASE ~ brk /\ ~ extended
  <2>1. MakeCode(k.base)
    BY <1>4, <1>11 DEF Interrupt
  <2>2. /\ extended' = extended /\ down' = down
        /\ shift_down' = (shift_down \/ k.base \in Shifts)
    BY <2>1 DEF MakeCode
  <2> QED BY <1>5, <1>6, <1>7, <1>11, <2>2
<1> QED BY <1>9, <1>10, <1>11

(* When no key is held and every byte was decoded, no arrow, ctrl, alt or  *)
(* shift flag is set and no prefix is pending, whatever was typed, in      *)
(* whatever order, and whichever keys share their code behind the prefix.  *)
THEOREM NothingEverSticks == Spec => []NothingSticks
<1>1. Init => DecoderInv
  BY InitDecoder
<1>2. DecoderInv /\ [Next]_vars => DecoderInv'
  <2> SUFFICES ASSUME DecoderInv, [Next]_vars PROVE DecoderInv'
    OBVIOUS
  <2>1. ASSUME NEW k \in Keys, Press(k) \/ Release(k) PROVE DecoderInv'
    BY <2>1, KeyStep
  <2>2. CASE Interrupt
    BY <2>2, PrefixStep, ByteStep DEF Interrupt
  <2>3. CASE Read \/ UNCHANGED vars
    <3>1. /\ held' = held /\ wire' = wire
          /\ extended' = extended /\ shift_down' = shift_down /\ down' = down
      BY <2>3 DEF Read, LoadHead, CompareTail, LoadTail, LoadSlot, ReloadTail,
                  StoreTail, Goto, vars, decoder
    <3> QED BY <3>1 DEF DecoderInv, WireOK, DownIsHeld, Sent, HeldBases
  <2> QED BY <2>1, <2>2, <2>3 DEF Next
<1>3. DecoderInv => NothingSticks
  <2> SUFFICES ASSUME DecoderInv, held = {}, wire = <<>>
               PROVE  ~ shift_down /\ down = {} /\ ~ extended
    BY DEF NothingSticks
  <2>1. HeldBases = {} /\ \A b : ~ Sent(b, TRUE)
    BY DEF HeldBases, Sent
  <2> QED BY <2>1 DEF DecoderInv, WireOK, DownIsHeld
<1> QED BY <1>1, <1>2, <1>3, PTL DEF Spec

-----------------------------------------------------------------------------
(* A set of natural numbers has a least element: what replaces induction.  *)
LEMMA LeastElement ==
    ASSUME NEW T, T \subseteq Nat, T # {}
    PROVE  \E x \in T : \A y \in T : x <= y
<1> DEFINE R == OpToRel(<, Nat)
<1>1. IsWellFoundedOn(R, Nat)
  BY NatLessThanWellFounded
<1>2. \A x, y \in Nat : x < y => <<x, y>> \in R
  BY DEF OpToRel
<1> HIDE DEF R
<1>3. PICK x \in T : \A y \in T : ~ (<<y, x>> \in R)
  BY <1>1, WFMin
<1>4. ASSUME NEW y \in T PROVE x <= y
  <2>1. x \in Nat /\ y \in Nat
    OBVIOUS
  <2>2. ~ (y < x)
    BY <1>2, <1>3, <2>1
  <2> QED BY <2>1, <2>2
<1> QED BY <1>4

(* g starts at a and takes the steps F.                                    *)
Follows(g, a, F) == g[0] = a /\ \A n \in Nat : g[n + 1] = F[n][g[n]]

(* Recursion.  The steps are a function, so that there is one for every    *)
(* definition by recursion below: the initial parts of the function that   *)
(* is looked for agree with each other, and every one can be continued.    *)
LEMMA Recursion ==
    ASSUME NEW S, NEW a \in S, NEW F \in [Nat -> [S -> S]]
    PROVE  \E g \in [Nat -> S] : Follows(g, a, F)
<1> DEFINE Part(n) == {h \in [0 .. n -> S] :
                          h[0] = a /\ \A k \in 0 .. n - 1 : h[k + 1] = F[k][h[k]]}
<1>1. \A n \in Nat : \A h \in [0 .. n -> S] :
         h \in Part(n) <=> h[0] = a /\ \A k \in 0 .. n - 1 : h[k + 1] = F[k][h[k]]
  OBVIOUS
<1>2. \A n \in Nat : Part(n) \subseteq [0 .. n -> S]
  OBVIOUS
<1> HIDE DEF Part
<1>3. \A n \in Nat : Part(n) # {}
  <2> DEFINE T == {n \in Nat : Part(n) = {}}
  <2>1. SUFFICES ASSUME T # {} PROVE FALSE
    OBVIOUS
  <2>2. PICK n \in T : \A m \in T : n <= m
    BY <2>1, LeastElement
  <2>3. CASE n = 0
    <3> DEFINE h == [k \in 0 .. 0 |-> a]
    <3>1. h \in [0 .. 0 -> S] /\ h[0] = a /\ 0 .. 0 - 1 = {}
      OBVIOUS
    <3> HIDE DEF h
    <3>2. h \in Part(0)
      BY <1>1, <3>1
    <3> QED BY <2>3, <3>2
  <2>4. CASE n # 0
    <3>1. n - 1 \in Nat /\ n - 1 \notin T
      BY <2>2, <2>4
    <3>2. PICK h : h \in Part(n - 1)
      BY <3>1
    <3>3. /\ h \in [0 .. n - 1 -> S] /\ h[0] = a
          /\ \A k \in 0 .. n - 2 : h[k + 1] = F[k][h[k]]
      BY <1>1, <1>2, <3>1, <3>2
    <3> DEFINE c == [k \in 0 .. n |-> IF k = n THEN F[n - 1][h[n - 1]] ELSE h[k]]
    <3>4. c \in [0 .. n -> S]
      <4>1. n - 1 \in 0 .. n - 1
        BY <3>1
      <4>2. F[n - 1][h[n - 1]] \in S
        BY <3>1, <3>3, <4>1
      <4>3. \A k \in 0 .. n : k # n => h[k] \in S
        BY <3>3
      <4> QED BY <4>2, <4>3
    <3>5. c[0] = a
      BY <2>4, <3>3
    <3>6. \A k \in 0 .. n - 1 : c[k + 1] = F[k][c[k]]
      <4>1. SUFFICES ASSUME NEW k \in 0 .. n - 1 PROVE c[k + 1] = F[k][c[k]]
        OBVIOUS
      <4>2. c[k] = h[k]
        OBVIOUS
      <4>3. CASE k = n - 1
        BY <4>2, <4>3
      <4>4. CASE k # n - 1
        <5>1. k \in 0 .. n - 2 /\ k + 1 # n /\ k + 1 \in 0 .. n
          BY <4>4
        <5> QED BY <3>3, <4>2, <5>1
      <4> QED BY <4>3, <4>4
    <3> HIDE DEF c
    <3>7. c \in Part(n)
      BY <1>1, <3>4, <3>5, <3>6
    <3> QED BY <2>2, <3>7
  <2> QED BY <2>3, <2>4
<1>4. \A n \in Nat : \A m \in n .. n + 1 : \A h \in Part(n), c \in Part(m) : c[n] = h[n]
  <2>1. SUFFICES ASSUME NEW n \in Nat, NEW m \in n .. n + 1, NEW h \in Part(n), NEW c \in Part(m)
                 PROVE  c[n] = h[n]
    OBVIOUS
  <2>2. /\ m \in Nat /\ h[0] = a /\ c[0] = a
        /\ \A k \in 0 .. n - 1 : h[k + 1] = F[k][h[k]]
        /\ \A k \in 0 .. m - 1 : c[k + 1] = F[k][c[k]]
    BY <1>1, <1>2
  <2> DEFINE T == {k \in 0 .. n : c[k] # h[k]}
  <2>3. SUFFICES ASSUME T # {} PROVE FALSE
    OBVIOUS
  <2>4. PICK k \in T : \A j \in T : k <= j
    <3>1. T \subseteq Nat
      OBVIOUS
    <3> HIDE DEF T
    <3> QED BY <2>3, <3>1, LeastElement
  <2>5. k # 0
    BY <2>2, <2>4
  <2>6. k - 1 \in 0 .. n - 1 /\ k - 1 \in 0 .. m - 1 /\ k - 1 \notin T /\ (k - 1) + 1 = k
    BY <2>4, <2>5
  <2>7. c[k - 1] = h[k - 1]
    BY <2>6
  <2> QED BY <2>2, <2>4, <2>6, <2>7
<1> DEFINE part == [n \in Nat |-> CHOOSE h : h \in Part(n)]
           g == [n \in Nat |-> part[n][n]]
<1>5. \A n \in Nat : part[n] \in Part(n)
  BY <1>3
<1> HIDE DEF part
<1>6. g \in [Nat -> S]
  BY <1>2, <1>5
<1>7. g[0] = a
  <2>1. part[0] \in Part(0) /\ part[0] \in [0 .. 0 -> S]
    BY <1>2, <1>5
  <2>2. part[0][0] = a
    BY <1>1, <2>1
  <2> QED BY <2>2
<1>8. ASSUME NEW n \in Nat PROVE g[n + 1] = F[n][g[n]]
  <2>1. part[n + 1] \in Part(n + 1) /\ n + 1 \in Nat /\ n + 1 \in n .. n + 1 /\ n \in 0 .. n
    BY <1>5
  <2>2. part[n + 1][n] = part[n][n]
    BY <1>4, <1>5, <2>1
  <2>3. part[n + 1][n + 1] = F[n][part[n + 1][n]]
    <3>1. n \in 0 .. (n + 1) - 1 /\ part[n + 1] \in [0 .. n + 1 -> S]
      BY <1>2, <2>1
    <3> QED BY <1>1, <2>1, <3>1
  <2> QED BY <2>1, <2>2, <2>3
<1> HIDE DEF g
<1> QED BY <1>6, <1>7, <1>8 DEF Follows

(* Induction over the numbers up to n, for a set.                          *)
LEMMA UpTo ==
    ASSUME NEW n \in Nat, NEW T, 0 \in T, \A k \in 0 .. n - 1 : k \in T => k + 1 \in T
    PROVE  \A k \in 0 .. n : k \in T
<1> DEFINE B == {k \in 0 .. n : k \notin T}
<1>1. SUFFICES ASSUME B # {} PROVE FALSE
  OBVIOUS
<1>2. PICK k \in B : \A j \in B : k <= j
  <2>1. B \subseteq Nat
    OBVIOUS
  <2> HIDE DEF B
  <2> QED BY <1>1, <2>1, LeastElement
<1>3. k # 0
  BY <1>2
<1>4. k - 1 \in 0 .. n - 1 /\ (k - 1) + 1 = k /\ k - 1 \notin B
  BY <1>2, <1>3
<1>5. k - 1 \in T
  BY <1>4
<1> QED BY <1>2, <1>4, <1>5

(* What a definition by recursion up to n defines.                         *)
Iterates(t, a, F, n) == \A k \in 0 .. n : t[k] = IF k = 0 THEN a ELSE F[k - 1][t[k - 1]]

(* The same for a recursive function on 0 .. n.                            *)
LEMMA RecursionUpTo ==
    ASSUME NEW S, NEW a \in S, NEW F \in [Nat -> [S -> S]], NEW n \in Nat
    PROVE  \E t \in [0 .. n -> S] : Iterates(t, a, F, n)
<1>1. PICK g \in [Nat -> S] : Follows(g, a, F)
  BY Recursion
<1> DEFINE t == [k \in 0 .. n |-> g[k]]
<1>2. t \in [0 .. n -> S]
  OBVIOUS
<1>3. ASSUME NEW k \in 0 .. n PROVE t[k] = IF k = 0 THEN a ELSE F[k - 1][t[k - 1]]
  <2>1. CASE k # 0
    <3>1. k - 1 \in Nat /\ (k - 1) + 1 = k /\ k - 1 \in 0 .. n
      BY <2>1
    <3>2. t[k] = g[k] /\ t[k - 1] = g[k - 1]
      BY <3>1
    <3> HIDE DEF t
    <3> QED BY <1>1, <2>1, <3>1, <3>2 DEF Follows
  <2> QED BY <1>1, <2>1 DEF Follows
<1> HIDE DEF t
<1> QED BY <1>2, <1>3 DEF Iterates

-----------------------------------------------------------------------------
(* Rows and columns.  The product is given a name, so that the provers see *)
(* linear arithmetic.                                                      *)
LEMMA Rows ==
    ASSUME NEW n \in Int, NEW m \in Int, NEW d \in Int
    PROVE  /\ n * d \in Int
           /\ (n + m) * d = n * d + m * d
           /\ (n - m) * d = n * d - m * d
  OBVIOUS

LEMMA RowsOrdered ==
    ASSUME NEW n \in Int, NEW m \in Int, NEW d \in Nat, n <= m
    PROVE  n * d <= m * d
<1>1. PICK k \in Nat : m = n + k
  <2>1. m - n \in Nat /\ m = n + (m - n)
    OBVIOUS
  <2> QED BY <2>1
<1>2. m * d = n * d + k * d
  BY <1>1
<1>3. k * d \in Nat /\ n * d \in Int
  OBVIOUS
<1> QED BY <1>2, <1>3

(* Division of what is not negative.                                       *)
LEMMA Division ==
    ASSUME NEW n \in Nat, NEW d \in Nat \ {0}
    PROVE  LET q == n \div d
           IN  /\ q \in Nat /\ q * d \in Nat
               /\ q * d <= n /\ n < q * d + d
<1> DEFINE q == n \div d
           r == n % d
<1>1. n = d * q + r
  OBVIOUS
<1>2. r \in 0 .. d - 1
  OBVIOUS
<1>3. q \in Int
  OBVIOUS
<1> HIDE DEF q, r
<1>4. q < 0 => d * q <= - d
  BY <1>3
<1>5. q \in Nat
  BY <1>1, <1>2, <1>3, <1>4
<1>6. d * q = q * d /\ q * d \in Nat
  BY <1>5
<1>7. q * d <= n /\ n < q * d + d
  BY <1>1, <1>2, <1>6
<1> QED BY <1>5, <1>6, <1>7 DEF q

-----------------------------------------------------------------------------
Characters == STRING \cup {Space, TabKey, Newline, Bs, Unknown}
Screens == [x : Int, y : Int, cells : [Cells -> Characters]]

LEMMA Sizes ==
    /\ VGA_TEXT_ROWS \in Nat \ {0} /\ VGA_TEXT_COLUMNS \in Nat \ {0}
    /\ VGA_TEXT_TAB_LENGTH \in Nat \ {0}
  BY ScreenAssumption

LEMMA ScreenFields ==
    ASSUME NEW s \in Screens
    PROVE  s.x \in Int /\ s.y \in Int /\ s.cells \in [Cells -> Characters] /\ Position(s) \in Int
<1>1. s.x \in Int /\ s.y \in Int /\ s.cells \in [Cells -> Characters]
  BY DEF Screens
<1>2. s.y * VGA_TEXT_COLUMNS \in Int
  BY <1>1, Sizes
<1> QED BY <1>1, <1>2 DEF Position

(* The steps of rectify.                                                   *)
WrappedRight(s) ==
    IF s.x < VGA_TEXT_COLUMNS THEN s ELSE AddRows(s, Quotient(s.x, VGA_TEXT_COLUMNS))

WrappedLeft(s) ==
    IF s.x >= 0 THEN s ELSE AddRows(s, Quotient(s.x, VGA_TEXT_COLUMNS) + 1)

Scrolled(s) ==
    IF s.y < 0 THEN scroll_down(s)
    ELSE IF s.y < VGA_TEXT_ROWS THEN s ELSE scroll(s, s.y - (VGA_TEXT_ROWS - 1))

LEMMA RectifySteps ==
    ASSUME NEW s
    PROVE  rectify(s) = Scrolled(WrappedLeft(WrappedRight(s)))
  BY DEF rectify, WrappedRight, WrappedLeft, Scrolled

(* Going down a row and back by its columns does not move the cursor.      *)
LEMMA AddingRows ==
    ASSUME NEW s \in Screens, NEW n \in Int
    PROVE  LET t == AddRows(s, n)
           IN  /\ t \in Screens /\ t.x = s.x - n * VGA_TEXT_COLUMNS /\ t.y = s.y + n
               /\ t.cells = s.cells /\ Position(t) = Position(s)
<1> DEFINE t == AddRows(s, n)
<1>1. n * VGA_TEXT_COLUMNS \in Int /\ VGA_TEXT_COLUMNS \in Int
  BY Sizes
<1>2. t \in Screens /\ t.x = s.x - n * VGA_TEXT_COLUMNS /\ t.y = s.y + n /\ t.cells = s.cells
  <2> DEFINE x == s.x - n * VGA_TEXT_COLUMNS
             y == s.y + n
  <2>1. x \in Int /\ y \in Int
    BY <1>1, ScreenFields
  <2>2. t = [s EXCEPT !.x = x, !.y = y]
    BY DEF AddRows
  <2> HIDE DEF t, x, y
  <2>3. t \in Screens /\ t.x = x /\ t.y = y /\ t.cells = s.cells
    BY <2>1, <2>2 DEF Screens
  <2> QED BY <2>3 DEF x, y
<1> HIDE DEF t
<1>3. t.y * VGA_TEXT_COLUMNS = s.y * VGA_TEXT_COLUMNS + n * VGA_TEXT_COLUMNS
  BY <1>1, <1>2, ScreenFields, Rows
<1>4. s.y * VGA_TEXT_COLUMNS \in Int /\ s.x \in Int
  BY <1>1, ScreenFields
<1> QED BY <1>1, <1>2, <1>3, <1>4 DEF Position, t

LEMMA WrappingRight ==
    ASSUME NEW s \in Screens, s.y >= 0
    PROVE  LET t == WrappedRight(s)
           IN  /\ t \in Screens /\ t.cells = s.cells /\ Position(t) = Position(s)
               /\ t.x < VGA_TEXT_COLUMNS /\ t.y >= 0
               /\ s.x < VGA_TEXT_COLUMNS => t = s
               /\ s.x = VGA_TEXT_COLUMNS => t.x = 0
<1> DEFINE t == WrappedRight(s)
<1>1. CASE s.x < VGA_TEXT_COLUMNS
  <2>1. t = s /\ s.x \in Int
    BY <1>1, ScreenFields DEF WrappedRight
  <2> QED BY <1>1, <2>1, Sizes
<1>2. CASE ~ (s.x < VGA_TEXT_COLUMNS)
  <2> DEFINE n == Quotient(s.x, VGA_TEXT_COLUMNS)
  <2>1. s.x \in Nat /\ s.y \in Int
    BY <1>2, ScreenFields, Sizes
  <2>2. n = s.x \div VGA_TEXT_COLUMNS
    BY <2>1 DEF Quotient
  <2>3. /\ n \in Nat /\ n * VGA_TEXT_COLUMNS \in Nat /\ n * VGA_TEXT_COLUMNS <= s.x
        /\ s.x < n * VGA_TEXT_COLUMNS + VGA_TEXT_COLUMNS
    BY <2>1, <2>2, Division, Sizes
  <2>4. t = AddRows(s, n)
    BY <1>2 DEF WrappedRight
  <2> HIDE DEF n, t
  <2>5. /\ t \in Screens /\ t.x = s.x - n * VGA_TEXT_COLUMNS /\ t.y = s.y + n
        /\ t.cells = s.cells /\ Position(t) = Position(s)
    BY <2>3, <2>4, AddingRows
  <2>6. s.x = VGA_TEXT_COLUMNS => t.x = 0
    <3>1. SUFFICES ASSUME s.x = VGA_TEXT_COLUMNS PROVE t.x = 0
      OBVIOUS
    <3>2. n # 0
      <4>1. n = 0 => n * VGA_TEXT_COLUMNS = 0
        BY Sizes
      <4> QED BY <2>3, <3>1, <4>1, Sizes
    <3>3. 1 * VGA_TEXT_COLUMNS <= n * VGA_TEXT_COLUMNS
      BY <2>3, <3>2, RowsOrdered, Sizes
    <3> QED BY <2>3, <2>5, <3>1, <3>3, Sizes
  <2>7. t.x < VGA_TEXT_COLUMNS /\ t.y >= 0
    BY <2>1, <2>3, <2>5, Sizes
  <2> QED BY <1>2, <2>5, <2>6, <2>7 DEF t
<1> QED BY <1>1, <1>2

LEMMA WrappingLeft ==
    ASSUME NEW s \in Screens, s.x < VGA_TEXT_COLUMNS
    PROVE  LET t == WrappedLeft(s)
           IN  /\ t \in Screens /\ t.cells = s.cells /\ Position(t) = Position(s)
               /\ t.x < VGA_TEXT_COLUMNS
               /\ s.x >= 0 => t = s
               /\ s.x < 0 => t.x <= - VGA_TEXT_COLUMNS
<1> DEFINE t == WrappedLeft(s)
<1>1. CASE s.x >= 0
  <2>1. t = s /\ s.x \in Int
    BY <1>1, ScreenFields DEF WrappedLeft
  <2> QED BY <1>1, <2>1, Sizes
<1>2. CASE ~ (s.x >= 0)
  <2> DEFINE q == (- s.x) \div VGA_TEXT_COLUMNS
             n == Quotient(s.x, VGA_TEXT_COLUMNS) + 1
  <2>1. - s.x \in Nat /\ s.x \in Int /\ s.y \in Int /\ s.x < 0
    BY <1>2, ScreenFields, Sizes
  <2>2. n = - q + 1
    BY <2>1 DEF Quotient
  <2>3. /\ q \in Nat /\ q * VGA_TEXT_COLUMNS \in Nat /\ q * VGA_TEXT_COLUMNS <= - s.x
        /\ - s.x < q * VGA_TEXT_COLUMNS + VGA_TEXT_COLUMNS
    BY <2>1, Division, Sizes
  <2>4. t = AddRows(s, n)
    BY <1>2 DEF WrappedLeft
  <2> HIDE DEF n, t, q
  <2>5. n \in Int /\ n * VGA_TEXT_COLUMNS = VGA_TEXT_COLUMNS - q * VGA_TEXT_COLUMNS
    <3>1. (1 - q) * VGA_TEXT_COLUMNS = 1 * VGA_TEXT_COLUMNS - q * VGA_TEXT_COLUMNS
      BY <2>3, Rows, Sizes
    <3>2. n = 1 - q
      BY <2>2, <2>3
    <3> QED BY <2>3, <3>1, <3>2, Sizes
  <2>6. /\ t \in Screens /\ t.x = s.x - n * VGA_TEXT_COLUMNS
        /\ t.cells = s.cells /\ Position(t) = Position(s)
    BY <2>4, <2>5, AddingRows
  <2>7. t.x <= - VGA_TEXT_COLUMNS
    BY <2>1, <2>3, <2>5, <2>6, Sizes
  <2>8. t.x < VGA_TEXT_COLUMNS
    BY <2>6, <2>7, ScreenFields, Sizes
  <2> QED BY <1>2, <2>6, <2>7, <2>8 DEF t
<1> QED BY <1>1, <1>2

(* The screens between two calls: the cursor is in the last row at most.   *)
GoodScreens == {s \in Screens : s.x < VGA_TEXT_COLUMNS /\ s.y \in 0 .. VGA_TEXT_ROWS - 1}

(* The cells and the cursor have moved up together, by d cells, or what is *)
(* before the cursor has left the screen.                                  *)
MovedBy(s, t, d) ==
    /\ Position(t) = Position(s) - d
    /\ \A p \in Cells : p + d \in Cells => t.cells[p] = s.cells[p + d]

Moved(s, t) == Position(t) < 0 \/ \E d \in Nat : MovedBy(s, t, d)

Redraw(s, cells, y) == [s EXCEPT !.cells = cells, !.y = y]

LEMMA Redrawn ==
    ASSUME NEW s \in Screens, NEW cells \in [Cells -> Characters], NEW y \in Int
    PROVE  LET t == Redraw(s, cells, y)
           IN  t \in Screens /\ t.x = s.x /\ t.y = y /\ t.cells = cells
<1> DEFINE C == [Cells -> Characters]
<1>1. Screens = [x : Int, y : Int, cells : C] /\ cells \in C
  BY DEF Screens
<1> HIDE DEF C
<1> QED BY <1>1 DEF Redraw

LEMMA Scrolling ==
    ASSUME NEW s \in Screens, s.x < VGA_TEXT_COLUMNS, s.y < 0 => s.x < 0
    PROVE  LET t == Scrolled(s)
           IN  /\ t \in GoodScreens /\ t.x = s.x /\ Moved(s, t)
               /\ s.y \in 0 .. VGA_TEXT_ROWS - 1 => t = s
<1> DEFINE t == Scrolled(s)
<1>1. s.x \in Int /\ s.y \in Int /\ s.cells \in [Cells -> Characters] /\ Position(s) \in Int
  BY ScreenFields
<1>2. CASE s.y < 0
  <2>1. t = scroll_down(s)
    BY <1>2 DEF Scrolled
  <2>2. t \in Screens /\ t.x = s.x /\ t.y = 0
    <3>1. [p \in Cells |-> Unknown] \in [Cells -> Characters]
      BY DEF Characters
    <3> DEFINE cells == [p \in Cells |-> Unknown]
    <3>2. t = Redraw(s, cells, 0)
      BY <2>1 DEF scroll_down, Redraw
    <3> HIDE DEF cells, t
    <3> QED BY <3>1, <3>2, Redrawn DEF cells
  <2> HIDE DEF t
  <2>3. 0 \in 0 .. VGA_TEXT_ROWS - 1
    BY Sizes
  <2>4. Position(t) = t.x
    <3>1. 0 * VGA_TEXT_COLUMNS = 0
      BY Sizes
    <3> QED BY <1>1, <2>2, <3>1 DEF Position
  <2>5. s.y \notin 0 .. VGA_TEXT_ROWS - 1
    BY <1>1, <1>2, Sizes
  <2> QED BY <1>1, <1>2, <2>2, <2>3, <2>4, <2>5 DEF t, GoodScreens, Moved
<1>3. CASE s.y \in 0 .. VGA_TEXT_ROWS - 1
  <2>1. t = s
    <3>1. s.y >= 0 /\ s.y < VGA_TEXT_ROWS
      BY <1>3, Sizes
    <3> QED BY <1>1, <3>1 DEF Scrolled
  <2>2. MovedBy(s, s, 0)
    BY <1>1 DEF MovedBy, Cells
  <2> QED BY <1>3, <2>1, <2>2 DEF GoodScreens, Moved
<1>4. CASE s.y >= VGA_TEXT_ROWS
  <2> DEFINE n == s.y - (VGA_TEXT_ROWS - 1)
             d == n * VGA_TEXT_COLUMNS
             cells == [p \in Cells |-> LET q == p + d
                                       IN  IF q \in Cells THEN s.cells[q] ELSE Space]
  <2>1. t = scroll(s, n)
    <3>1. ~ (s.y < 0) /\ ~ (s.y < VGA_TEXT_ROWS)
      BY <1>1, <1>4, Sizes
    <3> QED BY <3>1 DEF Scrolled
  <2>2. n \in Nat /\ d \in Nat
    BY <1>1, <1>4, Sizes
  <2>3. cells \in [Cells -> Characters]
    <3>1. Space \in Characters
      BY DEF Characters
    <3> QED BY <1>1, <3>1
  <2>4. t = Redraw(s, cells, VGA_TEXT_ROWS - 1)
    BY <2>1 DEF scroll, Redraw
  <2>5. \A p \in Cells : p + d \in Cells => cells[p] = s.cells[p + d]
    OBVIOUS
  <2> HIDE DEF cells, t
  <2>6. /\ t \in Screens /\ t.x = s.x /\ t.y = VGA_TEXT_ROWS - 1 /\ t.cells = cells
    <3>1. VGA_TEXT_ROWS - 1 \in Int
      BY Sizes
    <3> QED BY <2>3, <2>4, <3>1, Redrawn
  <2>7. Position(t) = Position(s) - d
    <3>1. t.y = s.y - n
      BY <1>1, <2>6, Sizes
    <3>2. t.y * VGA_TEXT_COLUMNS = s.y * VGA_TEXT_COLUMNS - d
      BY <1>1, <2>2, <3>1, Rows, Sizes
    <3>3. s.y * VGA_TEXT_COLUMNS \in Int
      BY <1>1, Sizes
    <3> HIDE DEF d
    <3> QED BY <1>1, <2>2, <2>6, <3>2, <3>3 DEF Position
  <2>8. MovedBy(s, t, d)
    BY <2>5, <2>6, <2>7 DEF MovedBy
  <2>9. t \in GoodScreens
    BY <2>6, Sizes DEF GoodScreens
  <2>10. s.y \notin 0 .. VGA_TEXT_ROWS - 1
    BY <1>1, <1>4, Sizes
  <2> HIDE DEF d
  <2> QED BY <2>2, <2>6, <2>8, <2>9, <2>10 DEF t, Moved
<1> QED BY <1>1, <1>2, <1>3, <1>4, Sizes

(* A cursor that is right or left of its row is in the next one, or stays  *)
(* left of it.                                                             *)
LEMMA Rectified ==
    ASSUME NEW s \in Screens, s.y >= 0
    PROVE  LET t == rectify(s)
           IN  /\ t \in GoodScreens /\ Moved(s, t)
               /\ s.x \in 0 .. VGA_TEXT_COLUMNS - 1 => t.x = s.x
               /\ s.x \in 0 .. VGA_TEXT_COLUMNS - 1 /\ s.y < VGA_TEXT_ROWS => t.y = s.y
               /\ s.x = VGA_TEXT_COLUMNS => t.x = 0
               /\ s.x < 0 => t.x < 0
<1> DEFINE right == WrappedRight(s)
           left == WrappedLeft(right)
           t == Scrolled(left)
<1>1. /\ right \in Screens /\ right.cells = s.cells /\ Position(right) = Position(s)
      /\ right.x < VGA_TEXT_COLUMNS /\ right.y >= 0
      /\ s.x < VGA_TEXT_COLUMNS => right = s
      /\ s.x = VGA_TEXT_COLUMNS => right.x = 0
  BY WrappingRight
<1>2. rectify(s) = t
  BY RectifySteps
<1> HIDE DEF right
<1>3. /\ left \in Screens /\ left.cells = right.cells /\ Position(left) = Position(right)
      /\ left.x < VGA_TEXT_COLUMNS
      /\ right.x >= 0 => left = right
      /\ right.x < 0 => left.x <= - VGA_TEXT_COLUMNS
  BY <1>1, WrappingLeft
<1> HIDE DEF left
<1>4. left.x \in Int /\ left.y \in Int /\ right.x \in Int /\ right.y \in Int /\ s.x \in Int /\ s.y \in Int
  BY <1>1, <1>3, ScreenFields
<1>5. left.y < 0 => left.x < 0
  BY <1>1, <1>3, <1>4, Sizes
<1>6. /\ t \in GoodScreens /\ t.x = left.x /\ Moved(left, t)
      /\ left.y \in 0 .. VGA_TEXT_ROWS - 1 => t = left
  BY <1>3, <1>5, Scrolling
<1> HIDE DEF t
<1>7. Moved(s, t)
  BY <1>1, <1>3, <1>6 DEF Moved, MovedBy
<1>8. s.x \in 0 .. VGA_TEXT_COLUMNS - 1 => left = s
  BY <1>1, <1>3, <1>4, Sizes
<1>9. s.x = VGA_TEXT_COLUMNS => left.x = 0
  BY <1>1, <1>3, <1>4
<1>10. s.x < 0 => left.x < 0
  <2>1. SUFFICES ASSUME s.x < 0 PROVE left.x < 0
    OBVIOUS
  <2>2. right = s
    BY <1>1, <1>4, <2>1, Sizes
  <2> QED BY <1>3, <1>4, <2>1, <2>2, Sizes
<1>11. s.y < VGA_TEXT_ROWS => s.y \in 0 .. VGA_TEXT_ROWS - 1
  BY <1>4, Sizes
<1> QED BY <1>2, <1>6, <1>7, <1>8, <1>9, <1>10, <1>11

-----------------------------------------------------------------------------
(* A character is put where the cursor is, if that is on the screen.       *)
LEMMA Putting ==
    ASSUME NEW s \in Screens, NEW c \in Characters
    PROVE  LET t == Put(s, c)
           IN  /\ t \in Screens /\ t.x = s.x /\ t.y = s.y /\ Position(t) = Position(s)
               /\ \A p \in Cells : t.cells[p] = IF p = Position(s) THEN c ELSE s.cells[p]
<1> DEFINE C == [Cells -> Characters]
           here == Position(s)
           cells == [s.cells EXCEPT ![here] = c]
           t == Put(s, c)
<1>1. Screens = [x : Int, y : Int, cells : C] /\ s.cells \in [Cells -> Characters]
  BY ScreenFields DEF Screens
<1>2. cells \in C /\ \A p \in Cells : cells[p] = IF p = here THEN c ELSE s.cells[p]
  BY <1>1
<1>3. CASE here \in Cells
  <2>1. t = [s EXCEPT !.cells = cells]
    BY <1>3 DEF Put
  <2> HIDE DEF cells, t, C, here
  <2>2. t \in Screens /\ t.x = s.x /\ t.y = s.y /\ t.cells = cells
    BY <1>1, <1>2, <2>1
  <2> QED BY <1>2, <2>2 DEF Position, t, here
<1>4. CASE here \notin Cells
  <2>1. t = s
    BY <1>4 DEF Put
  <2> QED BY <1>4, <2>1
<1> QED BY <1>3, <1>4

(* The cursor of a screen is in front of its end.                          *)
LEMMA CursorOnScreen ==
    ASSUME NEW s \in GoodScreens
    PROVE  /\ s \in Screens /\ s.x \in Int /\ s.y \in Nat /\ Position(s) \in Int
           /\ Position(s) < VGA_TEXT_ROWS * VGA_TEXT_COLUMNS
<1>1. /\ s \in Screens /\ s.x < VGA_TEXT_COLUMNS /\ s.y \in 0 .. VGA_TEXT_ROWS - 1
  BY DEF GoodScreens
<1>2. s.x \in Int /\ s.y \in Nat /\ Position(s) \in Int
  BY <1>1, ScreenFields, Sizes
<1> DEFINE r == VGA_TEXT_ROWS - 1
<1>3. r \in Int /\ s.y <= r /\ VGA_TEXT_ROWS = r + 1
  BY <1>1, Sizes
<1> HIDE DEF r
<1>4. s.y * VGA_TEXT_COLUMNS <= r * VGA_TEXT_COLUMNS
  BY <1>2, <1>3, RowsOrdered, Sizes
<1>5. VGA_TEXT_ROWS * VGA_TEXT_COLUMNS = r * VGA_TEXT_COLUMNS + VGA_TEXT_COLUMNS
  BY <1>3, Rows, Sizes
<1>6. s.y * VGA_TEXT_COLUMNS \in Int /\ r * VGA_TEXT_COLUMNS \in Int
  BY <1>2, <1>3, Sizes
<1>7. Position(s) < VGA_TEXT_ROWS * VGA_TEXT_COLUMNS
  BY <1>1, <1>2, <1>4, <1>5, <1>6, Sizes DEF Position
<1> QED BY <1>1, <1>2, <1>7

PlacedAt(s, x, y) == [s EXCEPT !.x = x, !.y = y]

LEMMA Placing ==
    ASSUME NEW s \in Screens, NEW x \in Int, NEW y \in Int
    PROVE  LET t == PlacedAt(s, x, y)
           IN  t \in Screens /\ t.x = x /\ t.y = y /\ t.cells = s.cells
<1> DEFINE C == [Cells -> Characters]
<1>1. Screens = [x : Int, y : Int, cells : C]
  BY DEF Screens
<1> HIDE DEF C
<1> QED BY <1>1 DEF PlacedAt

LEMMA ShiftIs ==
    ASSUME NEW s, NEW x, NEW y
    PROVE  cursor_shift(s, x, y) = rectify(PlacedAt(s, x, y))
  BY DEF cursor_shift, PlacedAt

-----------------------------------------------------------------------------
(* The cells before the cursor are the line, as far as they are on the     *)
(* screen.                                                                 *)
Holds(s, line) ==
    \A i \in 1 .. Len(line) :
        LET p == Position(s) - Len(line) + i - 1 IN p \in Cells => s.cells[p] = line[i]

LEMMA MovedHolds ==
    ASSUME NEW s \in Screens, NEW t \in Screens, NEW line \in Seq(Characters), Holds(s, line),
           Moved(s, t), Position(s) <= VGA_TEXT_ROWS * VGA_TEXT_COLUMNS
    PROVE  Holds(t, line)
<1> DEFINE n == Len(line)
           last == VGA_TEXT_ROWS * VGA_TEXT_COLUMNS
<1>1. SUFFICES ASSUME NEW i \in 1 .. n, Position(t) - n + i - 1 \in Cells
               PROVE  t.cells[Position(t) - n + i - 1] = line[i]
  BY DEF Holds
<1> DEFINE p == Position(t) - n + i - 1
<1>2. n \in Nat /\ Position(s) \in Int /\ Position(t) \in Int /\ last \in Nat
  BY ScreenFields, LenProperties, Sizes
<1>3. Cells = 0 .. last - 1
  BY DEF Cells
<1>4. Position(s) <= last
  OBVIOUS
<1> HIDE DEF n, last
<1>5. ~ (Position(t) < 0)
  BY <1>1, <1>2, <1>3
<1>6. PICK d \in Nat : MovedBy(s, t, d)
  BY <1>5 DEF Moved
<1>7. /\ Position(t) = Position(s) - d
      /\ p + d \in Cells => t.cells[p] = s.cells[p + d]
  BY <1>1, <1>6 DEF MovedBy
<1>8. p + d = Position(s) - n + i - 1 /\ p + d \in Cells
  <2>1. i \in Int /\ i <= n
    BY <1>2
  <2>2. p + d = Position(s) - n + i - 1
    BY <1>2, <1>7, <2>1
  <2>3. p \in 0 .. last - 1
    BY <1>1, <1>3
  <2> HIDE DEF p
  <2>4. p + d \in Int /\ p + d >= 0
    BY <2>3
  <2>5. p + d <= last - 1
    BY <1>2, <1>4, <2>1, <2>2
  <2> QED BY <1>2, <1>3, <2>2, <2>4, <2>5
<1>9. s.cells[p + d] = line[i]
  BY <1>1, <1>8 DEF Holds, n
<1> QED BY <1>7, <1>8, <1>9

(* A character that is shown is one more of the line.                      *)
LEMMA Showing ==
    ASSUME NEW s \in GoodScreens, NEW c \in Characters
    PROVE  LET t == Show(s, c)
           IN  /\ t \in GoodScreens
               /\ \A line \in Seq(Characters) : Holds(s, line) => Holds(t, Append(line, c))
               /\ s.x \in 0 .. VGA_TEXT_COLUMNS - 2 => t.x = s.x + 1 /\ t.y = s.y
               /\ s.x = VGA_TEXT_COLUMNS - 1 => t.x = 0
               /\ s.x = - 1 => t.x = 0
               /\ s.x < - 1 => t.x < 0
<1> DEFINE u == Put(s, c)
           v == PlacedAt(u, u.x + 1, u.y)
           t == Show(s, c)
           last == VGA_TEXT_ROWS * VGA_TEXT_COLUMNS
<1>1. /\ s \in Screens /\ s.x \in Int /\ s.y \in Nat /\ Position(s) \in Int
      /\ Position(s) < last
  BY CursorOnScreen
<1>2. /\ u \in Screens /\ u.x = s.x /\ u.y = s.y /\ Position(u) = Position(s)
      /\ \A p \in Cells : u.cells[p] = IF p = Position(s) THEN c ELSE s.cells[p]
  BY <1>1, Putting
<1>3. t = rectify(v)
  BY ShiftIs DEF Show
<1> HIDE DEF u, t
<1>4. v \in Screens /\ v.x = s.x + 1 /\ v.y = s.y /\ v.cells = u.cells
  BY <1>1, <1>2, Placing
<1> HIDE DEF v
<1>5. Position(v) = Position(s) + 1
  <2>1. s.y * VGA_TEXT_COLUMNS \in Int
    BY <1>1, Sizes
  <2> QED BY <1>1, <1>4, <2>1 DEF Position
<1>6. /\ t \in GoodScreens /\ Moved(v, t)
      /\ v.x \in 0 .. VGA_TEXT_COLUMNS - 1 => t.x = v.x
      /\ v.x \in 0 .. VGA_TEXT_COLUMNS - 1 /\ v.y < VGA_TEXT_ROWS => t.y = v.y
      /\ v.x = VGA_TEXT_COLUMNS => t.x = 0
      /\ v.x < 0 => t.x < 0
  BY <1>1, <1>3, <1>4, Rectified
<1>7. ASSUME NEW line \in Seq(Characters), Holds(s, line) PROVE Holds(t, Append(line, c))
  <2> DEFINE more == Append(line, c)
             n == Len(line)
  <2>1. /\ more \in Seq(Characters) /\ Len(more) = n + 1 /\ n \in Nat
        /\ \A i \in 1 .. n : more[i] = line[i]
        /\ more[n + 1] = c
    BY AppendProperties, LenProperties
  <2> HIDE DEF more
  <2>2. ASSUME NEW i \in 1 .. n + 1, Position(v) - (n + 1) + i - 1 \in Cells
        PROVE  v.cells[Position(v) - (n + 1) + i - 1] = more[i]
    <3> DEFINE p == Position(v) - (n + 1) + i - 1
    <3>1. p = Position(s) - n + i - 1
      BY <1>1, <1>5, <2>1, <2>2
    <3>2. CASE i = n + 1
      <4>1. p = Position(s)
        BY <1>1, <2>1, <3>1, <3>2
      <4> QED BY <1>2, <1>4, <2>1, <2>2, <3>2, <4>1
    <3>3. CASE i # n + 1
      <4>1. i \in 1 .. n /\ p # Position(s)
        BY <1>1, <2>1, <2>2, <3>1, <3>3
      <4>2. s.cells[p] = line[i]
        BY <1>7, <2>2, <3>1, <4>1 DEF Holds
      <4> QED BY <1>2, <1>4, <2>1, <2>2, <4>1, <4>2
    <3> QED BY <3>2, <3>3
  <2>3. Holds(v, more)
    BY <2>1, <2>2 DEF Holds
  <2>4. Position(v) <= last
    <3>1. last \in Nat
      BY Sizes
    <3> HIDE DEF last
    <3> QED BY <1>1, <1>5, <3>1
  <2> QED BY <1>4, <1>6, <2>1, <2>3, <2>4, MovedHolds DEF more, GoodScreens
<1>8. s.y < VGA_TEXT_ROWS
  BY <1>1, Sizes DEF GoodScreens
<1>9. s.x \in 0 .. VGA_TEXT_COLUMNS - 2 => v.x \in 0 .. VGA_TEXT_COLUMNS - 1
  BY <1>4, Sizes
<1>10. s.x = VGA_TEXT_COLUMNS - 1 => v.x = VGA_TEXT_COLUMNS
  BY <1>4, Sizes
<1>11. s.x < - 1 => v.x < 0
  BY <1>1, <1>4
<1>12. s.x = - 1 => v.x = 0 /\ 0 \in 0 .. VGA_TEXT_COLUMNS - 1
  BY <1>1, <1>4, Sizes
<1> QED BY <1>4, <1>6, <1>7, <1>8, <1>9, <1>10, <1>11, <1>12 DEF t

(* And one that is taken back is one less.                                 *)
LEMMA Erasing ==
    ASSUME NEW s \in GoodScreens
    PROVE  LET t == erase(s)
           IN  /\ t \in GoodScreens
               /\ \A line \in Seq(Characters) :
                     line # <<>> /\ Holds(s, line) => Holds(t, Front(line))
               /\ s.x \in 1 .. VGA_TEXT_COLUMNS - 1 => t.x = s.x - 1 /\ t.y = s.y
               /\ s.x <= 0 => t.x < 0
<1> DEFINE v == PlacedAt(s, s.x - 1, s.y)
           u == rectify(v)
           t == erase(s)
           last == VGA_TEXT_ROWS * VGA_TEXT_COLUMNS
<1>1. /\ s \in Screens /\ s.x \in Int /\ s.y \in Nat /\ Position(s) \in Int
      /\ Position(s) < last
  BY CursorOnScreen
<1>2. t = Put(u, Space)
  BY ShiftIs DEF erase
<1>3. v \in Screens /\ v.x = s.x - 1 /\ v.y = s.y /\ v.cells = s.cells
  BY <1>1, Placing
<1> HIDE DEF v
<1>4. Position(v) = Position(s) - 1
  <2>1. s.y * VGA_TEXT_COLUMNS \in Int
    BY <1>1, Sizes
  <2> QED BY <1>1, <1>3, <2>1 DEF Position
<1>5. /\ u \in GoodScreens /\ Moved(v, u)
      /\ v.x \in 0 .. VGA_TEXT_COLUMNS - 1 => u.x = v.x
      /\ v.x \in 0 .. VGA_TEXT_COLUMNS - 1 /\ v.y < VGA_TEXT_ROWS => u.y = v.y
      /\ v.x < 0 => u.x < 0
  BY <1>1, <1>3, Rectified
<1> HIDE DEF u, t
<1>6. u \in Screens /\ u.x \in Int /\ Position(u) \in Int
  BY <1>5, CursorOnScreen
<1>7. /\ t \in Screens /\ t.x = u.x /\ t.y = u.y /\ Position(t) = Position(u)
      /\ \A p \in Cells : t.cells[p] = IF p = Position(u) THEN Space ELSE u.cells[p]
  <2>1. Space \in Characters
    BY DEF Characters
  <2> QED BY <1>2, <1>6, <2>1, Putting
<1>8. t \in GoodScreens
  BY <1>5, <1>7 DEF GoodScreens
<1>9. ASSUME NEW line \in Seq(Characters), line # <<>>, Holds(s, line)
      PROVE  Holds(t, Front(line))
  <2> DEFINE less == Front(line)
             n == Len(line)
  <2>1. n \in Nat \ {0}
    BY <1>9, EmptySeq, LenProperties
  <2>2. /\ less \in Seq(Characters) /\ Len(less) = n - 1
        /\ \A i \in 1 .. n - 1 : less[i] = line[i]
    <3>1. \A i \in 1 .. n - 1 : line[i] \in Characters
      BY ElementOfSeq
    <3>2. 1 \in Int /\ n - 1 \in Int
      BY <2>1
    <3>3. /\ SubSeq(line, 1, n - 1) \in Seq(Characters)
          /\ Len(SubSeq(line, 1, n - 1)) = IF 1 <= n - 1 THEN (n - 1) - 1 + 1 ELSE 0
          /\ \A i \in 1 .. (n - 1) - 1 + 1 : SubSeq(line, 1, n - 1)[i] = line[1 + i - 1]
      <4> HIDE DEF n
      <4> QED BY <3>1, <3>2, SubSeqProperties
    <3>4. less = SubSeq(line, 1, n - 1)
      BY DEF Front
    <3> HIDE DEF n, less
    <3> QED BY <2>1, <3>3, <3>4
  <2> HIDE DEF less
  <2>3. Holds(v, less)
    <3>1. SUFFICES ASSUME NEW i \in 1 .. n - 1, Position(v) - (n - 1) + i - 1 \in Cells
                   PROVE  v.cells[Position(v) - (n - 1) + i - 1] = less[i]
      BY <2>2 DEF Holds
    <3>2. i \in 1 .. n /\ Position(v) - (n - 1) + i - 1 = Position(s) - n + i - 1
      BY <1>1, <1>4, <2>1
    <3> QED BY <1>3, <1>9, <2>2, <3>1, <3>2 DEF Holds
  <2>4. Position(v) <= last
    <3>1. last \in Nat
      BY Sizes
    <3> HIDE DEF last
    <3> QED BY <1>1, <1>4, <3>1
  <2>5. Holds(u, less)
    BY <1>3, <1>5, <1>6, <2>2, <2>3, <2>4, MovedHolds
  <2>6. ASSUME NEW i \in 1 .. n - 1, Position(t) - (n - 1) + i - 1 \in Cells
        PROVE  t.cells[Position(t) - (n - 1) + i - 1] = less[i]
    <3> DEFINE p == Position(t) - (n - 1) + i - 1
    <3>1. p # Position(u)
      BY <1>6, <1>7, <2>1
    <3>2. u.cells[p] = less[i]
      BY <1>7, <2>2, <2>5, <2>6 DEF Holds
    <3> QED BY <1>7, <2>6, <3>1, <3>2
  <2>7. Holds(t, less)
    BY <2>2, <2>6 DEF Holds
  <2> QED BY <2>7 DEF less
<1>10. s.y < VGA_TEXT_ROWS
  BY <1>1, Sizes DEF GoodScreens
<1>11. s.x \in 1 .. VGA_TEXT_COLUMNS - 1 => v.x \in 0 .. VGA_TEXT_COLUMNS - 1
  BY <1>3, Sizes
<1>12. s.x <= 0 => v.x < 0
  BY <1>1, <1>3
<1> QED BY <1>3, <1>5, <1>7, <1>8, <1>9, <1>10, <1>11, <1>12 DEF t

-----------------------------------------------------------------------------
(* Whatever is printed, the cursor stays within the rows.                  *)
LEMMA NewLines ==
    ASSUME NEW s \in GoodScreens
    PROVE  newline(s) \in GoodScreens
<1>1. s \in Screens /\ 0 \in Int /\ s.y + 1 \in Int /\ s.y + 1 >= 0
  BY CursorOnScreen
<1>2. PlacedAt(s, 0, s.y + 1) \in Screens /\ PlacedAt(s, 0, s.y + 1).y = s.y + 1
  BY <1>1, Placing
<1>3. rectify(PlacedAt(s, 0, s.y + 1)) \in GoodScreens
  BY <1>1, <1>2, Rectified
<1> QED BY <1>3, ShiftIs DEF newline

LEMMA ManySpaces ==
    ASSUME NEW s \in GoodScreens, NEW count \in Nat
    PROVE  Spaces(s, count) \in GoodScreens
<1> DEFINE Steps(t) == t = [k \in 0 .. count |-> IF k = 0 THEN s ELSE Show(t[k - 1], Space)]
           F == [k \in Nat |-> [x \in GoodScreens |-> Show(x, Space)]]
           c == CHOOSE t : Steps(t)
<1>1. Spaces(s, count) = c[count]
  BY DEF Spaces
<1> HIDE DEF c
<1>2. ASSUME NEW x \in GoodScreens PROVE Show(x, Space) \in GoodScreens
  <2>1. Space \in Characters
    BY DEF Characters
  <2> QED BY <2>1, Showing
<1>3. F \in [Nat -> [GoodScreens -> GoodScreens]]
  BY <1>2
<1>4. PICK t \in [0 .. count -> GoodScreens] : Iterates(t, s, F, count)
  <2> HIDE DEF F
  <2> QED BY <1>3, RecursionUpTo
<1>5. Steps(t)
  <2>1. ASSUME NEW k \in 0 .. count
        PROVE  t[k] = IF k = 0 THEN s ELSE Show(t[k - 1], Space)
    <3>1. t[k] = IF k = 0 THEN s ELSE F[k - 1][t[k - 1]]
      BY <1>4 DEF Iterates
    <3>2. CASE k # 0
      <4>1. k - 1 \in Nat /\ t[k - 1] \in GoodScreens
        BY <3>2
      <4> QED BY <3>1, <3>2, <4>1
    <3> QED BY <3>1, <3>2
  <2>2. t = [k \in 0 .. count |-> t[k]]
    OBVIOUS
  <2> QED BY <2>1, <2>2
<1>6. Steps(c)
  BY <1>5 DEF c
<1> DEFINE T == {k \in 0 .. count : c[k] \in GoodScreens}
<1>7. \A k \in 0 .. count : c[k] = IF k = 0 THEN s ELSE Show(c[k - 1], Space)
  BY <1>6
<1> HIDE DEF Steps, F
<1>8. 0 \in T
  <2>1. 0 \in 0 .. count
    OBVIOUS
  <2> QED BY <1>7, <2>1
<1>9. ASSUME NEW k \in 0 .. count - 1, k \in T PROVE k + 1 \in T
  <2>1. k + 1 \in 0 .. count /\ k + 1 # 0 /\ (k + 1) - 1 = k
    OBVIOUS
  <2>2. c[k + 1] = Show(c[k], Space)
    BY <1>7, <2>1
  <2> QED BY <1>2, <1>9, <2>1, <2>2
<1>10. \A k \in 0 .. count : k \in T
  <2> HIDE DEF T
  <2> QED BY <1>8, <1>9, UpTo
<1>11. count \in 0 .. count
  OBVIOUS
<1> QED BY <1>1, <1>10, <1>11

LEMMA PrintingCharacter ==
    ASSUME NEW s \in GoodScreens, NEW c \in Characters
    PROVE  print_character(s, c) \in GoodScreens
<1>1. newline(s) \in GoodScreens
  BY NewLines
<1>2. erase(s) \in GoodScreens
  BY Erasing
<1>3. Show(s, c) \in GoodScreens
  BY Showing
<1>4. tab(s) \in GoodScreens
  <2> DEFINE spaces == (s.x - VGA_TEXT_TAB_LENGTH * Quotient(s.x, VGA_TEXT_TAB_LENGTH)) % 256
             left == VGA_TEXT_TAB_LENGTH - spaces
  <2>1. tab(s) = IF s.x + left > VGA_TEXT_COLUMNS - 1 THEN newline(s)
                 ELSE IF left > 0 THEN Spaces(s, left) ELSE s
    BY DEF tab
  <2>2. spaces \in Int
    <3> DEFINE q == Quotient(s.x, VGA_TEXT_TAB_LENGTH)
    <3>1. s.x \in Int
      BY CursorOnScreen
    <3>2. q \in Int
      <4>1. CASE s.x < 0
        <5>1. - s.x \in Nat
          BY <3>1, <4>1
        <5>2. (- s.x) \div VGA_TEXT_TAB_LENGTH \in Nat
          BY <5>1, Division, Sizes
        <5> QED BY <4>1, <5>2 DEF Quotient
      <4>2. CASE ~ (s.x < 0)
        <5>1. s.x \in Nat
          BY <3>1, <4>2
        <5>2. s.x \div VGA_TEXT_TAB_LENGTH \in Nat
          BY <5>1, Division, Sizes
        <5> QED BY <4>2, <5>2 DEF Quotient
      <4> QED BY <4>1, <4>2
    <3> HIDE DEF q
    <3>3. VGA_TEXT_TAB_LENGTH * q \in Int
      BY <3>2, Sizes
    <3>4. s.x - VGA_TEXT_TAB_LENGTH * q \in Int
      BY <3>1, <3>3
    <3> QED BY <3>4 DEF q
  <2> HIDE DEF spaces
  <2>3. left > 0 => left \in Nat
    BY <2>2, Sizes
  <2>4. left > 0 => Spaces(s, left) \in GoodScreens
    BY <2>3, ManySpaces
  <2> QED BY <1>1, <2>1, <2>4
<1> QED BY <1>1, <1>2, <1>3, <1>4 DEF print_character

LEMMA PrintingString ==
    ASSUME NEW s \in GoodScreens, NEW string \in Seq(STRING)
    PROVE  print(s, string) \in GoodScreens
<1> DEFINE n == Len(string)
           Steps(t) == t = [k \in 0 .. n |->
                               IF k = 0 THEN s ELSE print_character(t[k - 1], string[k])]
           F == [k \in Nat |-> [x \in GoodScreens |->
                    IF k + 1 \in 1 .. n THEN print_character(x, string[k + 1]) ELSE x]]
           c == CHOOSE t : Steps(t)
<1>1. print(s, string) = c[n]
  BY DEF print
<1> HIDE DEF c
<1>2. n \in Nat /\ \A k \in 1 .. n : string[k] \in Characters
  <2>1. \A k \in 1 .. n : string[k] \in STRING
    BY ElementOfSeq
  <2> QED BY <2>1, LenProperties DEF Characters
<1> HIDE DEF n
<1>3. ASSUME NEW x \in GoodScreens, NEW k \in 1 .. n
      PROVE  print_character(x, string[k]) \in GoodScreens
  BY <1>2, PrintingCharacter
<1>4. F \in [Nat -> [GoodScreens -> GoodScreens]]
  BY <1>3
<1>5. PICK t \in [0 .. n -> GoodScreens] : Iterates(t, s, F, n)
  <2> HIDE DEF F
  <2> QED BY <1>2, <1>4, RecursionUpTo
<1>6. Steps(t)
  <2>1. ASSUME NEW k \in 0 .. n
        PROVE  t[k] = IF k = 0 THEN s ELSE print_character(t[k - 1], string[k])
    <3>1. t[k] = IF k = 0 THEN s ELSE F[k - 1][t[k - 1]]
      BY <1>5 DEF Iterates
    <3>2. CASE k # 0
      <4>1. k - 1 \in Nat /\ t[k - 1] \in GoodScreens /\ (k - 1) + 1 = k /\ k \in 1 .. n
        BY <1>2, <3>2
      <4> QED BY <3>1, <3>2, <4>1
    <3> QED BY <3>1, <3>2
  <2>2. t = [k \in 0 .. n |-> t[k]]
    OBVIOUS
  <2> QED BY <2>1, <2>2
<1>7. Steps(c)
  BY <1>6 DEF c
<1>8. \A k \in 0 .. n : c[k] = IF k = 0 THEN s ELSE print_character(c[k - 1], string[k])
  BY <1>7
<1> HIDE DEF Steps, F
<1> DEFINE T == {k \in 0 .. n : c[k] \in GoodScreens}
<1>9. 0 \in T
  <2>1. 0 \in 0 .. n
    BY <1>2
  <2> QED BY <1>8, <2>1
<1>10. ASSUME NEW k \in 0 .. n - 1, k \in T PROVE k + 1 \in T
  <2>1. k + 1 \in 0 .. n /\ k + 1 \in 1 .. n /\ k + 1 # 0 /\ (k + 1) - 1 = k
    BY <1>2
  <2>2. c[k + 1] = print_character(c[k], string[k + 1])
    BY <1>8, <2>1
  <2> QED BY <1>3, <1>10, <2>1, <2>2
<1>11. \A k \in 0 .. n : k \in T
  <2> HIDE DEF T
  <2> QED BY <1>2, <1>9, <1>10, UpTo
<1>12. n \in 0 .. n
  BY <1>2
<1> QED BY <1>1, <1>11, <1>12

LEMMA RunningCommand ==
    ASSUME NEW s \in GoodScreens, NEW arguments
    PROVE  run_command(s, arguments) \in GoodScreens
<1>1. clear_screen(s) \in GoodScreens
  <2> DEFINE cells == [p \in Cells |-> Space]
  <2>1. cells \in [Cells -> Characters]
    BY DEF Characters
  <2>2. 0 \in 0 .. VGA_TEXT_ROWS - 1 /\ 0 < VGA_TEXT_COLUMNS
    BY Sizes
  <2> HIDE DEF cells
  <2>3. [x |-> 0, y |-> 0, cells |-> cells] \in GoodScreens
    BY <2>1, <2>2 DEF GoodScreens, Screens
  <2> QED BY <2>3 DEF clear_screen, cells
<1>2. ASSUME arguments[1] \in DOMAIN Shown
      PROVE  print(s, Shown[arguments[1]]) \in GoodScreens
  <2>1. Shown[arguments[1]] \in Seq(STRING)
    BY <1>2, TypedAssumption
  <2> QED BY <2>1, PrintingString
<1> QED BY <1>1, <1>2 DEF run_command

-----------------------------------------------------------------------------
(* The inductive invariant.  A cursor that is far enough to the right of   *)
(* the edge for the whole line to be before it in its row is as far from   *)
(* where the line started; a line that was wrapped is longer than that,    *)
(* and a cursor that went back over the edge is left of it until the next  *)
(* new line.                                                               *)
FromStart == Count <= cursor_x => Byte(cursor_x - Count) = start_x /\ Byte(cursor_y) = start_y

NoBackspace(line) == \A k \in 1 .. Len(line) : line[k] # Bs

TerminalIInv ==
    /\ Screen \in GoodScreens /\ input \in Seq(Characters)
    /\ shell_pc = "input" /\ ~ odd => Holds(Screen, input) /\ NoBackspace(input) /\ FromStart

LEMMA ScreenNow ==
    /\ Screen.x = cursor_x /\ Screen.y = cursor_y /\ Screen.cells = vga
    /\ Screen'.x = cursor_x' /\ Screen'.y = cursor_y' /\ Screen'.cells = vga'
  BY DEF Screen

LEMMA Becoming ==
    ASSUME NEW s \in GoodScreens, Becomes(s)
    PROVE  Screen' = s
<1> DEFINE C == [Cells -> Characters]
<1>1. s \in [x : Int, y : Int, cells : C]
  BY DEF GoodScreens, Screens
<1> HIDE DEF C
<1>2. s = [x |-> s.x, y |-> s.y, cells |-> s.cells]
  BY <1>1
<1> QED BY <1>2 DEF Becomes, Screen

(* A line of no characters agrees with every screen, and starts where the  *)
(* cursor is.                                                              *)
LEMMA EmptyLine ==
    ASSUME NEW s
    PROVE  Holds(s, <<>>) /\ NoBackspace(<<>>) /\ <<>> \in Seq(Characters)
<1>1. Len(<<>>) = 0
  BY EmptySeq
<1> QED BY <1>1 DEF Holds, NoBackspace

LEMMA TerminalInitIInv == TerminalInit => TerminalIInv
<1> SUFFICES ASSUME TerminalInit PROVE TerminalIInv
  OBVIOUS
<1>1. Screen \in GoodScreens
  <2> DEFINE cells == [p \in Cells |-> Space]
  <2>1. cells \in [Cells -> Characters]
    BY DEF Characters
  <2>2. 0 \in 0 .. VGA_TEXT_ROWS - 1 /\ 0 < VGA_TEXT_COLUMNS
    BY Sizes
  <2>3. Screen = [x |-> 0, y |-> 0, cells |-> cells]
    BY DEF TerminalInit, Screen
  <2> HIDE DEF cells
  <2> QED BY <2>1, <2>2, <2>3 DEF GoodScreens, Screens
<1>2. input = <<>> /\ cursor_x = 0 /\ cursor_y = 0 /\ start_x = 0 /\ start_y = 0
  BY DEF TerminalInit
<1>3. FromStart
  <2>1. Count = 0 /\ 0 - 0 = 0 /\ Byte(0) = 0
    BY <1>2, EmptySeq DEF Count, Byte
  <2> QED BY <1>2, <2>1 DEF FromStart
<1> QED BY <1>1, <1>2, <1>3, EmptyLine DEF TerminalIInv

(* A key that is typed.                                                    *)
LEMMA TypeKeeps ==
    ASSUME TerminalIInv, NEW c \in Characters, Reading, Echo(c), c # Newline
    PROVE  TerminalIInv'
<1>1. /\ Screen \in GoodScreens /\ input \in Seq(Characters) /\ shell_pc = "input"
      /\ ~ odd => Holds(Screen, input) /\ NoBackspace(input) /\ FromStart
  BY DEF TerminalIInv, Reading
<1> DEFINE s == print_character(Screen, c)
<1>2. s \in GoodScreens
  BY <1>1, PrintingCharacter
<1>3. Screen' = s
  BY <1>2, Becoming DEF Echo
<1>4. /\ input' \in Seq(Characters) /\ Len(input') = Count + 1 /\ Count \in Nat
      /\ \A k \in 1 .. Count : input'[k] = input[k]
      /\ input'[Count + 1] = c
  BY <1>1, AppendProperties, LenProperties DEF Echo, Count
<1>5. ASSUME ~ odd'
      PROVE  Holds(Screen', input') /\ NoBackspace(input') /\ FromStart'
  <2>1. ~ odd /\ c \notin {TabKey, Bs}
    BY <1>5 DEF Echo
  <2>2. s = Show(Screen, c)
    BY <2>1 DEF print_character
  <2>3. /\ Holds(Screen, input) => Holds(s, Append(input, c))
        /\ cursor_x \in 0 .. VGA_TEXT_COLUMNS - 2 => s.x = cursor_x + 1 /\ s.y = cursor_y
        /\ cursor_x = VGA_TEXT_COLUMNS - 1 => s.x = 0
        /\ cursor_x = - 1 => s.x = 0
        /\ cursor_x < - 1 => s.x < 0
    BY <1>1, <2>2, ScreenNow, Showing
  <2> HIDE DEF s
  <2>4. Holds(Screen', input')
    BY <1>1, <1>3, <2>1, <2>3 DEF Echo
  <2>5. NoBackspace(input')
    <3>1. ASSUME NEW k \in 1 .. Count + 1 PROVE input'[k] # Bs
      <4>1. CASE k = Count + 1
        BY <1>4, <2>1, <4>1
      <4>2. CASE k # Count + 1
        <5>1. k \in 1 .. Count
          BY <1>4, <4>2
        <5> QED BY <1>1, <1>4, <2>1, <5>1 DEF NoBackspace, Count
      <4> QED BY <4>1, <4>2
    <3> QED BY <1>4, <3>1 DEF NoBackspace
  <2>6. FromStart'
    <3>1. /\ cursor_x' = s.x /\ cursor_y' = s.y /\ Count' = Count + 1
          /\ start_x' = start_x /\ start_y' = start_y
      BY <1>3, <1>4, ScreenNow DEF Echo, Count
    <3>2. cursor_x \in Int /\ cursor_x < VGA_TEXT_COLUMNS /\ s.x \in Int
      BY <1>1, <1>2, ScreenNow, CursorOnScreen DEF GoodScreens, s
    <3>3. SUFFICES ASSUME Count + 1 <= s.x
                   PROVE  Byte(s.x - (Count + 1)) = start_x /\ Byte(s.y) = start_y
      BY <3>1 DEF FromStart
    <3>4. cursor_x \in 0 .. VGA_TEXT_COLUMNS - 2
      BY <1>4, <2>3, <3>2, <3>3, Sizes
    <3>5. Count <= cursor_x /\ s.x - (Count + 1) = cursor_x - Count /\ s.y = cursor_y
      BY <1>4, <2>3, <3>2, <3>3, <3>4
    <3> QED BY <1>1, <2>1, <3>5 DEF FromStart
  <2> QED BY <2>4, <2>5, <2>6
<1> HIDE DEF s
<1> QED BY <1>2, <1>3, <1>4, <1>5 DEF TerminalIInv

LEMMA FrontIs ==
    ASSUME NEW line \in Seq(Characters), Len(line) > 0
    PROVE  /\ line # <<>> /\ Front(line) \in Seq(Characters) /\ Len(Front(line)) = Len(line) - 1
           /\ \A i \in 1 .. Len(line) - 1 : Front(line)[i] = line[i]
<1> DEFINE n == Len(line)
           less == Front(line)
<1>1. n \in Nat \ {0} /\ line # <<>>
  BY EmptySeq, LenProperties
<1>2. \A i \in 1 .. n - 1 : line[i] \in Characters
  BY ElementOfSeq
<1>3. 1 \in Int /\ n - 1 \in Int
  BY <1>1
<1>4. /\ SubSeq(line, 1, n - 1) \in Seq(Characters)
      /\ Len(SubSeq(line, 1, n - 1)) = IF 1 <= n - 1 THEN (n - 1) - 1 + 1 ELSE 0
      /\ \A i \in 1 .. (n - 1) - 1 + 1 : SubSeq(line, 1, n - 1)[i] = line[1 + i - 1]
  <2> HIDE DEF n
  <2> QED BY <1>2, <1>3, SubSeqProperties
<1>5. less = SubSeq(line, 1, n - 1)
  BY DEF Front
<1> HIDE DEF n, less
<1>6. less \in Seq(Characters) /\ Len(less) = n - 1 /\ \A i \in 1 .. n - 1 : less[i] = line[i]
  BY <1>1, <1>4, <1>5
<1> QED BY <1>1, <1>6 DEF n, less

(* A key that is taken back.                                               *)
LEMMA BackKeeps ==
    ASSUME TerminalIInv, Reading, Count > 0, Becomes(print_character(Screen, Bs)),
           input' = Front(input), UNCHANGED <<start_x, start_y, shell_pc, odd>>
    PROVE  TerminalIInv' /\ (~ odd => NoBackspace(input'))
<1>1. /\ Screen \in GoodScreens /\ input \in Seq(Characters) /\ shell_pc = "input"
      /\ ~ odd => Holds(Screen, input) /\ NoBackspace(input) /\ FromStart
  BY DEF TerminalIInv, Reading
<1> DEFINE s == erase(Screen)
<1>2. print_character(Screen, Bs) = s
  BY DEF print_character, Bs, Newline, TabKey
<1>3. /\ s \in GoodScreens
      /\ input # <<>> /\ Holds(Screen, input) => Holds(s, Front(input))
      /\ cursor_x \in 1 .. VGA_TEXT_COLUMNS - 1 => s.x = cursor_x - 1 /\ s.y = cursor_y
      /\ cursor_x <= 0 => s.x < 0
  BY <1>1, ScreenNow, Erasing
<1> HIDE DEF s
<1>4. Screen' = s
  BY <1>2, <1>3, Becoming
<1>5. /\ input # <<>> /\ input' \in Seq(Characters) /\ Len(input') = Count - 1 /\ Count \in Nat
      /\ \A k \in 1 .. Count - 1 : input'[k] = input[k]
  BY <1>1, FrontIs, LenProperties DEF Count
<1>6. ASSUME ~ odd PROVE Holds(Screen', input') /\ NoBackspace(input') /\ FromStart'
  <2>1. Holds(Screen', input')
    BY <1>1, <1>3, <1>4, <1>5, <1>6
  <2>2. NoBackspace(input')
    <3>1. ASSUME NEW k \in 1 .. Count - 1 PROVE input'[k] # Bs
      <4>1. k \in 1 .. Count
        BY <1>5
      <4> QED BY <1>1, <1>5, <1>6, <4>1 DEF NoBackspace, Count
    <3> QED BY <1>5, <3>1 DEF NoBackspace
  <2>3. FromStart'
    <3>1. cursor_x' = s.x /\ cursor_y' = s.y /\ Count' = Count - 1
      BY <1>4, <1>5, ScreenNow DEF Count
    <3>2. cursor_x \in Int /\ cursor_x < VGA_TEXT_COLUMNS /\ s.x \in Int
      BY <1>1, <1>3, ScreenNow, CursorOnScreen DEF GoodScreens
    <3>3. SUFFICES ASSUME Count - 1 <= s.x
                   PROVE  Byte(s.x - (Count - 1)) = start_x /\ Byte(s.y) = start_y
      BY <3>1 DEF FromStart
    <3>4. cursor_x \in 1 .. VGA_TEXT_COLUMNS - 1
      BY <1>3, <1>5, <3>2, <3>3, Sizes
    <3>5. Count <= cursor_x /\ s.x - (Count - 1) = cursor_x - Count /\ s.y = cursor_y
      BY <1>3, <1>5, <3>2, <3>3, <3>4
    <3> QED BY <1>1, <1>6, <3>5 DEF FromStart
  <2> QED BY <2>1, <2>2, <2>3
<1> QED BY <1>3, <1>4, <1>5, <1>6 DEF TerminalIInv

LEMMA RunKeeps ==
    ASSUME TerminalIInv, Run
    PROVE  TerminalIInv'
<1> DEFINE s == run_command(Screen, parse(input))
<1>1. s \in GoodScreens
  BY RunningCommand DEF TerminalIInv
<1>2. Becomes(s) /\ print_prompt(s)
  BY DEF Run
<1> HIDE DEF s
<1>3. Screen' = s
  BY <1>1, <1>2, Becoming
<1>4. input' = <<>> /\ start_x' = Byte(s.x) /\ start_y' = Byte(s.y)
  BY <1>2 DEF print_prompt
<1>5. FromStart'
  <2>1. Count' = 0 /\ cursor_x' = s.x /\ cursor_y' = s.y /\ s.x \in Int
    BY <1>1, <1>3, <1>4, EmptySeq, ScreenNow, CursorOnScreen DEF Count
  <2>2. cursor_x' - Count' = s.x
    BY <2>1
  <2> QED BY <1>4, <2>1, <2>2 DEF FromStart
<1> QED BY <1>1, <1>3, <1>4, <1>5, EmptyLine DEF TerminalIInv

(* One step for each action.                                               *)
LEMMA TerminalNextIInv == TerminalIInv /\ [TerminalNext]_terminal_vars => TerminalIInv'
<1> SUFFICES ASSUME TerminalIInv, [TerminalNext]_terminal_vars PROVE TerminalIInv'
  OBVIOUS
<1>1. ASSUME NEW c \in Typed, Type(c) PROVE TerminalIInv'
  <2>1. c \in Characters /\ c # Newline
    BY TypedAssumption DEF Characters
  <2> QED BY <1>1, <2>1, TypeKeeps DEF Type
<1>2. CASE Backspace
  <2>1. CASE Len(input) > 0 /\ Becomes(print_character(Screen, Bs)) /\ input' = Front(input)
             /\ UNCHANGED <<start_x, start_y, shell_pc, odd>>
    BY <1>2, <2>1, BackKeeps DEF Backspace, Count
  <2>2. CASE Len(input) = 0 /\ Echo(Bs)
    <3>1. Bs \in Characters /\ Bs # Newline
      BY DEF Characters, Bs, Newline
    <3> QED BY <1>2, <2>2, <3>1, TypeKeeps DEF Backspace
  <2> QED BY <1>2, <2>1, <2>2 DEF Backspace
<1>3. CASE Enter
  <2>1. newline(Screen) \in GoodScreens
    BY NewLines DEF TerminalIInv
  <2>2. print_character(Screen, Newline) = newline(Screen)
    BY DEF print_character, Newline, TabKey, Bs
  <2>3. Screen' = newline(Screen)
    BY <1>3, <2>1, <2>2, Becoming DEF Enter
  <2> QED BY <1>3, <2>1, <2>3 DEF Enter, TerminalIInv
<1>4. CASE Full
  <2>1. Screen' = Screen /\ input' = input /\ shell_pc' = "run"
    BY <1>4 DEF Full, Screen
  <2> QED BY <2>1 DEF TerminalIInv
<1>5. CASE Run
  BY <1>5, RunKeeps
<1>6. CASE UNCHANGED terminal_vars
  <2>1. /\ Screen' = Screen /\ input' = input /\ shell_pc' = shell_pc /\ odd' = odd
        /\ FromStart' = FromStart
    BY <1>6 DEF terminal_vars, shell, Screen, FromStart, Count
  <2> QED BY <2>1 DEF TerminalIInv
<1> QED BY <1>1, <1>2, <1>3, <1>4, <1>5, <1>6 DEF TerminalNext

(* The inductive invariant of the screen and the line, for a screen and    *)
(* lines of any size: vga_text.c keeps the cursor within its rows.         *)
THEOREM TerminalInvariance == TerminalSpec => []TerminalIInv
  BY TerminalInitIInv, TerminalNextIInv, PTL DEF TerminalSpec

(* What is on the screen before the cursor is the line that will be run,   *)
(* over lines that wrap, scroll and are corrected (vga_text_print_         *)
(* character under shell_get_input).                                       *)
THEOREM ScreenShowsLine == TerminalSpec => []EchoMatchesInput
<1>1. TerminalIInv => EchoMatchesInput
  BY ScreenNow DEF TerminalIInv, EchoMatchesInput, Holds, Here, Count
<1> QED BY <1>1, TerminalInvariance, PTL

(* Backspace does not get into the line, nor behind its start: the         *)
(* comparison of shell_get_input with the start is enough while the cursor *)
(* is not left of its row.                                                 *)
THEOREM BackspaceStops == TerminalSpec => BackspaceStopsAtStart
<1>1. ASSUME TerminalIInv, TerminalNext, ~ odd, cursor_x >= 0 PROVE NoBackspace(input')
  <2>1. /\ Screen \in GoodScreens /\ input \in Seq(Characters)
        /\ shell_pc = "input" => NoBackspace(input) /\ FromStart
    BY <1>1 DEF TerminalIInv
  <2>2. ASSUME NEW c \in Typed, Type(c) PROVE NoBackspace(input')
    <3>1. c \in Characters /\ c # Bs
      BY TypedAssumption DEF Characters
    <3>2. input' = Append(input, c) /\ NoBackspace(input)
      BY <2>1, <2>2 DEF Type, Echo, Reading
    <3>3. /\ Len(input') = Len(input) + 1 /\ Len(input) \in Nat
          /\ \A k \in 1 .. Len(input) : input'[k] = input[k]
          /\ input'[Len(input) + 1] = c
      BY <2>1, <3>1, <3>2, AppendProperties, LenProperties
    <3>4. ASSUME NEW k \in 1 .. Len(input) + 1 PROVE input'[k] # Bs
      <4>1. CASE k = Len(input) + 1
        BY <3>1, <3>3, <4>1
      <4>2. CASE k # Len(input) + 1
        <5>1. k \in 1 .. Len(input)
          BY <3>3, <4>2
        <5> QED BY <3>2, <3>3, <5>1 DEF NoBackspace
      <4> QED BY <4>1, <4>2
    <3> QED BY <3>3, <3>4 DEF NoBackspace
  <2>3. CASE Backspace
    <3>1. CASE Len(input) > 0 /\ Becomes(print_character(Screen, Bs)) /\ input' = Front(input)
               /\ UNCHANGED <<start_x, start_y, shell_pc, odd>>
      BY <1>1, <2>3, <3>1, BackKeeps DEF Backspace, Count
    <3>2. Len(input) # 0
      <4>1. FromStart /\ ~ AtStart
        BY <2>1, <2>3 DEF Backspace, Reading
      <4>2. ASSUME Len(input) = 0 PROVE FALSE
        <5>1. cursor_x - 0 = cursor_x /\ Count = 0
          BY <2>1, <4>2, ScreenNow, CursorOnScreen DEF Count
        <5> QED BY <1>1, <4>1, <5>1 DEF FromStart, AtStart
      <4> QED BY <4>2
    <3> QED BY <2>3, <3>1, <3>2 DEF Backspace
  <2>4. CASE Enter \/ Full
    BY <2>1, <2>4 DEF Enter, Full, Reading
  <2>5. CASE Run
    <3>1. input' = <<>>
      BY <2>5 DEF Run, print_prompt
    <3> QED BY <3>1, EmptyLine
  <2> QED BY <1>1, <2>2, <2>3, <2>4, <2>5 DEF TerminalNext
<1>2. ASSUME TerminalIInv', NoBackspace(input') PROVE Bs \notin Range(input')
  <2>1. input' \in Seq(Characters)
    BY <1>2 DEF TerminalIInv
  <2>2. DOMAIN input' = 1 .. Len(input')
    BY <2>1, LenProperties
  <2> QED BY <1>2, <2>2 DEF NoBackspace, Range
<1>3. TerminalIInv /\ [TerminalNext]_terminal_vars =>
         [~ odd /\ cursor_x >= 0 => Bs \notin Range(input')]_terminal_vars
  BY <1>1, <1>2, TerminalNextIInv
<1> QED BY <1>3, TerminalInvariance, PTL DEF TerminalSpec, BackspaceStopsAtStart

-----------------------------------------------------------------------------
(* The words of a line.  CountTo counts those that start up to k.          *)
Lines == Seq(Characters)
Parsed == [args : Seq(Lines), word : Lines]
Delimiter == SHELL_COMMAND_DELIMITER

CountTo(line, k) == Cardinality({j \in Starts(line) : j <= k})
InWord(line, k) == k \in DOMAIN line /\ line[k] # Delimiter

LEMMA LineFields ==
    ASSUME NEW line \in Lines
    PROVE  /\ Len(line) \in Nat /\ DOMAIN line = 1 .. Len(line)
           /\ \A i \in 1 .. Len(line) : line[i] \in Characters
           /\ Starts(line) \subseteq 1 .. Len(line)
           /\ \A i \in Starts(line) : InWord(line, i) /\ ~ InWord(line, i - 1)
           /\ \A i \in 1 .. Len(line) :
                 InWord(line, i) /\ ~ InWord(line, i - 1) => i \in Starts(line)
<1>1. Len(line) \in Nat /\ DOMAIN line = 1 .. Len(line)
  BY LenProperties DEF Lines
<1>2. \A i \in 1 .. Len(line) : line[i] \in Characters
  BY ElementOfSeq DEF Lines
<1>3. ASSUME NEW i \in Starts(line) PROVE InWord(line, i) /\ ~ InWord(line, i - 1)
  BY <1>1, <1>3 DEF Starts, InWord, Delimiter
<1>4. ASSUME NEW i \in 1 .. Len(line), InWord(line, i), ~ InWord(line, i - 1)
      PROVE  i \in Starts(line)
  <2>1. i > 1 => i - 1 \in DOMAIN line
    BY <1>1
  <2> QED BY <1>1, <1>4, <2>1 DEF Starts, InWord, Delimiter
<1>5. Starts(line) \subseteq 1 .. Len(line)
  BY <1>1 DEF Starts
<1> QED BY <1>1, <1>2, <1>3, <1>4, <1>5

LEMMA Counting ==
    ASSUME NEW line \in Lines
    PROVE  /\ CountTo(line, 0) = 0 /\ CountTo(line, Len(line)) = Cardinality(Starts(line))
           /\ \A k \in Nat : CountTo(line, k) \in Nat
           /\ \A k \in Nat : CountTo(line, k + 1) =
                 IF k + 1 \in Starts(line) THEN CountTo(line, k) + 1 ELSE CountTo(line, k)
           /\ \A k, l \in Nat : k <= l => CountTo(line, k) <= CountTo(line, l)
<1> DEFINE S == Starts(line)
           Up(k) == {j \in S : j <= k}
           n == Len(line)
<1>1. n \in Nat /\ S \subseteq 1 .. n
  BY LineFields
<1>2. IsFiniteSet(S)
  <2>1. IsFiniteSet(1 .. n)
    BY <1>1, FS_Interval
  <2> QED BY <1>1, <2>1, FS_Subset
<1>2a. \A j \in S : j \in Nat /\ 1 <= j /\ j <= n
  BY <1>1
<1> HIDE DEF S, n
<1>3. ASSUME NEW k PROVE IsFiniteSet(Up(k)) /\ Cardinality(Up(k)) \in Nat
  <2>1. Up(k) \in SUBSET S
    OBVIOUS
  <2> QED BY <1>2, <2>1, FS_Subset, FS_CardinalityType
<1>4. Cardinality(Up(0)) = 0
  <2>1. Up(0) = {}
    BY <1>2a
  <2> QED BY <2>1, FS_EmptySet
<1>5. Up(n) = S
  BY <1>2a
<1>6. ASSUME NEW k \in Nat
      PROVE  Cardinality(Up(k + 1)) = IF k + 1 \in S THEN Cardinality(Up(k)) + 1 ELSE Cardinality(Up(k))
  <2>1. CASE k + 1 \in S
    <3>1. \A j \in S : j <= k + 1 <=> j <= k \/ j = k + 1
      BY <1>2a
    <3>2. Up(k + 1) = Up(k) \cup {k + 1}
      <4>1. ASSUME NEW j PROVE j \in Up(k + 1) <=> j \in Up(k) \cup {k + 1}
        BY <2>1, <3>1
      <4> HIDE DEF Up
      <4> QED BY <4>1
    <3>3. k + 1 \notin Up(k)
      OBVIOUS
    <3>4. IsFiniteSet(Up(k))
      BY <1>3
    <3> HIDE DEF Up
    <3> QED BY <2>1, <3>2, <3>3, <3>4, FS_AddElement
  <2>2. CASE k + 1 \notin S
    <3>1. \A j \in S : j <= k + 1 <=> j <= k
      BY <1>2a, <2>2
    <3>2. Up(k + 1) = Up(k)
      BY <3>1
    <3> QED BY <2>2, <3>2
  <2> QED BY <2>1, <2>2
<1>7. ASSUME NEW k \in Nat, NEW l \in Nat, k <= l PROVE Cardinality(Up(k)) <= Cardinality(Up(l))
  <2>1. Up(k) \in SUBSET Up(l)
    BY <1>2a, <1>7
  <2> QED BY <1>3, <2>1, FS_Subset
<1>8. \A k : CountTo(line, k) = Cardinality(Up(k))
  BY DEF CountTo, S
<1> HIDE DEF Up
<1> QED BY <1>3, <1>4, <1>5, <1>6, <1>7, <1>8 DEF S, n

(* A later word has a greater number.                                      *)
LEMMA LaterWords ==
    ASSUME NEW line \in Lines, NEW k \in Nat, NEW i \in Starts(line), k < i
    PROVE  CountTo(line, k) + 1 <= CountTo(line, i)
<1>1. i \in Nat /\ i - 1 \in Nat /\ (i - 1) + 1 = i /\ k <= i - 1
  BY LineFields
<1>2. CountTo(line, i) = CountTo(line, i - 1) + 1
  BY <1>1, Counting
<1>3. CountTo(line, k) <= CountTo(line, i - 1)
  BY <1>1, Counting
<1> QED BY <1>1, <1>2, <1>3, Counting

(* The last place of a word that is read up to e.                          *)
Capped(b, e) == IF e < b + SHELL_ARGV_MAXIMUM - 1 THEN e ELSE b + SHELL_ARGV_MAXIMUM - 2

AllWord(line, b, e) == \A j \in b .. e : line[j] # Delimiter

LEMMA WordIs ==
    ASSUME NEW line \in Lines, NEW b \in Starts(line), NEW e \in b .. Len(line),
           AllWord(line, b, e), e < Len(line) => line[e + 1] = Delimiter
    PROVE  Word(line, b) = SubSeq(line, b, Capped(b, e))
<1> DEFINE Ends(x) == /\ \A j \in b .. x : line[j] # SHELL_COMMAND_DELIMITER
                      /\ x < Len(line) => line[x + 1] = SHELL_COMMAND_DELIMITER
           end == CHOOSE x \in b .. Len(line) : Ends(x)
<1>1. Len(line) \in Nat /\ b \in 1 .. Len(line) /\ e \in 1 .. Len(line)
  BY LineFields
<1>2. Ends(e)
  BY DEF AllWord, Delimiter
<1>3. ASSUME NEW x \in b .. Len(line), Ends(x) PROVE x = e
  <2>1. CASE x < e
    <3>1. x + 1 \in b .. e /\ x < Len(line)
      BY <1>1, <2>1
    <3> QED BY <1>2, <1>3, <3>1
  <2>2. CASE e < x
    <3>1. e + 1 \in b .. x /\ e < Len(line)
      BY <1>1, <2>2
    <3> QED BY <1>2, <1>3, <3>1
  <2> QED BY <1>1, <2>1, <2>2
<1>4. end \in b .. Len(line) /\ Ends(end)
  BY <1>2
<1>5. end = e
  BY <1>3, <1>4
<1>6. Word(line, b) = SubSeq(line, b, IF end < b + SHELL_ARGV_MAXIMUM - 1 THEN end
                                      ELSE b + SHELL_ARGV_MAXIMUM - 2)
  BY DEF Word
<1> HIDE DEF end
<1> QED BY <1>5, <1>6 DEF Capped

-----------------------------------------------------------------------------
(* What is known after k characters.                                       *)
Stored(line, k, args) ==
    \A i \in Starts(line) : i <= k =>
        CountTo(line, i) \in 1 .. Len(args) /\ args[CountTo(line, i)] = Word(line, i)

Between(line, k, a) ==
    /\ a.word = <<>> /\ Len(a.args) = CountTo(line, k)
    /\ Stored(line, k, a.args)

Within(line, k, a, b) ==
    /\ b <= k /\ AllWord(line, b, k)
    /\ a.word = SubSeq(line, b, Capped(b, k))
    /\ CountTo(line, k) = Len(a.args) + 1 /\ CountTo(line, b) = CountTo(line, k)
    /\ Stored(line, b - 1, a.args)

Complete(line, a) ==
    /\ a.word = <<>> /\ CountTo(line, Len(line)) >= SHELL_ARGC_MAXIMUM
    /\ \A i \in Starts(line) : CountTo(line, i) <= SHELL_ARGC_MAXIMUM =>
          a.args[CountTo(line, i)] = Word(line, i)

ReadTo(line, k, a) ==
    /\ a \in Parsed
    /\ IF Len(a.args) = SHELL_ARGC_MAXIMUM THEN Complete(line, a)
       ELSE /\ Len(a.args) < SHELL_ARGC_MAXIMUM
            /\ IF InWord(line, k) THEN \E b \in Starts(line) : Within(line, k, a, b)
               ELSE Between(line, k, a)

LEMMA ParsedFields ==
    ASSUME NEW a \in Parsed
    PROVE  /\ a.args \in Seq(Lines) /\ a.word \in Lines /\ Len(a.args) \in Nat /\ Len(a.word) \in Nat
           /\ a.word = <<>> <=> Len(a.word) = 0
<1>1. a.args \in Seq(Lines) /\ a.word \in Lines
  BY DEF Parsed
<1>2. Len(a.args) \in Nat
  BY <1>1, LenProperties
<1>3. Len(a.word) \in Nat /\ (a.word = <<>> <=> Len(a.word) = 0)
  BY <1>1, LenProperties, EmptySeq DEF Lines
<1> QED BY <1>1, <1>2, <1>3

LEMMA LineSizes ==
    /\ SHELL_ARGC_MAXIMUM \in Nat \ {0} /\ SHELL_ARGV_MAXIMUM \in Nat \ {0, 1}
  BY LineAssumption

(* A piece of a line.                                                      *)
LEMMA PieceIs ==
    ASSUME NEW line \in Lines, NEW b \in 1 .. Len(line), NEW e \in b .. Len(line)
    PROVE  LET w == SubSeq(line, b, e)
           IN  /\ w \in Lines /\ Len(w) = e - b + 1
               /\ \A j \in 1 .. e - b + 1 : w[j] = line[b + j - 1]
<1>1. b \in Int /\ e \in Int /\ b <= e
  BY LineFields
<1>2. \A i \in b .. e : line[i] \in Characters
  BY LineFields
<1> QED BY <1>1, <1>2, SubSeqProperties DEF Lines

(* One character more.                                                     *)
LEMMA LongerPiece ==
    ASSUME NEW line \in Lines, NEW b \in 1 .. Len(line), NEW e \in b .. Len(line), e + 1 <= Len(line)
    PROVE  Append(SubSeq(line, b, e), line[e + 1]) = SubSeq(line, b, e + 1)
<1> DEFINE v == SubSeq(line, b, e)
           c == line[e + 1]
           u == Append(v, c)
           w == SubSeq(line, b, e + 1)
<1>1. Len(line) \in Nat /\ e + 1 \in 1 .. Len(line) /\ e + 1 \in b .. Len(line) /\ e \in Nat /\ b \in Nat
  BY LineFields
<1>2. v \in Lines /\ Len(v) = e - b + 1 /\ \A j \in 1 .. e - b + 1 : v[j] = line[b + j - 1]
  BY PieceIs
<1>3. /\ w \in Lines /\ Len(w) = (e + 1) - b + 1
      /\ \A j \in 1 .. (e + 1) - b + 1 : w[j] = line[b + j - 1]
  BY <1>1, PieceIs
<1>4. c \in Characters
  BY <1>1, LineFields
<1> HIDE DEF v, c, w
<1>5. /\ u \in Lines /\ Len(u) = Len(v) + 1 /\ \A j \in 1 .. Len(v) : u[j] = v[j]
      /\ u[Len(v) + 1] = c
  <2>1. v \in Seq(Characters)
    BY <1>2 DEF Lines
  <2> QED BY <2>1, <1>4, AppendProperties DEF Lines
<1> HIDE DEF u
<1>6. ASSUME NEW j \in 1 .. Len(u) PROVE u[j] = w[j]
  <2>1. CASE j = e - b + 2
    <3>1. b + j - 1 = e + 1 /\ j \in 1 .. (e + 1) - b + 1 /\ j = Len(v) + 1
      BY <1>1, <1>2, <2>1
    <3> QED BY <1>3, <1>5, <3>1 DEF c
  <2>2. CASE j # e - b + 2
    <3>1. j \in 1 .. Len(v) /\ j \in 1 .. e - b + 1 /\ j \in 1 .. (e + 1) - b + 1
      BY <1>1, <1>2, <1>5, <2>2
    <3> QED BY <1>2, <1>3, <1>5, <3>1
  <2> QED BY <2>1, <2>2
<1>7. Len(u) = Len(w)
  BY <1>1, <1>2, <1>3, <1>5
<1>8. u = w
  BY <1>3, <1>5, <1>6, <1>7, SeqEqual DEF Lines
<1> QED BY <1>8 DEF u, v, w, c

LEMMA CappedBounds ==
    ASSUME NEW b \in Nat, NEW e \in Nat, b <= e
    PROVE  /\ Capped(b, e) \in b .. e
           /\ Capped(b, e) - b + 1 < SHELL_ARGV_MAXIMUM - 1 =>
                 Capped(b, e) = e /\ Capped(b, e + 1) = e + 1
           /\ ~ (Capped(b, e) - b + 1 < SHELL_ARGV_MAXIMUM - 1) =>
                 Capped(b, e + 1) = Capped(b, e)
  BY LineSizes DEF Capped

LEMMA LetterTyped ==
    ASSUME NEW a \in Parsed, NEW c \in Characters
    PROVE  Letter(a, c) \in Parsed
<1>1. a.args \in Seq(Lines) /\ a.word \in Lines
  BY ParsedFields
<1>2. Append(a.args, a.word) \in Seq(Lines)
  BY <1>1, AppendProperties
<1>3. Append(a.word, c) \in Lines /\ <<>> \in Lines
  BY <1>1, AppendProperties, EmptySeq DEF Lines
<1> DEFINE args == Append(a.args, a.word)
           word == Append(a.word, c)
<1>4. Letter(a, c) \in {a, [args |-> args, word |-> <<>>], [a EXCEPT !.word = word]}
  BY DEF Letter
<1> HIDE DEF args, word
<1>5. [args |-> args, word |-> <<>>] \in Parsed
  BY <1>2, <1>3 DEF Parsed, args
<1>6. [a EXCEPT !.word = word] \in Parsed
  BY <1>3 DEF Parsed, word
<1> QED BY <1>4, <1>5, <1>6

LEMMA AnyRead ==
    ASSUME NEW line, NEW k, NEW a \in Parsed,
           \/ Len(a.args) = SHELL_ARGC_MAXIMUM /\ Complete(line, a)
           \/ /\ Len(a.args) # SHELL_ARGC_MAXIMUM /\ Len(a.args) < SHELL_ARGC_MAXIMUM
              /\ \/ InWord(line, k) /\ \E b \in Starts(line) : Within(line, k, a, b)
                 \/ ~ InWord(line, k) /\ Between(line, k, a)
    PROVE  ReadTo(line, k, a)
  BY DEF ReadTo

(* One character more keeps what is known.                                 *)
LEMMA LetterReads ==
    ASSUME NEW line \in Lines, NEW k \in Nat, k + 1 <= Len(line), NEW a, ReadTo(line, k, a)
    PROVE  ReadTo(line, k + 1, Letter(a, line[k + 1]))
<1> DEFINE c == line[k + 1]
           t == Letter(a, c)
<1> HIDE DEF t
<1> SUFFICES ReadTo(line, k + 1, t)
  BY DEF t
<1>1. /\ Len(line) \in Nat /\ k + 1 \in 1 .. Len(line) /\ c \in Characters
      /\ (k + 1) - 1 = k /\ k + 1 \in Nat
  BY LineFields
<1>2. /\ a \in Parsed
      /\ a.args \in Seq(Lines) /\ a.word \in Lines /\ Len(a.args) \in Nat /\ Len(a.word) \in Nat
      /\ a.word = <<>> <=> Len(a.word) = 0
  BY ParsedFields DEF ReadTo
<1>3. t \in Parsed
  BY <1>1, <1>2, LetterTyped DEF t
<1>4. InWord(line, k + 1) <=> c # Delimiter
  BY <1>1, LineFields DEF InWord
<1>5. k + 1 \in Starts(line) <=> c # Delimiter /\ ~ InWord(line, k)
  BY <1>1, <1>4, LineFields
<1>6. /\ CountTo(line, k) \in Nat /\ CountTo(line, k + 1) \in Nat
      /\ CountTo(line, k + 1) = IF k + 1 \in Starts(line) THEN CountTo(line, k) + 1
                                ELSE CountTo(line, k)
  BY <1>1, Counting
<1>7. CASE Len(a.args) = SHELL_ARGC_MAXIMUM
  <2>1. t = a
    BY <1>7 DEF t, Letter
  <2> QED BY <1>7, <2>1 DEF ReadTo
<1>8. CASE Len(a.args) # SHELL_ARGC_MAXIMUM /\ ~ InWord(line, k) /\ c = Delimiter
  <2>1. Between(line, k, a) /\ Len(a.args) < SHELL_ARGC_MAXIMUM
    BY <1>8 DEF ReadTo
  <2>2. t = a
    BY <1>8, <2>1 DEF t, Letter, Delimiter, Between
  <2>3. k + 1 \notin Starts(line) /\ ~ InWord(line, k + 1)
    BY <1>4, <1>5, <1>8
  <2>4. Stored(line, k + 1, a.args)
    <3>1. ASSUME NEW i \in Starts(line), i <= k + 1 PROVE i <= k
      BY <2>3, <3>1, LineFields
    <3> QED BY <2>1, <3>1 DEF Between, Stored
  <2> QED BY <1>2, <1>6, <1>8, <2>1, <2>2, <2>3, <2>4 DEF ReadTo, Between
<1>9. CASE Len(a.args) # SHELL_ARGC_MAXIMUM /\ ~ InWord(line, k) /\ c # Delimiter
  <2>1. Between(line, k, a) /\ Len(a.args) < SHELL_ARGC_MAXIMUM
    BY <1>9 DEF ReadTo
  <2>2. Len(a.word) = 0 /\ a.word = <<>>
    BY <1>2, <2>1 DEF Between
  <2>3. t = [a EXCEPT !.word = Append(<<>>, c)]
    BY <1>9, <2>2, LineSizes DEF t, Letter, Delimiter
  <2>4. t.args = a.args /\ t.word = Append(<<>>, c)
    BY <1>2, <2>3 DEF Parsed
  <2>5. k + 1 \in Starts(line) /\ InWord(line, k + 1)
    BY <1>4, <1>5, <1>9
  <2>6. Capped(k + 1, k + 1) = k + 1
    BY <1>1, LineSizes DEF Capped
  <2>7. t.word = SubSeq(line, k + 1, k + 1)
    <3> DEFINE w == SubSeq(line, k + 1, k + 1)
               u == Append(<<>>, c)
    <3>1. w \in Lines /\ Len(w) = (k + 1) - (k + 1) + 1
          /\ \A j \in 1 .. (k + 1) - (k + 1) + 1 : w[j] = line[(k + 1) + j - 1]
      BY <1>1, PieceIs
    <3>2. u \in Lines /\ Len(u) = 1 /\ u[1] = c
      <4>1. <<>> \in Seq(Characters) /\ Len(<<>>) = 0
        BY EmptySeq
      <4>2. /\ u \in Seq(Characters) /\ Len(u) = Len(<<>>) + 1
            /\ u[Len(<<>>) + 1] = c
        BY <1>1, <4>1, AppendProperties
      <4> HIDE DEF u
      <4> QED BY <4>1, <4>2 DEF Lines
    <3> HIDE DEF w, u
    <3>3. Len(w) = 1 /\ w[1] = c
      BY <1>1, <3>1
    <3>4. u = w
      BY <3>1, <3>2, <3>3, SeqEqual DEF Lines
    <3> QED BY <2>4, <3>4 DEF u, w
  <2>8. AllWord(line, k + 1, k + 1)
    BY <1>1, <1>9 DEF AllWord
  <2>9. Stored(line, (k + 1) - 1, t.args)
    BY <1>1, <2>1, <2>4 DEF Between
  <2>10. CountTo(line, k + 1) = Len(t.args) + 1
    BY <1>6, <2>1, <2>4, <2>5 DEF Between
  <2>11. Within(line, k + 1, t, k + 1)
    BY <1>1, <2>6, <2>7, <2>8, <2>9, <2>10 DEF Within
  <2>12. Len(t.args) < SHELL_ARGC_MAXIMUM /\ Len(t.args) # SHELL_ARGC_MAXIMUM
    BY <1>9, <2>1, <2>4
  <2> QED BY <1>3, <2>5, <2>11, <2>12, AnyRead
<1>10. CASE Len(a.args) # SHELL_ARGC_MAXIMUM /\ InWord(line, k)
  <2>1. PICK b \in Starts(line) : Within(line, k, a, b)
    BY <1>10 DEF ReadTo
  <2>2. Len(a.args) < SHELL_ARGC_MAXIMUM
    BY <1>10 DEF ReadTo
  <2>3. /\ b \in Nat /\ b >= 1 /\ b <= k /\ AllWord(line, b, k) /\ k \in b .. Len(line)
        /\ CountTo(line, k) = Len(a.args) + 1 /\ CountTo(line, b) = CountTo(line, k)
        /\ Stored(line, b - 1, a.args) /\ a.word = SubSeq(line, b, Capped(b, k))
        /\ b \in 1 .. Len(line)
    BY <1>1, <2>1, LineFields DEF Within
  <2>4. Capped(b, k) \in b .. k /\ Capped(b, k) \in b .. Len(line)
    <3>1. Capped(b, k) \in b .. k
      BY <2>3, CappedBounds
    <3> QED BY <1>1, <2>3, <3>1
  <2>5. Len(a.word) = Capped(b, k) - b + 1 /\ a.word # <<>>
    <3>1. Len(a.word) = Capped(b, k) - b + 1
      BY <2>3, <2>4, PieceIs
    <3> QED BY <1>2, <2>3, <2>4, <3>1
  <2>6. k + 1 \notin Starts(line) /\ CountTo(line, k + 1) = CountTo(line, k)
    BY <1>5, <1>6, <1>10
  <2>7. CASE c = Delimiter
    <3>1. t = [args |-> Append(a.args, a.word), word |-> <<>>]
      BY <1>10, <2>5, <2>7 DEF t, Letter, Delimiter
    <3>2. t.args = Append(a.args, a.word) /\ t.word = <<>>
      BY <3>1
    <3>3. /\ Len(t.args) = Len(a.args) + 1 /\ t.args[Len(a.args) + 1] = a.word
          /\ \A i \in 1 .. Len(a.args) : t.args[i] = a.args[i]
      BY <1>2, <3>2, AppendProperties
    <3>4. a.word = Word(line, b)
      BY <2>3, <2>7, WordIs
    <3>5. ASSUME NEW i \in Starts(line), i <= k + 1
          PROVE  CountTo(line, i) \in 1 .. Len(t.args) /\ t.args[CountTo(line, i)] = Word(line, i)
      <4>1. i \in Nat /\ i <= k
        BY <2>6, <3>5, LineFields
      <4>2. CASE i < b
        <5>1. i <= b - 1
          BY <2>3, <4>1, <4>2
        <5>2. CountTo(line, i) \in 1 .. Len(a.args) /\ a.args[CountTo(line, i)] = Word(line, i)
          BY <2>3, <5>1 DEF Stored
        <5>3. CountTo(line, i) \in 1 .. Len(t.args)
          BY <1>2, <3>3, <5>2
        <5> QED BY <3>3, <5>2, <5>3
      <4>3. CASE i = b
        <5>1. CountTo(line, i) = Len(a.args) + 1 /\ Len(a.args) + 1 \in 1 .. Len(t.args)
          BY <1>2, <2>3, <3>3, <4>3
        <5> QED BY <3>3, <3>4, <4>3, <5>1
      <4>4. CASE i > b
        <5>1. CountTo(line, b) + 1 <= CountTo(line, i) /\ CountTo(line, i) <= CountTo(line, k)
          BY <2>3, <4>1, <4>4, LaterWords, Counting
        <5>2. CountTo(line, i) \in Nat
          BY <4>1, Counting
        <5> QED BY <1>6, <2>3, <5>1, <5>2
      <4> QED BY <2>3, <4>1, <4>2, <4>3, <4>4
    <3>6. Stored(line, k + 1, t.args)
      BY <3>5 DEF Stored
    <3>7. ~ InWord(line, k + 1)
      BY <1>4, <2>7
    <3>8. Between(line, k + 1, t)
      BY <2>3, <2>6, <3>2, <3>3, <3>6 DEF Between
    <3>9. CASE Len(t.args) = SHELL_ARGC_MAXIMUM
      <4>1. CountTo(line, k + 1) = SHELL_ARGC_MAXIMUM
        BY <3>8, <3>9 DEF Between
      <4>2. CountTo(line, Len(line)) >= SHELL_ARGC_MAXIMUM
        <5>1. CountTo(line, k + 1) <= CountTo(line, Len(line)) /\ CountTo(line, Len(line)) \in Nat
          BY <1>1, Counting
        <5> QED BY <1>6, <4>1, <5>1, LineSizes
      <4>3. ASSUME NEW i \in Starts(line), CountTo(line, i) <= SHELL_ARGC_MAXIMUM
            PROVE  t.args[CountTo(line, i)] = Word(line, i)
        <5>1. CASE i <= k + 1
          BY <3>6, <5>1 DEF Stored
        <5>2. CASE ~ (i <= k + 1)
          <6>1. i \in Nat /\ k + 1 < i
            BY <1>1, <5>2, LineFields
          <6>2. CountTo(line, k + 1) + 1 <= CountTo(line, i) /\ CountTo(line, i) \in Nat
            BY <1>1, <6>1, LaterWords, Counting
          <6> QED BY <4>1, <4>3, <6>2, LineSizes
        <5> QED BY <5>1, <5>2
      <4>4. Complete(line, t)
        BY <3>2, <4>2, <4>3 DEF Complete
      <4> QED BY <1>3, <3>9, <4>4, AnyRead
    <3>10. CASE Len(t.args) # SHELL_ARGC_MAXIMUM
      <4>1. Len(t.args) < SHELL_ARGC_MAXIMUM
        BY <1>2, <2>2, <3>3, <3>10, LineSizes
      <4> QED BY <1>3, <3>7, <3>8, <3>10, <4>1, AnyRead
    <3> QED BY <3>9, <3>10
  <2>8. CASE c # Delimiter
    <3>1. t = IF Len(a.word) < SHELL_ARGV_MAXIMUM - 1
              THEN [a EXCEPT !.word = Append(@, c)] ELSE a
      BY <1>10, <2>8 DEF t, Letter, Delimiter
    <3>2. t.args = a.args /\ t.word = SubSeq(line, b, Capped(b, k + 1))
      <4>1. CASE Len(a.word) < SHELL_ARGV_MAXIMUM - 1
        <5>1. Capped(b, k) = k /\ Capped(b, k + 1) = k + 1
          BY <2>3, <2>5, <4>1, CappedBounds
        <5>2. Append(SubSeq(line, b, k), line[k + 1]) = SubSeq(line, b, k + 1)
          BY <1>1, <2>3, LongerPiece
        <5> DEFINE word == Append(a.word, c)
        <5>3. t = [a EXCEPT !.word = word]
          BY <3>1, <4>1
        <5>4. word = SubSeq(line, b, Capped(b, k + 1))
          BY <2>3, <5>1, <5>2
        <5> HIDE DEF word
        <5>5. t.args = a.args /\ t.word = word
          BY <1>2, <5>3 DEF Parsed
        <5> QED BY <5>4, <5>5
      <4>2. CASE ~ (Len(a.word) < SHELL_ARGV_MAXIMUM - 1)
        <5>1. Capped(b, k + 1) = Capped(b, k)
          BY <2>3, <2>5, <4>2, CappedBounds
        <5> QED BY <2>3, <3>1, <4>2, <5>1
      <4> QED BY <4>1, <4>2
    <3>3. AllWord(line, b, k + 1)
      <4>1. ASSUME NEW j \in b .. k + 1 PROVE line[j] # Delimiter
        <5>1. CASE j = k + 1
          BY <2>8, <5>1
        <5>2. CASE j # k + 1
          <6>1. j \in b .. k
            BY <1>1, <2>3, <5>2
          <6> QED BY <2>3, <6>1 DEF AllWord
        <5> QED BY <5>1, <5>2
      <4> QED BY <4>1 DEF AllWord
    <3>4. Within(line, k + 1, t, b)
      BY <1>1, <2>3, <2>6, <3>2, <3>3 DEF Within
    <3>5. InWord(line, k + 1)
      BY <1>4, <2>8
    <3>6. Len(t.args) < SHELL_ARGC_MAXIMUM /\ Len(t.args) # SHELL_ARGC_MAXIMUM
      BY <1>10, <2>2, <3>2
    <3> QED BY <1>3, <3>4, <3>5, <3>6, AnyRead
  <2> QED BY <2>7, <2>8
<1> QED BY <1>7, <1>8, <1>9, <1>10

(* parse reads the whole line.                                             *)
LEMMA ParseReads ==
    ASSUME NEW line \in Lines
    PROVE  \E a : /\ ReadTo(line, Len(line), a)
                  /\ parse(line) = IF a.word = <<>> THEN a.args ELSE Append(a.args, a.word)
<1> DEFINE n == Len(line)
           none == [args |-> <<>>, word |-> <<>>]
           Steps(t) == t = [k \in 0 .. n |-> IF k = 0 THEN none ELSE Letter(t[k - 1], line[k])]
           F == [k \in Nat |-> [x \in Parsed |->
                    IF k + 1 \in 1 .. n THEN Letter(x, line[k + 1]) ELSE x]]
           c == CHOOSE t : Steps(t)
<1>1. parse(line) = IF c[n].word = <<>> THEN c[n].args ELSE Append(c[n].args, c[n].word)
  BY DEF parse
<1> HIDE DEF c
<1>2. n \in Nat /\ \A k \in 1 .. n : line[k] \in Characters
  BY LineFields
<1> HIDE DEF n, none
<1>3. none \in Parsed /\ Len(none.args) = 0 /\ none.word = <<>> /\ none.args = <<>>
  <2>1. <<>> \in Seq(Lines) /\ <<>> \in Lines /\ Len(<<>>) = 0
    BY EmptySeq DEF Lines
  <2> QED BY <2>1 DEF Parsed, none
<1>4. ASSUME NEW x \in Parsed, NEW k \in 1 .. n PROVE Letter(x, line[k]) \in Parsed
  BY <1>2, LetterTyped
<1>5. F \in [Nat -> [Parsed -> Parsed]]
  BY <1>4
<1>6. PICK t \in [0 .. n -> Parsed] : Iterates(t, none, F, n)
  <2>1. none \in Parsed /\ n \in Nat
    BY <1>2, <1>3
  <2> HIDE DEF F
  <2> QED BY <2>1, <1>5, RecursionUpTo
<1>7. Steps(t)
  <2>1. ASSUME NEW k \in 0 .. n
        PROVE  t[k] = IF k = 0 THEN none ELSE Letter(t[k - 1], line[k])
    <3>1. t[k] = IF k = 0 THEN none ELSE F[k - 1][t[k - 1]]
      BY <1>6 DEF Iterates
    <3>2. CASE k # 0
      <4>1. k - 1 \in Nat /\ t[k - 1] \in Parsed /\ (k - 1) + 1 = k /\ k \in 1 .. n
        BY <1>2, <3>2
      <4> QED BY <3>1, <3>2, <4>1
    <3> QED BY <3>1, <3>2
  <2>2. t = [k \in 0 .. n |-> t[k]]
    OBVIOUS
  <2> QED BY <2>1, <2>2
<1>8. Steps(c)
  BY <1>7 DEF c
<1>9. \A k \in 0 .. n : c[k] = IF k = 0 THEN none ELSE Letter(c[k - 1], line[k])
  BY <1>8
<1> HIDE DEF Steps, F
<1> DEFINE T == {k \in 0 .. n : ReadTo(line, k, c[k])}
<1>10. 0 \in T
  <2>1. 0 \in 0 .. n /\ c[0] = none
    BY <1>2, <1>9
  <2>2. ~ InWord(line, 0)
    BY LineFields DEF InWord
  <2>3. Stored(line, 0, none.args)
    BY LineFields DEF Stored
  <2>4. Between(line, 0, none)
    BY <1>3, <2>3, Counting DEF Between
  <2>5. Len(none.args) < SHELL_ARGC_MAXIMUM /\ Len(none.args) # SHELL_ARGC_MAXIMUM
    BY <1>3, LineSizes
  <2>6. ReadTo(line, 0, none)
    BY <1>3, <2>2, <2>4, <2>5, AnyRead
  <2> QED BY <2>1, <2>6
<1>11. ASSUME NEW k \in 0 .. n - 1, k \in T PROVE k + 1 \in T
  <2>1. /\ k + 1 \in 0 .. n /\ k + 1 \in 1 .. n /\ k + 1 # 0 /\ (k + 1) - 1 = k
        /\ k \in Nat /\ k + 1 <= Len(line)
    BY <1>2 DEF n
  <2>2. c[k + 1] = Letter(c[k], line[k + 1])
    BY <1>9, <2>1
  <2>3. ReadTo(line, k + 1, Letter(c[k], line[k + 1]))
    BY <1>11, <2>1, LetterReads
  <2> QED BY <2>1, <2>2, <2>3
<1>12. \A k \in 0 .. n : k \in T
  <2> HIDE DEF T
  <2> QED BY <1>2, <1>10, <1>11, UpTo
<1>13. ReadTo(line, n, c[n])
  <2>1. n \in 0 .. n
    BY <1>2
  <2> QED BY <1>12, <2>1
<1> QED BY <1>1, <1>13 DEF n

LEMMA MinOfTwo ==
    ASSUME NEW x \in Nat, NEW y \in Nat
    PROVE  Min({x, y}) = IF x <= y THEN x ELSE y
<1> DEFINE m == IF x <= y THEN x ELSE y
<1>1. m \in {x, y} /\ \A z \in {x, y} : m <= z
  OBVIOUS
<1>2. ASSUME NEW z \in {x, y}, \A w \in {x, y} : z =< w PROVE z = m
  BY <1>2
<1> QED BY <1>1, <1>2 DEF Min

(* The words of the line, in their order, and no more than there are       *)
(* places for.                                                             *)
LEMMA ParsedWords ==
    ASSUME NEW line \in Lines
    PROVE  /\ Len(parse(line)) = Min({Cardinality(Starts(line)), SHELL_ARGC_MAXIMUM})
           /\ \A i \in Starts(line) :
                 CountTo(line, i) <= SHELL_ARGC_MAXIMUM =>
                    parse(line)[CountTo(line, i)] = Word(line, i)
<1> DEFINE n == Len(line)
           m == Cardinality(Starts(line))
<1>1. PICK a : /\ ReadTo(line, n, a)
               /\ parse(line) = IF a.word = <<>> THEN a.args ELSE Append(a.args, a.word)
  BY ParseReads
<1>2. n \in Nat /\ CountTo(line, n) = m /\ m \in Nat
  BY LineFields, Counting
<1>3. ASSUME NEW i \in Starts(line)
      PROVE  /\ i \in Nat /\ i <= n /\ CountTo(line, i) \in Nat /\ CountTo(line, i) <= m
             /\ i - 1 \in Nat
  <2>1. i \in Nat /\ i <= n /\ i - 1 \in Nat
    BY LineFields
  <2> QED BY <1>2, <2>1, Counting
<1>4. Min({m, SHELL_ARGC_MAXIMUM}) = IF m <= SHELL_ARGC_MAXIMUM THEN m ELSE SHELL_ARGC_MAXIMUM
  BY <1>2, LineSizes, MinOfTwo
<1>5. /\ a.args \in Seq(Lines) /\ a.word \in Lines /\ Len(a.args) \in Nat
      /\ a.word = <<>> <=> Len(a.word) = 0
  BY <1>1, ParsedFields DEF ReadTo
<1>6. CASE Len(a.args) = SHELL_ARGC_MAXIMUM
  <2>1. Complete(line, a)
    BY <1>1, <1>6 DEF ReadTo
  <2>2. parse(line) = a.args /\ m >= SHELL_ARGC_MAXIMUM
    BY <1>1, <1>2, <2>1 DEF Complete
  <2>3. Min({m, SHELL_ARGC_MAXIMUM}) = SHELL_ARGC_MAXIMUM
    BY <1>2, <1>4, <2>2, LineSizes
  <2> QED BY <1>6, <2>1, <2>2, <2>3 DEF Complete
<1>7. CASE Len(a.args) # SHELL_ARGC_MAXIMUM /\ ~ InWord(line, n)
  <2>1. Between(line, n, a) /\ Len(a.args) < SHELL_ARGC_MAXIMUM
    BY <1>1, <1>7 DEF ReadTo
  <2>2. parse(line) = a.args /\ Len(a.args) = m /\ Stored(line, n, a.args)
    BY <1>1, <1>2, <2>1 DEF Between
  <2>3. Min({m, SHELL_ARGC_MAXIMUM}) = m
    BY <1>2, <1>4, <2>1, <2>2, LineSizes
  <2>4. \A i \in Starts(line) : parse(line)[CountTo(line, i)] = Word(line, i)
    BY <1>3, <2>2 DEF Stored
  <2> QED BY <2>2, <2>3, <2>4
<1>8. CASE Len(a.args) # SHELL_ARGC_MAXIMUM /\ InWord(line, n)
  <2>1. Len(a.args) < SHELL_ARGC_MAXIMUM /\ \E b \in Starts(line) : Within(line, n, a, b)
    BY <1>1, <1>8 DEF ReadTo
  <2>2. PICK b \in Starts(line) : Within(line, n, a, b)
    BY <2>1
  <2>3. /\ b \in 1 .. Len(line) /\ b \in Nat /\ b <= n /\ AllWord(line, b, n) /\ n \in b .. Len(line)
        /\ a.word = SubSeq(line, b, Capped(b, n)) /\ m = Len(a.args) + 1
        /\ CountTo(line, b) = m /\ Stored(line, b - 1, a.args)
    BY <1>2, <2>2, LineFields DEF Within
  <2>4. a.word = Word(line, b)
    <3>1. ~ (n < Len(line))
      BY <1>2
    <3> QED BY <2>3, <3>1, WordIs
  <2>5. a.word # <<>>
    <3>1. Capped(b, n) \in b .. n
      BY <1>2, <2>3, CappedBounds
    <3>2. Capped(b, n) \in b .. Len(line) /\ Capped(b, n) - b + 1 # 0
      BY <1>2, <2>3, <3>1
    <3>3. Len(a.word) = Capped(b, n) - b + 1
      BY <2>3, <3>2, PieceIs
    <3> QED BY <1>5, <3>2, <3>3
  <2>6. /\ Len(parse(line)) = Len(a.args) + 1 /\ parse(line)[Len(a.args) + 1] = a.word
        /\ \A i \in 1 .. Len(a.args) : parse(line)[i] = a.args[i]
    <3>1. parse(line) = Append(a.args, a.word)
      BY <1>1, <2>5
    <3> QED BY <1>5, <3>1, AppendProperties
  <2>7. Min({m, SHELL_ARGC_MAXIMUM}) = m
    BY <1>2, <1>4, <1>5, <2>1, <2>3, LineSizes
  <2>8. ASSUME NEW i \in Starts(line) PROVE parse(line)[CountTo(line, i)] = Word(line, i)
    <3>1. CASE i < b
      <4>1. i <= b - 1
        BY <1>3, <2>3, <3>1
      <4>2. CountTo(line, i) \in 1 .. Len(a.args) /\ a.args[CountTo(line, i)] = Word(line, i)
        BY <2>3, <4>1 DEF Stored
      <4> QED BY <2>6, <4>2
    <3>2. CASE i = b
      BY <2>3, <2>4, <2>6, <3>2
    <3>3. CASE b < i
      <4>1. CountTo(line, b) + 1 <= CountTo(line, i)
        BY <2>3, <3>3, LaterWords
      <4> QED BY <1>2, <1>3, <2>3, <4>1
    <3> QED BY <1>3, <2>3, <3>1, <3>2, <3>3
  <2> QED BY <2>3, <2>6, <2>7, <2>8
<1> QED BY <1>6, <1>7, <1>8

(* A command is called with the words of the line, in their order, the     *)
(* first ones if there are more than places (shell_input_parse).           *)
THEOREM ArgumentsAreWords == TerminalSpec => []ParsedAsWords
<1>1. TerminalIInv => ParsedAsWords
  <2>1. SUFFICES ASSUME TerminalIInv PROVE ParsedAsWords
    OBVIOUS
  <2>2. input \in Lines
    BY <2>1 DEF TerminalIInv, Lines
  <2> QED BY <2>2, ParsedWords DEF ParsedAsWords, CountTo
<1> QED BY <1>1, TerminalInvariance, PTL

=============================================================================

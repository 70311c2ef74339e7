------------------------------ MODULE Keyboard ------------------------------
(***************************************************************************)
(* The keyboard driver, src/os/drivers/keyboard.c: the decoder of scan     *)
(* codes that runs in the interrupt handler and the ring buffer it shares  *)
(* with the polling reader (shell_get_input, the editor).                  *)
(*                                                                         *)
(* The handler runs with interrupts off and is one step.  The reader is    *)
(* compiled without optimisation and runs with interrupts on, so each load *)
(* and store of head, tail and the slot is a step of its own.              *)
(*                                                                         *)
(* The keyboard itself is part of the model: which keys are held, and the  *)
(* bytes it has sent that no interrupt has taken yet.                      *)
(***************************************************************************)
EXTENDS Naturals, Sequences, SequencesExt

CONSTANTS
    KEYBOARD_BUFFER_SIZE,
    Keys,             \* the physical keys: records [base, ext]
    Letters,          \* bases in the letter and the digit lists
    Controls,         \* bases in the control list: enter, backspace, ...
    Arrows,           \* bases that send SET and UNSET codes: arrows, ctrl, alt
    Shifts,           \* bases of the two shift keys
    CapsLock,         \* the base of caps lock
    MaxCodes          \* bound: no key moves once so many codes were written

VARIABLES
    head, tail, slots,            \* keyboard_buffer_head, _tail, keyboard_buffer
    extended, shift_down, caps_lock,
    down,                         \* the arrow, ctrl and alt flags that are set
    pc, reg,                      \* the reader: where it is, what it loaded
    held, wire,                   \* the keyboard: keys held, bytes on their way
    written, taken, overflowed    \* history

decoder == <<extended, shift_down, caps_lock, down>>
ring == <<head, tail, slots>>
reader == <<pc, reg>>
vars == <<ring, decoder, reader, held, wire, written, taken, overflowed>>

ASSUME SizeAssumption == KEYBOARD_BUFFER_SIZE \in Nat \ {0, 1}

Codes == [key : Letters \cup Controls \cup Arrows, upper : BOOLEAN]
Blank == [key |-> "none", upper |-> FALSE]      \* a slot never written

E0 == [base |-> "E0", brk |-> FALSE]

(* The prefix is no key, and nothing types the code of an unwritten slot.  *)
ASSUME KeysAssumption ==
    /\ \A k \in Keys : k.ext \in BOOLEAN /\ k.base # E0.base
    /\ Blank.key \notin Letters \cup Controls \cup Arrows

Bytes(k, brk) == (IF k.ext THEN <<E0>> ELSE <<>>) \o <<[base |-> k.base, brk |-> brk]>>

-----------------------------------------------------------------------------
Init ==
    /\ head = 0 /\ tail = 0
    /\ slots = [i \in 0 .. KEYBOARD_BUFFER_SIZE - 1 |-> Blank]
    /\ extended = FALSE /\ shift_down = FALSE /\ caps_lock = FALSE
    /\ down = {}
    /\ pc = "poll" /\ reg = 0
    /\ held = {} /\ wire = <<>>
    /\ written = <<>> /\ taken = <<>> /\ overflowed = FALSE

-----------------------------------------------------------------------------
(* The keyboard: a key goes down (again, when it repeats) or up.           *)
Press(k) ==
    /\ wire = <<>> /\ Len(written) < MaxCodes
    /\ held' = held \cup {k}
    /\ wire' = Bytes(k, FALSE)
    /\ UNCHANGED <<ring, decoder, reader, written, taken, overflowed>>

Release(k) ==
    /\ wire = <<>> /\ Len(written) < MaxCodes
    /\ k \in held
    /\ held' = held \ {k}
    /\ wire' = Bytes(k, TRUE)
    /\ UNCHANGED <<ring, decoder, reader, written, taken, overflowed>>

-----------------------------------------------------------------------------
Succ(i) == (i + 1) % KEYBOARD_BUFFER_SIZE

(* Mutant: a full ring drops nothing and wraps onto itself.                *)
MutWrite(code) ==
    /\ slots' = [slots EXCEPT ![head] = code]
    /\ head' = Succ(head)
    /\ written' = Append(written, code)
    /\ UNCHANGED <<tail, overflowed>>

(* keyboard_buffer_write: a full ring gives up its oldest code, by moving  *)
(* the reader's index from inside the interrupt.                           *)
keyboard_buffer_write(code) ==
    /\ slots' = [slots EXCEPT ![head] = code]
    /\ head' = Succ(head)
    /\ written' = Append(written, code)
    /\ IF Succ(head) = tail
       THEN tail' = Succ(tail) /\ overflowed' = TRUE
       ELSE UNCHANGED <<tail, overflowed>>

WriteNothing == UNCHANGED <<ring, written, overflowed>>

(* Mutant of BreakCode: the release of a shift key leaves shift_down set.  *)
MutBreakCode(b) ==
    /\ extended' = FALSE
    /\ UNCHANGED <<caps_lock, shift_down>>
    /\ IF b \in Arrows
       THEN /\ down' = down \ {b}
            /\ keyboard_buffer_write([key |-> b, upper |-> FALSE])
       ELSE UNCHANGED down /\ WriteNothing

(* Releases are decoded with or without the E0 prefix.                     *)
BreakCode(b) ==
    /\ extended' = FALSE
    /\ shift_down' = (shift_down /\ b \notin Shifts)
    /\ UNCHANGED caps_lock
    /\ IF b \in Arrows
       THEN /\ down' = down \ {b}
            /\ keyboard_buffer_write([key |-> b, upper |-> FALSE])
       ELSE UNCHANGED down /\ WriteNothing

ExtendedMakeCode(b) ==
    /\ extended' = FALSE
    /\ UNCHANGED <<shift_down, caps_lock>>
    /\ IF b \in Arrows
       THEN /\ down' = down \cup {b}
            /\ keyboard_buffer_write([key |-> b, upper |-> TRUE])
       ELSE UNCHANGED down /\ WriteNothing

MakeCode(b) ==
    /\ shift_down' = (shift_down \/ b \in Shifts)
    /\ caps_lock' = IF b = CapsLock THEN ~ caps_lock ELSE caps_lock
    /\ UNCHANGED <<extended, down>>
    /\ IF b \in Letters \cup Controls
       THEN keyboard_buffer_write(
               [key |-> b, upper |-> b \in Letters /\ shift_down # caps_lock])
       ELSE WriteNothing

(* The interrupt: int_irq_central_handler reads one byte from the port and *)
(* runs keyboard_central_handler on it.                                    *)
Interrupt ==
    /\ wire # <<>>
    /\ wire' = Tail(wire)
    /\ LET byte == Head(wire) IN
       IF byte = E0
       THEN /\ extended' = TRUE
            /\ UNCHANGED <<shift_down, caps_lock, down>> /\ WriteNothing
       ELSE IF byte.brk THEN BreakCode(byte.base)
       ELSE IF extended THEN ExtendedMakeCode(byte.base)
       ELSE MakeCode(byte.base)
    /\ UNCHANGED <<reader, held, taken>>

-----------------------------------------------------------------------------
(* The reader: keyboard_buffer_read and keyboard_get_keycode, access by    *)
(* access.  reg is the register that carries the value from one access to  *)
(* the next.  Both take any code; keyboard_buffer_read then drops those of *)
(* arrows and modifiers (above KEYBOARD_KEYCODE_BASE).                     *)
Goto(from, to, value) ==
    /\ pc = from /\ pc' = to /\ reg' = value
    /\ UNCHANGED <<decoder, held, wire, written, overflowed>>

LoadHead == Goto("poll", "head", head) /\ UNCHANGED <<ring, taken>>

(* Mutant: the indexes are compared as numbers, forgetting the wrap.        *)
MutCompareTail ==
    /\ Goto("head", IF reg <= tail THEN "poll" ELSE "nonempty", 0)
    /\ UNCHANGED <<ring, taken>>

CompareTail ==
    /\ Goto("head", IF reg = tail THEN "poll" ELSE "nonempty", 0)
    /\ UNCHANGED <<ring, taken>>

LoadTail == Goto("nonempty", "index", tail) /\ UNCHANGED <<ring, taken>>

(* Mutant of LoadSlot: the newest code is read instead of the oldest.      *)
MutLoadSlot ==
    /\ Goto("index", "code", 0)
    /\ taken' = Append(taken, slots[(reg + 1) % KEYBOARD_BUFFER_SIZE])
    /\ UNCHANGED ring

LoadSlot ==
    /\ Goto("index", "code", 0)
    /\ taken' = Append(taken, slots[reg])
    /\ UNCHANGED ring

ReloadTail == Goto("code", "advance", tail) /\ UNCHANGED <<ring, taken>>

StoreTail ==
    /\ Goto("advance", "poll", 0)
    /\ tail' = Succ(reg)
    /\ UNCHANGED <<head, slots, taken>>

Read == LoadHead \/ CompareTail \/ LoadTail \/ LoadSlot \/ ReloadTail \/ StoreTail

Next ==
    \/ \E k \in Keys : Press(k) \/ Release(k)
    \/ Interrupt
    \/ Read

(* The readers poll with interrupts enabled, so they keep running and a    *)
(* byte that has arrived is taken.                                         *)
Spec == Init /\ [][Next]_vars /\ WF_vars(Read) /\ WF_vars(Interrupt)

-----------------------------------------------------------------------------
(* The codes between tail and head, oldest first.                          *)
Waiting ==
    LET n == (head + KEYBOARD_BUFFER_SIZE - tail) % KEYBOARD_BUFFER_SIZE
    IN  [i \in 1 .. n |-> slots[(tail + i - 1) % KEYBOARD_BUFFER_SIZE]]

(* Between reading the slot and storing the index the oldest code is both  *)
(* taken and still in the ring.                                            *)
Behind == IF pc \in {"code", "advance"} THEN 1 ELSE 0

(* Until the ring overflows, the reader gets exactly the codes the         *)
(* interrupt wrote, once each and in order, wherever interrupts fall       *)
(* between the reader's loads and stores.                                  *)
FifoUntilOverflow ==
    ~ overflowed =>
        written = taken \o SubSeq(Waiting, 1 + Behind, Len(Waiting))

(* Even when an overflow moves tail between the reader's accesses, the     *)
(* reader never gets a slot that was never written.                        *)
OnlyTypedCodes == \A i \in DOMAIN taken : taken[i] # Blank

(* With no key held and nothing on the wire, no modifier or arrow is down  *)
(* and no E0 prefix is pending: nothing sticks.                            *)
NothingSticks ==
    held = {} /\ wire = <<>> => ~ shift_down /\ down = {} /\ ~ extended

(* A code is not left in the ring forever: once the keys stop, the reader  *)
(* empties it.                                                             *)
RingDrains == <>[](wire = <<>>) => []<>(head = tail)

=============================================================================

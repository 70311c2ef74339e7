----------------------------- MODULE MCKeyboard -----------------------------
(***************************************************************************)
(* A ring of three slots, and a keyboard with a letter, a shift key, and   *)
(* both ctrl keys (one base, the right one behind an E0 prefix).           *)
(***************************************************************************)
EXTENDS Keyboard

Key(b, e) == [base |-> b, ext |-> e]
MCKeys == {Key("a", FALSE), Key("lshift", FALSE), Key("ctrl", FALSE), Key("ctrl", TRUE)}
=============================================================================

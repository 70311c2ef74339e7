----------------------------- MODULE MCTerminal -----------------------------
(***************************************************************************)
(* A screen of three rows of three cells with tabs of two, lines of at     *)
(* most five characters, two arguments of two.  The command "a" clears the *)
(* screen, "aa" prints one character, as ded does.                         *)
(***************************************************************************)
EXTENDS Terminal

MCClearCommand == <<"a">>
MCShown == <<"a", "a">> :> <<"a">>
=============================================================================

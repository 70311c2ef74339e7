------------------------------- MODULE MCPmm -------------------------------
(***************************************************************************)
(* A small machine for Pmm: frames of 2 bytes, bitmap bytes of 2 bits and  *)
(* words of 4.  As in a PC, low RAM ends in a part frame, a hole follows   *)
(* below the reserved frames, then the main RAM, which also ends in a part *)
(* frame; the hole makes the last RAM frames lie past MaxBlocks.           *)
(***************************************************************************)
EXTENDS Pmm

Entry(b, l, u) == [base |-> b, length |-> l, usable |-> u]

MCEntries == <<Entry(0, 5, TRUE), Entry(5, 3, FALSE), Entry(8, 21, TRUE),
               Entry(29, 3, FALSE)>>
MCFrames == 0 .. 15

=============================================================================

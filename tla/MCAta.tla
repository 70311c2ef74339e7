-------------------------------- MODULE MCAta --------------------------------
(***************************************************************************)
(* Three sectors of two words.  One call for each size there is: less than *)
(* a sector, one sector, two; and reads of one sector and of two.          *)
(***************************************************************************)
EXTENDS Ata

MCLbas == 0 .. 2
MCWrites == { [lba |-> 0, buf |-> <<1>>], [lba |-> 1, buf |-> <<1, 2>>],
              [lba |-> 0, buf |-> <<2, 1, 1, 2>>], [lba |-> 1, buf |-> <<2, 2, 1, 1>>] }
MCReads == { [lba |-> 1, sector_count |-> 1], [lba |-> 0, sector_count |-> 2] }
==============================================================================

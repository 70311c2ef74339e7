------------------------------- MODULE MCFiles -------------------------------
(***************************************************************************)
(* A file and a directory over three blocks of two cells, which is too few *)
(* for both to reach their full size.  One direct pointer, and the one     *)
(* behind it that is taken for direct too.                                 *)
(***************************************************************************)
EXTENDS Files

MCKind == [i \in Numbers |-> IF i = 0 THEN "file" ELSE "dir"]

(* Bounds: the run looks at the first state in which a file is too large,  *)
(* or in which nothing is claimed any more, and not behind it; and at few  *)
(* blocks loaded after a seek back.                                        *)
SomePlain == plain # {}
FewLoads == \A h \in Handles : file[h].open => file[h].block_index <= 2
=============================================================================

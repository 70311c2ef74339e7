------------------------------- MODULE MCHeap -------------------------------
(***************************************************************************)
(* A heap of four pages of 4 bytes (orders 0 to 2) over 12 frames: three   *)
(* kernel frames, one page table, and eight frames to hand out, of which  *)
(* 8 to 11 also back the untouched heap.  The sizes reach every order, the *)
(* two sizes no order holds, none and too many bytes.                      *)
(***************************************************************************)
EXTENDS Heap

MCEntries == <<[base |-> 0, length |-> 48, usable |-> TRUE]>>
MCFrames == 0 .. 11
MCTables == {3}
MCRequests == {0, 2, 3, 14, 16, 17}

(* Sizes that each fit into an empty heap.                                 *)
MCServable == {2, 3, 14}

(* A frame that was handed out and is mapped nowhere any more is never     *)
(* read or handed out again, so what is in it tells no states apart.       *)
MCReachable ==
    {pte[p] : p \in DOMAIN pte} \cup ((0 .. (MaxBlocks - 1)) \ memory_map)
MCView ==
    <<heap_free_list, [f \in MCReachable |-> word[f]], pte, memory_map, used_blocks,
      kernel, live>>
=============================================================================

---------------------------- MODULE MCBitmapDisk ----------------------------
(***************************************************************************)
(* Bitmaps of bytes of two bits, in the two shapes that matter:            *)
(*   one block, of ten bits for four data blocks, so that the padding      *)
(*     outnumbers the bits as in the kernel's file system (4096 bits for   *)
(*     624 blocks);                                                        *)
(*   three blocks of two bits, so that an allocation has to search past    *)
(*     the block in memory, and wrap.                                      *)
(***************************************************************************)
EXTENDS BitmapDisk

OneBlock == [block_size |-> 5, total_bits |-> 4]
ThreeBlocks == [block_size |-> 1, total_bits |-> 6]
MCShapes == {OneBlock, ThreeBlocks}

(* A bound: after a reboot that lost the bits of several blocks, how many   *)
(* owners one data block is followed to.                                   *)
HoldersBounded == \A bit \in Bits : holders[bit] <= 2
=============================================================================

------------------------------- MODULE MCVolume -------------------------------
(***************************************************************************)
(* The kernel as it is shipped, and kernels with small sectors, blocks of  *)
(* one to three sectors, and bitmaps of one block or (the last three) two. *)
(***************************************************************************)
EXTENDS Volume

Shipped == [ start |-> 300, sector_size |-> 512, superblock_size |-> 140, inode_size |-> 105,
             sectors_per_block |-> 1, sector_count |-> 1024, inode_count |-> 64 ]

Small(spb, sectors, inodes) ==
    [ start |-> 3, sector_size |-> 4, superblock_size |-> 3, inode_size |-> 2,
      sectors_per_block |-> spb, sector_count |-> sectors, inode_count |-> inodes ]

(* The kernel ends in front of the volume, in its bitmap of inodes, in its *)
(* data blocks, or where that of the repository's build does: with what is *)
(* there to debug it, it goes far into the shipped volume.                 *)
MCImages == {2, 6, 40, 524}

MCVolumes == {Shipped} \cup
    { Small(spb, 40 * spb + extra, inodes) : spb \in 1 .. 3, extra \in {0, 7}, inodes \in {8, 16} } \cup
    { Small(1, 80, 40), Small(2, 280, 72), Small(3, 480, 104) }
===============================================================================

---------------------------- MODULE MCBuddyHeap ----------------------------
(* A heap of 8 pages of 2 bytes: orders 0 to 3.                            *)
EXTENDS BuddyHeap

MCSize == [o \in 0 .. 3 |-> 2 * 2^o]
=============================================================================

---------------------------- MODULE MCInodeCache ----------------------------
(***************************************************************************)
(* Three inodes, one of them the root, and a cache of four slots: more     *)
(* slots than inodes, as in the kernel, and few enough that the hand goes  *)
(* round within a handful of commands and leaves the cache at its end.     *)
(***************************************************************************)
EXTENDS InodeCache

(* Nothing is claimed once the hand has left the cache or a free inode was *)
(* looked up: the run looks at the first such state and not behind it.     *)
Sound == sound
=============================================================================

------------------------------ MODULE NameSpace ------------------------------
(***************************************************************************)
(* What the directories of the file system promise, whatever the order of  *)
(* their entries: a directory gives each of its names one inode.  A        *)
(* command adds one name to one directory, or takes at most one away, and  *)
(* no name ever comes to stand for another inode.                          *)
(***************************************************************************)
EXTENDS Integers

CONSTANTS
    INODES,           \* inode_max_count
    NAMES             \* the names an entry can have

VARIABLE dirs         \* inode -> name -> inode

Inodes == 0 .. INODES - 1
FS_ROOT_DIRECTORY_INODE == 0
Dot == <<".">>
DotDot == <<".", ".">>
NoNames == [n \in {} |-> FS_ROOT_DIRECTORY_INODE]

Without(f, names) == [n \in DOMAIN f \ names |-> f[n]]

Init ==
    dirs = [d \in Inodes |->
               IF d = FS_ROOT_DIRECTORY_INODE
               THEN [n \in {Dot, DotDot} |-> FS_ROOT_DIRECTORY_INODE]
               ELSE NoNames]

(* A directory gets a new name.  The inode it stands for, and with mkdir   *)
(* of a long path those below it, get their first names.  Actions are      *)
(* relations between the directories before and after them.                *)
Created(old, new) ==
    \E d \in Inodes :
        /\ \E name \in NAMES \ DOMAIN old[d] : DOMAIN new[d] = DOMAIN old[d] \cup {name}
        /\ \A e \in Inodes :
              /\ Without(new[e], DOMAIN new[e] \ DOMAIN old[e]) = old[e]
              /\ e # d /\ old[e] # NoNames => new[e] = old[e]

(* Deleting takes at most one name from a directory d, and all names from  *)
(* the inode i that is deleted with it.                                    *)
Deleted(old, new) ==
    \E d, i \in Inodes :
        /\ \A e \in Inodes \ {d, i} : new[e] = old[e]
        /\ new[i] = NoNames
        /\ d # i => \E gone \in {{}} \cup {{name} : name \in DOMAIN old[d]} :
                       new[d] = Without(old[d], gone)

Next == Created(dirs, dirs') \/ Deleted(dirs, dirs')

Spec == Init /\ [][Next]_dirs

=============================================================================

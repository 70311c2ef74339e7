------------------------------- MODULE MCNames -------------------------------
(***************************************************************************)
(* Three inodes, the root and two more, and paths that meet each case of   *)
(* the functions on paths: relative, absolute, through a parent and the    *)
(* root's parent, with a delimiter inside, at the end and twice in a row.  *)
(* The name "a" is a prefix of "ab".                                       *)
(***************************************************************************)
EXTENDS Names

a == <<"a">>
ab == <<"a", "b">>
Dot == FS_DIRECTORY_CURRENT_DIR_NAME
DotDot == FS_DIRECTORY_PARENT_DIR_NAME

MCInputPaths ==
    { <<a>>, <<ab>>, <<a, ab>>, <<EmptySegment, ab>>, <<DotDot>>,
      <<ab, EmptySegment>>, <<ab, EmptySegment, a>>, <<DotDot, a>> }

MCNameSet ==
    {Dot, DotDot, a, ab, FS_PATH_DELIMITER} \cup {to_name(path) : path \in MCInputPaths}

MCBehind == {EmptyPath, <<a>>}

(* Bounds: the depth of the working directory; and nothing is claimed once *)
(* an inode that is free was looked into.                                  *)
Shallow == Len(cwd_path) <= (IF exact THEN 2 ELSE 0)
Sound == sound
=============================================================================

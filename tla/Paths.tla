-------------------------------- MODULE Paths --------------------------------
(***************************************************************************)
(* The functions on paths of src/os/fs/fs_directory.c.  A path is the      *)
(* sequence of its segments, the pieces between the delimiters: "/a" is an *)
(* empty segment and then a, "a/" is a and then an empty one.  A segment   *)
(* is a sequence of characters, because entries are compared by prefixes.  *)
(***************************************************************************)
EXTENDS Integers, SequencesExt

EmptySegment == <<>>
FS_DIRECTORY_CURRENT_DIR_NAME == <<".">>
FS_DIRECTORY_PARENT_DIR_NAME == <<".", ".">>
FS_PATH_DELIMITER == <<"/">>

EmptyPath == <<EmptySegment>>
RootPath == <<EmptySegment, EmptySegment>>

IsAbsolute(path) == Len(path) > 1 /\ path[1] = EmptySegment

(* What fs_path_find_last_delimiter searches: one trailing delimiter is    *)
(* passed over, and "/" alone has none left.                               *)
Searched(path) ==
    IF Len(path) > 1 /\ Last(path) = EmptySegment THEN Front(path) ELSE path
HasDelimiter(path) == Len(Searched(path)) > 1

(* Without a delimiter the whole path is the name, a trailing one included.*)
to_name(path) ==
    IF HasDelimiter(path) THEN Last(Searched(path))
    ELSE Searched(path)[1] \o (IF Len(path) > 1 THEN FS_PATH_DELIMITER ELSE <<>>)

to_parent_path(path) ==
    LET parent == Front(Searched(path))
    IN  IF ~ HasDelimiter(path) THEN EmptyPath
        ELSE IF parent = EmptyPath THEN RootPath
        ELSE parent

(* The path of cwd_path: absolute, and given by its names.                 *)
absolute(names) == IF names = <<>> THEN RootPath ELSE <<EmptySegment>> \o names

(* The segments a path is walked by, from the root or from where it starts.*)
Segments(path) == IF IsAbsolute(path) THEN Tail(path) ELSE path

(* One segment more.                                                       *)
Enter(names, segment) ==
    IF segment = FS_DIRECTORY_PARENT_DIR_NAME
    THEN IF names = <<>> THEN names ELSE Front(names)
    ELSE IF segment \in {EmptySegment, FS_DIRECTORY_CURRENT_DIR_NAME} THEN names
    ELSE Append(names, segment)

(* One segment after the other.                                            *)
Walked(names, segments) ==
    LET at[k \in 0 .. Len(segments)] ==
            IF k = 0 THEN names ELSE Enter(at[k - 1], segments[k])
    IN  at[Len(segments)]

BeforeLast(path, cwd_path) ==
    Walked(IF IsAbsolute(path) THEN <<>> ELSE cwd_path, Front(Segments(path)))

(* fs_path_normalize skips the terminating zero of a path that ends with a *)
(* .. in the root, and goes on with whatever lies behind it.               *)
ReadsPast(path, cwd_path) ==
    /\ Last(path) = FS_DIRECTORY_PARENT_DIR_NAME
    /\ BeforeLast(path, cwd_path) = <<>>

(* As names.  behind is what lies behind the path in memory.               *)
normalize(path, cwd_path, behind) ==
    Walked(BeforeLast(path, cwd_path),
           IF ReadsPast(path, cwd_path) THEN behind ELSE <<Last(path)>>)

=============================================================================

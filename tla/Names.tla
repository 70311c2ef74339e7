-------------------------------- MODULE Names --------------------------------
(***************************************************************************)
(* The name space of the file system: src/os/fs/fs_directory.c, and the    *)
(* calls of lib/dir.c and lib/file.c that the commands cd, ls, mkdir,      *)
(* rmdir, touch and rm make with the path they are given.                  *)
(*                                                                         *)
(* A directory is the sequence of its entries; an entry that was deleted   *)
(* stays, free, with an empty name.  The type of an entry is only printed, *)
(* so a file is a directory without entries.  A deleted inode has none.    *)
(***************************************************************************)
EXTENDS Paths, FiniteSets, FiniteSetsExt

CONSTANTS
    INODES,           \* inode_max_count
    NAMES,            \* the names that can occur
    InputPaths,       \* the paths that are given to the commands
    Behind,           \* the segments that can lie behind a path in memory
    MaxEntries        \* bound: entries in a directory

VARIABLES
    entries,          \* inode number -> entries of the directory
    inode_bitmap,     \* the inodes in use
    cwd,              \* the working directory of the shell, an inode number
    cwd_path,         \* the names of its path
    sound,            \* history: no inode was looked into that is not in use
    exact             \* history: each deletion of an inode deleted its entry

vars == <<entries, inode_bitmap, cwd, cwd_path, sound, exact>>

ASSUME NamesAssumption ==
    /\ INODES \in Nat \ {0} /\ MaxEntries \in Nat
    /\ NAMES \subseteq Seq(STRING) \ {EmptySegment}
    /\ {FS_DIRECTORY_CURRENT_DIR_NAME, FS_DIRECTORY_PARENT_DIR_NAME,
        FS_PATH_DELIMITER} \subseteq NAMES
    /\ InputPaths \cup Behind \subseteq Seq(NAMES \cup {EmptySegment}) \ {<<>>}

Inodes == 0 .. INODES - 1
FS_ROOT_DIRECTORY_INODE == 0
FS_INODE_FAILURE == -1

Entry(name, inode) == [name |-> name, inode |-> inode]
FreeEntry == Entry(EmptySegment, FS_INODE_FAILURE)

-----------------------------------------------------------------------------
(* The functions of fs_directory.c take what they work on as a record s.   *)
State == [entries |-> entries, used |-> inode_bitmap, sound |-> sound,
          ok |-> TRUE, null |-> FALSE]

Become(s) == entries' = s.entries /\ inode_bitmap' = s.used /\ sound' = s.sound

(* fs_inode_get of each of these inodes.  Getting one that is not in use   *)
(* leaves a copy in the inode cache that is behind when it is used again.  *)
get(s, inodes) == [s EXCEPT !.sound = @ /\ inodes \subseteq s.used]

Named(s, d, name) == {k \in DOMAIN s.entries[d] : s.entries[d][k].name = name}

entry_find(s, d, name) ==
    IF Named(s, d, name) = {} THEN FS_INODE_FAILURE
    ELSE s.entries[d][Min(Named(s, d, name))].inode

(* Mutant of entry_add: a deleted entry is not told from one in use.       *)
MutEntryAdd(s, d, entry) ==
    IF Len(s.entries[d]) > 2 THEN [s EXCEPT !.entries[d][3] = entry]
    ELSE [s EXCEPT !.entries[d] = Append(@, entry)]

entry_add(s, d, entry) ==
    LET free == Named(s, d, EmptySegment)
    IN  IF free # {} THEN [s EXCEPT !.entries[d][Min(free)] = entry]
        ELSE [s EXCEPT !.entries[d] = Append(@, entry)]

(* The first entry whose name is a prefix: of a free one, any name is.     *)
entry_del(s, d, name) ==
    LET hit == {k \in DOMAIN s.entries[d] : IsPrefix(s.entries[d][k].name, name)}
    IN  IF hit = {} THEN s ELSE [s EXCEPT !.entries[d][Min(hit)] = FreeEntry]

(* The segments up to the first empty one, each looked up in the directory *)
(* the one before it named, and the inodes looked into on the way.         *)
path_to_inode(s, path, from) ==
    LET start == IF IsAbsolute(path) THEN FS_ROOT_DIRECTORY_INODE ELSE from
        all == Segments(path)
        ends == {k \in DOMAIN all : all[k] = EmptySegment}
        n == IF ends = {} THEN Len(all) ELSE Min(ends) - 1
        at[k \in 0 .. n] ==
            IF k = 0 THEN start
            ELSE IF at[k - 1] = FS_INODE_FAILURE THEN FS_INODE_FAILURE
            ELSE entry_find(s, at[k - 1], all[k])
    IN  [inode |-> at[n],
         got   |-> {at[k] : k \in 0 .. n - 1} \ {FS_INODE_FAILURE}]

path_to_parent_inode(s, path, from) == path_to_inode(s, to_parent_path(path), from)

(* A new inode, the lowest that is free, with these entries, under name in *)
(* directory d.                                                            *)
Fresh(s) == Min(Inodes \ s.used)

enter(s, d, name, contents) ==
    entry_add([s EXCEPT !.used = @ \cup {Fresh(s)}, !.entries[Fresh(s)] = contents],
              d, Entry(name, Fresh(s)))

(* fs_directory_create.  s.ok is its result; with no inode free it goes on *)
(* with what it finds at address zero, which is not modelled: s.null.      *)
directory_create(s, path, from) ==
    LET parent == path_to_parent_inode(s, path, from)
        d == parent.inode
        t == get(s, parent.got \cup {d})
    IN  IF d = FS_INODE_FAILURE THEN [get(s, parent.got) EXCEPT !.ok = FALSE]
        ELSE IF entry_find(s, d, to_name(path)) # FS_INODE_FAILURE THEN t
        ELSE IF s.used = Inodes THEN [t EXCEPT !.null = TRUE]
        ELSE enter(t, d, to_name(path),
                   <<Entry(FS_DIRECTORY_CURRENT_DIR_NAME, Fresh(t)),
                     Entry(FS_DIRECTORY_PARENT_DIR_NAME, d)>>)

(* Mutant of destroy: the size of the inode stays.                         *)
MutDestroy(s, i) == [s EXCEPT !.used = @ \ {i}]

(* fs_inode_destroy: the size goes to zero.                                *)
destroy(s, i) == [s EXCEPT !.used = @ \ {i}, !.entries[i] = <<>>]

(* Is it the entry of inode i that deleting name from d takes?             *)
TakesEntryOf(s, d, name, i) ==
    \E k \in DOMAIN s.entries[d] :
        s.entries[d][k].inode = i /\ entry_del(s, d, name).entries[d][k] = FreeEntry

-----------------------------------------------------------------------------
(* After fs_directory_create_root, in shell_main.                          *)
Init ==
    /\ entries = [d \in Inodes |->
          IF d = FS_ROOT_DIRECTORY_INODE
          THEN <<Entry(FS_DIRECTORY_CURRENT_DIR_NAME, d),
                 Entry(FS_DIRECTORY_PARENT_DIR_NAME, d)>>
          ELSE <<>>]
    /\ inode_bitmap = {FS_ROOT_DIRECTORY_INODE}
    /\ cwd = FS_ROOT_DIRECTORY_INODE /\ cwd_path = <<>>
    /\ sound = TRUE /\ exact = TRUE

(* ls: the directory is found and its entries are read.                    *)
dir_open(path) ==
    /\ LET to == path_to_inode(State, path, cwd)
       IN  Become(get(State, to.got \cup ({to.inode} \ {FS_INODE_FAILURE})))
    /\ UNCHANGED <<cwd, cwd_path, exact>>

(* mkdir: every directory on the absolute path that is missing.  A name is *)
(* one that fits: the 54 bytes of an entry, its length in one byte and the *)
(* buffers on the stack, which nothing checks, are left out here and below.*)
dir_make(path, behind) ==
    LET names == normalize(path, cwd_path, behind)
        made[k \in 0 .. Len(names)] ==
            IF k = 0 THEN State
            ELSE IF ~ made[k - 1].ok \/ made[k - 1].null THEN made[k - 1]
            ELSE directory_create(made[k - 1], absolute(SubSeq(names, 1, k)), cwd)
        s == IF names = <<>> THEN directory_create(State, RootPath, cwd)
             ELSE made[Len(names)]
    IN  /\ ~ s.null
        /\ Become(s)
        /\ UNCHANGED <<cwd, cwd_path, exact>>

(* rmdir.  The path is taken as it is.  Only . and .. may be in the        *)
(* directory, and not even a free entry.                                   *)
dir_remove(path) ==
    LET to == path_to_inode(State, path, cwd)
        i == to.inode
        parent == path_to_parent_inode(State, path, cwd)
        name == to_name(path)
        s == get(State, to.got \cup {i} \cup parent.got)
        Empty == \A k \in DOMAIN entries[i] :
                    entries[i][k].name \in {FS_DIRECTORY_CURRENT_DIR_NAME,
                                            FS_DIRECTORY_PARENT_DIR_NAME}
    IN  /\ i # FS_INODE_FAILURE
        /\ IF \/ name \in {FS_DIRECTORY_CURRENT_DIR_NAME, FS_DIRECTORY_PARENT_DIR_NAME}
              \/ ~ Empty
           THEN Become(s) /\ UNCHANGED exact
           ELSE LET t == get(destroy(s, i), {parent.inode})
                IN  /\ Become(entry_del(t, parent.inode, name))
                    /\ exact' = (exact /\ TakesEntryOf(t, parent.inode, name, i))
        /\ UNCHANGED <<cwd, cwd_path>>

(* Mutant of dir_change: a path from the root is taken for one from here.  *)
MutDirChange(path, behind) ==
    LET to == path_to_inode(State, path, cwd)
    IN  /\ to.inode # FS_INODE_FAILURE
        /\ cwd' = to.inode
        /\ cwd_path' = Walked(cwd_path, path)
        /\ Become(get(State, to.got))
        /\ UNCHANGED exact

(* cd.  The path is walked as it is, and rewritten for the prompt.         *)
dir_change(path, behind) ==
    LET to == path_to_inode(State, path, cwd)
    IN  /\ to.inode # FS_INODE_FAILURE
        /\ cwd' = to.inode
        /\ cwd_path' = normalize(path, cwd_path, behind)
        /\ Become(get(State, to.got))
        /\ UNCHANGED exact

(* Mutant of file_create: the name is entered without a look for it.       *)
MutFileCreate(path, behind) ==
    LET parent == path_to_parent_inode(State, path, cwd)
        name == to_name(absolute(normalize(path, cwd_path, behind)))
    IN  /\ parent.inode # FS_INODE_FAILURE
        /\ inode_bitmap # Inodes
        /\ Become(enter(get(State, parent.got \cup {parent.inode}), parent.inode, name, <<>>))
        /\ UNCHANGED <<cwd, cwd_path, exact>>

(* touch.  The name is that of the absolute path, the directory that of    *)
(* the path as it is.  With no inode free it is as with mkdir.             *)
file_create(path, behind) ==
    LET parent == path_to_parent_inode(State, path, cwd)
        d == parent.inode
        name == to_name(absolute(normalize(path, cwd_path, behind)))
        s == get(State, parent.got \cup {d})
    IN  /\ d # FS_INODE_FAILURE
        /\ \/ entry_find(State, d, name) # FS_INODE_FAILURE /\ Become(s)
           \/ /\ entry_find(State, d, name) = FS_INODE_FAILURE
              /\ inode_bitmap # Inodes
              /\ Become(enter(s, d, name, <<>>))
        /\ UNCHANGED <<cwd, cwd_path, exact>>

(* rm, of anything.  Both look-ups go by the absolute path.  The entry is  *)
(* deleted first, then the inode.                                          *)
file_delete(path, behind) ==
    LET full == absolute(normalize(path, cwd_path, behind))
        to == path_to_inode(State, full, cwd)
        parent == path_to_parent_inode(State, full, cwd)
        d == parent.inode
        s == get(State, to.got \cup parent.got \cup {d})
    IN  /\ to.inode # FS_INODE_FAILURE /\ d # FS_INODE_FAILURE
        /\ IF entry_find(State, d, to_name(full)) = FS_INODE_FAILURE
           THEN Become(s) /\ UNCHANGED exact
           ELSE /\ Become(destroy(get(entry_del(s, d, to_name(full)), {to.inode}), to.inode))
                /\ exact' = (exact /\ TakesEntryOf(s, d, to_name(full), to.inode))
        /\ UNCHANGED <<cwd, cwd_path>>

Bounded == \A d \in Inodes : Len(entries'[d]) <= MaxEntries

(* What is behind a path matters only where it is read.                    *)
Tails(path) == IF ReadsPast(path, cwd_path) THEN Behind ELSE {EmptyPath}

Next == \E path \in InputPaths :
    \/ dir_open(path)
    \/ dir_remove(path)
    \/ \E behind \in Tails(path) :
          \/ dir_make(path, behind) /\ Bounded
          \/ dir_change(path, behind)
          \/ file_create(path, behind) /\ Bounded
          \/ file_delete(path, behind)

Spec == Init /\ [][Next]_vars

-----------------------------------------------------------------------------
(* No two entries of a directory have the same name, through any mix of    *)
(* creations by relative and absolute paths, deletions, and free entries   *)
(* that are used again.                                                    *)
UniqueNames ==
    sound => \A d \in Inodes : \A k, l \in DOMAIN entries[d] :
        entries[d][k].name = entries[d][l].name => k = l \/ entries[d][k] = FreeEntry

(* As long as each deletion of an inode took the entry of that inode, no   *)
(* entry stands for an inode that is not in use (the .. of what was below  *)
(* a deleted directory can).  An earlier entry that is free, or has a      *)
(* prefix of the name, is what breaks the premise.                         *)
EntriesInUse ==
    sound /\ exact => \A d \in Inodes : \A k \in DOMAIN entries[d] :
        entries[d][k].name \in {EmptySegment, FS_DIRECTORY_PARENT_DIR_NAME}
            \/ entries[d][k].inode \in inode_bitmap

PathIsCwd == path_to_inode(State, absolute(cwd_path), cwd).inode = cwd

(* A path without an empty segment inside: look-ups stop at one, and the   *)
(* rewriting of the path does not.                                         *)
Plain(path) == \A k \in 2 .. Len(path) - 1 : path[k] # EmptySegment

(* cd keeps the path in the prompt and the working directory together: the *)
(* walk through . and .. entries ends where the rewritten path leads, if   *)
(* it did before, and the rewriting did not run past the end of the path.  *)
CdKeepsPath ==
    [][\A path \in InputPaths : \A behind \in Tails(path) :
          /\ sound /\ exact /\ PathIsCwd
          /\ Plain(path) /\ ~ ReadsPast(path, cwd_path)
          /\ dir_change(path, behind)
          => PathIsCwd']_vars

(* The names each directory has, as entry_find finds them.                 *)
bound ==
    [d \in Inodes |->
        [name \in {entries[d][k].name : k \in DOMAIN entries[d]} \ {EmptySegment} |->
            entry_find(State, d, name)]]

NameSpaceOf == INSTANCE NameSpace WITH dirs <- bound

(* The rows of entries, with their free slots and their deletion by        *)
(* prefix, behave as directories that are functions of the name: each      *)
(* command adds one name or takes one, and no name changes its inode.      *)
ImplementsNameSpace == NameSpaceOf!Init /\ [][sound' => NameSpaceOf!Next]_bound

=============================================================================

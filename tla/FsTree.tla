------------------------------- MODULE FsTree -------------------------------
(***************************************************************************)
(* What the extractors share (src/src/extract/fs_util.c, and the path      *)
(* buffers each of them declares): the names that may reach the disk, the  *)
(* lengths of the paths printed into fixed buffers, and the tree below     *)
(* output_dir, a function from paths (sequences of names) to directories   *)
(* and regular files.                                                      *)
(***************************************************************************)
EXTENDS Integers, Sequences, FiniteSets, SequencesExt

CONSTANTS
    Names,          \* names crimp_fs_path_component_is_safe accepts
    Unsafe,         \* any other name, the empty one among them
    NameLen,        \* NameLen[n] : strlen of the name n
    MAX_DIR_DEPTH,  \* 32 in the code
    PATH_CAP,       \* sizeof(child_path), 1024 in the code
    DISK_CAP,       \* sizeof(disk_path), 1280 in the code
    OUT_LEN,        \* strlen(output_dir)
    IOFaults        \* the modes ("list", "extract") in which an allocation or a
                    \* call on the disk may fail, fclose and remove among them

ASSUME FsTreeAssumption ==
    /\ Unsafe \notin Names /\ NameLen \in [Names -> Nat \ {0}]
    /\ MAX_DIR_DEPTH \in Nat
    /\ PATH_CAP \in Nat /\ DISK_CAP \in Nat /\ OUT_LEN \in Nat
    /\ IOFaults \subseteq {"list", "extract"}

Dir == [kind |-> "dir"]

\* snprintf of "%s/%s", or of the name alone below the root.
JoinedLen(path, plen, name) ==
    IF path = <<>> THEN NameLen[name] ELSE plen + 1 + NameLen[name]

\* crimp_fs_join_output_path, for a relative path of this length.  A fault:
\* no room for the terminating NUL.
MUT_Joinable_no_nul(len) == OUT_LEN + 1 + len <= DISK_CAP

Joinable(len) == OUT_LEN + 1 + len < DISK_CAP

\* crimp_fs_make_directory: the directory may be there already, anything else
\* at the path is an error.
Creatable(tree, path) == path \in DOMAIN tree => tree[path].kind = "dir"

\* A directory at the path makes fopen fail, an earlier file is truncated.
Openable(tree, path) == path \in DOMAIN tree => tree[path].kind = "reg"

Put(tree, path, x) ==
    [q \in DOMAIN tree \cup {path} |-> IF q = path THEN x ELSE tree[q]]

Without(tree, path) == [q \in DOMAIN tree \ {path} |-> tree[q]]

\* An element of the entry list; a directory is listed with size 0.  Of the
\* kind ("dir", "reg" or "other") the code keeps is_dir only; the rest of it
\* is there for Mirrors.
ListEntry(path, kind, size) ==
    [path |-> path, kind |-> kind, size |-> IF kind = "dir" THEN 0 ELSE size]

\* strlen of a path, from its names: a separator before each but the first.
Lengths(path) ==
    LET upto[n \in 0 .. Len(path)] ==
            IF n = 0 THEN -1 ELSE upto[n - 1] + 1 + NameLen[path[n]]
    IN  upto

StrLen(path) == Lengths(path)[Len(path)]

\* Stands in a listing for whatever makes a walk give up.
Broken == [path |-> <<>>, kind |-> "other", size |-> -1]

\* What f has at the one element of S, if there is one.
At(f, S) == IF S = {} THEN <<>> ELSE f[CHOOSE y \in S : TRUE]

\* Depth first, what is listed from each place of an image on: its own items,
\* those of the directory it leads down to, and those of the place behind it.
Listing(places) ==
    LET from[x \in DOMAIN places] ==
            places[x].items \o At(from, places[x].down) \o At(from, places[x].on)
    IN  from

\* The disk shows the list: every listed directory is a directory there, every
\* listed regular file a regular file, and nothing else is there.
Mirrors(tree, list) ==
    /\ \A path \in DOMAIN tree :
         \E i \in 1 .. Len(list) : /\ list[i].path = path
                                   /\ list[i].kind = tree[path].kind
    /\ \A i \in 1 .. Len(list) :
         list[i].kind # "other" =>
           /\ list[i].path \in DOMAIN tree
           /\ tree[list[i].path].kind = list[i].kind
=============================================================================

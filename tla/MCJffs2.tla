------------------------------- MODULE MCJffs2 -------------------------------
(***************************************************************************)
(* Instances of Jffs2: logs of up to four dirents over a flat, nested,     *)
(* cyclic or shared tree with deletions and equal versions, and logs of    *)
(* one file with up to three fragments that overlap, shrink it, leave it   *)
(* or cannot be read.                                                      *)
(***************************************************************************)
EXTENDS Jffs2

MCNames   == {1, 2}
MCUnsafe  == 0
MCNameLen == [n \in MCNames |-> n]

Dirent(pino, name, version, ino) ==
    [pino |-> pino, version |-> version, ino |-> ino, name |-> name]

Inode(ino, version, kind, isize) ==
    [ino |-> ino, version |-> version, kind |-> kind, isize |-> isize,
     frag_offset |-> 0, csize |-> 0, dsize |-> 0, compr |-> "none",
     inflates |-> FALSE]

Fragment(version, isize, offset, dsize, compr, good) ==
    [Inode(3, version, "reg", isize) EXCEPT
       !.frag_offset = offset, !.dsize = dsize, !.compr = compr,
       !.csize = IF good THEN dsize ELSE 0, !.inflates = good]

\* Inode 2 is a directory, 3 a file, 4 something else; 5 has no node.
TreeDirents ==
    {Dirent(1, 1, 1, 2), Dirent(1, 1, 2, 3), Dirent(1, 1, 3, 0), Dirent(1, 1, 3, 2),
     Dirent(1, 2, 1, 4), Dirent(2, 1, 2, 3), Dirent(2, 2, 1, 1), Dirent(2, 2, 2, 2),
     Dirent(2, 2, 1, 5), Dirent(2, 0, 1, 3)}
TreeInodes ==
    <<Inode(4, 1, "other", 3), Inode(3, 2, "reg", 0), Inode(2, 1, "dir", 0),
      Inode(1, 1, "dir", 0), Inode(3, 1, "reg", 2)>>

FileFragments ==
    {Fragment(1, 4, 0, 4, "none", TRUE), Fragment(2, 4, 1, 2, "zlib", TRUE),
     Fragment(2, 5, 2, 3, "none", TRUE), Fragment(3, 2, 0, 0, "none", TRUE),
     Fragment(4, 6, 6, 1, "zlib", FALSE), Fragment(4, 6, 3, 6, "none", TRUE),
     Fragment(5, 3, 1, 7, "zlib", TRUE), Fragment(5, 7, 0, 1, "none", TRUE),
     Fragment(1, 3, 0, 2, "other", TRUE), Fragment(1, 3, 0, 2, "none", FALSE)}

UpTo(n, S) == {T \in SUBSET S : Cardinality(T) <= n}

MCLogs ==
    {[dirents |-> SetToSeq(D), inodes |-> TreeInodes] : D \in UpTo(4, TreeDirents)}
      \cup
    {[dirents |-> <<Dirent(1, 1, 1, 3)>>, inodes |-> SetToSeq(F)] :
       F \in UpTo(3, FileFragments)}
=============================================================================

----------------------------- MODULE MCSquashfs ------------------------------
(***************************************************************************)
(* Instances of Squashfs: every image with a root listing of one or two    *)
(* groups and a second listing behind it, entries that lead to directories *)
(* and files of a small set of shapes, and sound or broken data.           *)
(***************************************************************************)
EXTENDS Squashfs

CONSTANTS na, nb, nc   \* names; nc is longer than MAX_NAME

MCNames   == {na, nb, nc}
MCNameLen == [n \in MCNames |-> CASE n = na -> 1 [] n = nb -> 2 [] n = nc -> 4]

Header(count, start) == [count |-> count, start |-> start]

\* An entry that leads to inode <<start of its group, offset>>.
E(name, offset) ==
    [name |-> name, offset |-> offset,
     name_size |-> IF name = Unsafe THEN 0 ELSE MCNameLen[name] - 1]

\* The root listing: a group of two entries at 0, one of one entry at 31; the
\* second listing: one entry at 72.  A group without entries at 0 is followed
\* by the group at 12.
RootListing == {0, 4, 12, 20, 24, 31, 43, 52}   \* where it may end
SubListing  == 60

Ents(a, b, c, d) ==
    (12 :> a) @@ (21 :> b) @@ (43 :> c) @@ (72 :> d) @@ (24 :> E(nb, 1))

Hdrs(count) ==
    (0 :> Header(count, 0)) @@ (12 :> Header(0, 0)) @@ (31 :> Header(0, 1))
      @@ (60 :> Header(0, 0))

-----------------------------------------------------------------------------
(* Inodes.                                                                 *)

Directory(pos, size) ==
    [ZeroInode EXCEPT !.type = "dir", !.dir = pos, !.dir_size = size]

B(size, compressed) == [size |-> size, compressed |-> compressed]

Content(size, start, frag, offset, sizes) ==
    [ZeroInode EXCEPT !.type = "reg", !.file_size = size, !.start = start,
                      !.frag = frag, !.frag_offset = offset, !.sizes = sizes]

\* A sub-directory with the second listing, the root again, an empty one (its
\* position is never looked at), one that cannot be read, one whose size is
\* no listing; a symlink; a file of a block and a tail.
Shapes ==
    {Directory(SubListing, 24), Directory(0, 34), Directory(NoPos, 3),
     Directory(NoPos, 24), Directory(SubListing, 10),
     [ZeroInode EXCEPT !.file_size = 7],
     Content(5, 96, 0, 1, <<B(3, TRUE)>>)}

\* No fragment: two blocks, a hole and a block, a block and a hole, a stored
\* block, a block that is too short; a fragment: a tail alone, an empty tail,
\* a tail outside its fragment, fragments that do not exist; too large, too
\* many blocks, too short an array, empty.
Contents ==
    {Content(5, 96, NoFrag, 0, <<B(3, TRUE), B(2, TRUE)>>),
     Content(5, 99, NoFrag, 0, <<B(0, FALSE), B(2, TRUE)>>),
     Content(7, 96, NoFrag, 0, <<B(4, TRUE), B(0, TRUE)>>),
     Content(4, 100, NoFrag, 0, <<B(4, FALSE)>>),
     Content(6, 96, NoFrag, 0, <<B(3, TRUE), B(2, TRUE)>>),
     Content(4, 101, NoFrag, 0, <<B(5, FALSE)>>),
     Content(2, 0, 0, 1, <<>>), Content(4, 96, 0, 3, <<B(3, TRUE)>>),
     Content(3, 0, 0, 1, <<>>), Content(1, 0, 1, 0, <<>>), Content(1, 0, 2, 0, <<>>),
     Content(1, 0, 3, 0, <<>>),
     Content(13, 96, NoFrag, 0, <<>>), Content(9, 96, NoFrag, 0, <<>>),
     Content(5, 96, NoFrag, 0, <<B(3, TRUE)>>), Content(0, 96, NoFrag, 0, <<>>)}

Streams ==
    (96 :> [clen |-> 3, dlen |-> 4]) @@ (99 :> [clen |-> 2, dlen |-> 1])
      @@ (104 :> [clen |-> 2, dlen |-> 3]) @@ (106 :> [clen |-> 2, dlen |-> 5])

\* Fragment 0 holds three bytes, fragment 1 more than a block, fragment 2
\* lies in part behind the file.
Fragments ==
    (0 :> [start |-> 104, raw |-> B(2, TRUE)]) @@ (1 :> [start |-> 106, raw |-> B(2, TRUE)])
      @@ (2 :> [start |-> 107, raw |-> B(2, FALSE)])

Image(count, end, ents, i0, i1, i2) ==
    [len |-> 108, block_size |-> 4, fragments |-> 3, compression |-> "gzip",
     root |-> <<0, 0>>, hdr |-> Hdrs(count), ent |-> ents,
     inode |-> (<<0, 0>> :> Directory(0, end + 3)) @@ (<<0, 1>> :> i0)
                 @@ (<<0, 2>> :> i1) @@ (<<1, 1>> :> i2),
     frag |-> Fragments, z |-> Streams]

Plain == Ents(E(na, 1), E(nb, 2), E(na, 1), E(na, 2))

\* All trees over data that decodes.
TreeImages ==
    {Image(count, end, Plain, i0, i1, i2) :
       count \in {1, U32 - 1}, end \in {24, 31, 52}, i0 \in Shapes, i1 \in Shapes,
       i2 \in {Directory(SubListing, 24), [ZeroInode EXCEPT !.file_size = 7]}}

\* Odd listings: groups of any size, cut anywhere, with odd names, a name
\* twice (a file where there is a directory already), an inode that is not
\* there.
OddImages ==
    {Image(count, end, Ents(a, b, c, E(na, 2)), Directory(SubListing, 24), i1, i2) :
       count \in {0, 1, 2, U32 - 1}, end \in RootListing,
       i2 \in {Directory(NoPos, 3), Content(4, 96, NoFrag, 0, <<B(3, TRUE)>>)},
       a \in {E(na, 1), E(Unsafe, 1), E(na, 3)}, b \in {E(nb, 2)},
       c \in {E(na, 1), E(nb, 1), E(nc, 1)},
       i1 \in {Content(5, 96, 0, 1, <<B(3, TRUE)>>)}}

\* All contents, in images of every compression, some of which are no images.
FileImages ==
    {[Image(1, 31, Plain, i0, i1, i1)
        EXCEPT !.compression = z, !.block_size = bs, !.len = len] :
       i0 \in Contents, i1 \in {Directory(SubListing, 24), Content(5, 96, 0, 1, <<B(3, TRUE)>>)},
       z \in {"gzip", "xz", "other"}, bs \in {2, 4, 6, 8}, len \in {95, 98, 108}}

RootImages ==
    {[Image(1, 31, Plain, i0, i0, i0) EXCEPT !.root = r, !.inode = i] :
       r \in {<<0, 0>>, <<2, 0>>}, i0 \in Shapes,
       i \in {<<0, 0>> :> j : j \in Shapes}}

\* Two names of two bytes below each other, which is too long on the disk.
DeepImages ==
    {Image(0, 22, Ents(E(nb, 1), E(nb, 2), E(na, 1), E(nb, 2)),
           Directory(SubListing, 25), i1, i1) : i1 \in Shapes}

MCImages == DeepImages \cup TreeImages \cup OddImages \cup FileImages \cup RootImages
=============================================================================

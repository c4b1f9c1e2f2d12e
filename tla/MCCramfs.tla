------------------------------ MODULE MCCramfs ------------------------------
(***************************************************************************)
(* Instances of Cramfs: every image made of three directory entries at     *)
(* offsets 76, 92 and 108, each of a small set of shapes, with a root      *)
(* directory that takes in one, two or three of them, and one data area    *)
(* behind them.                                                            *)
(***************************************************************************)
EXTENDS Cramfs

CONSTANTS na, nb, nc   \* names; nc is a long one

MCNames   == {na, nb, nc}
MCNameLen == [n \in MCNames |-> CASE n = na -> 1 [] n = nb -> 2 [] n = nc -> 21]

Slot == {76, 92, 108}
NameAt == [x \in Slot |-> CASE x = 92 -> nb [] OTHER -> na]

E(x, kind, offset, size) ==
    [namelen |-> 4, name |-> NameAt[x], kind |-> kind,
     size |-> size, offset |-> offset]

\* A directory that is itself, that is its neighbour, that is empty, whose
\* size is no whole number of entries, that ends behind the image, that
\* starts behind it; a file of two blocks; a symlink.
Shapes(x) ==
    {E(x, "dir", 76, 16), E(x, "dir", 92, 32), E(x, "dir", 108, 16),
     E(x, "dir", 0, 0), E(x, "dir", 108, 20), E(x, "dir", 144, 16),
     E(x, "dir", 160, 0),
     E(x, "reg", 124, 5), E(x, "reg", 124, 4), E(x, "other", 124, 3)}

Odd(x) ==
    {[E(x, "reg", 124, 0) EXCEPT !.name = Unsafe],
     [E(x, "reg", 124, 0) EXCEPT !.namelen = 0],
     [E(x, "other", 0, 0) EXCEPT !.namelen = 24, !.name = nc],
     E(x, "reg", 124, 0)}

\* Two compressed blocks; a hole and a block; a pointer that goes back; one
\* that leaves the image; a stream that is not the length asked for.
Pointers ==
    {<<134, 138>>, <<132, 138>>, <<136, 134>>, <<134, 153>>, <<138, 138>>}

Streams ==
    [x \in {132, 134, 128} |-> [clen |-> 2, dlen |-> IF x = 134 THEN 1 ELSE 4]]

Image(root, e1, e2, e3, p, len) ==
    [len |-> len, size |-> 152, root |-> [offset |-> 76, size |-> root],
     ent |-> (76 :> e1) @@ (92 :> e2) @@ (108 :> e3),
     ptr |-> (124 :> p[1]) @@ (128 :> p[2]), zlib |-> Streams]

\* All trees over the data area that decodes, and all data areas and odd
\* entries in a flat directory.
TreeImages ==
    {Image(root, e1, e2, e3, <<134, 138>>, 160) :
       root \in {16, 32, 48}, e1 \in Shapes(76), e2 \in Shapes(92),
       e3 \in Shapes(108)}

FlatImages ==
    {Image(root, e1, e2, E(108, "reg", 124, 5), p, len) :
       root \in {32, 44, 100}, len \in {70, 94, 137, 160},
       e1 \in Odd(76) \cup {E(76, "reg", 124, 5), E(76, "dir", 92, 32)},
       e2 \in Odd(92) \cup {E(92, "reg", 124, 4), E(92, "reg", 124, 5)},
       p \in Pointers}

MCImages == TreeImages \cup FlatImages

=============================================================================

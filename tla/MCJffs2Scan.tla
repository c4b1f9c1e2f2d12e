----------------------------- MODULE MCJffs2Scan -----------------------------
(***************************************************************************)
(* Instances of Jffs2Scan: images of three nodes with gaps between them,   *)
(* some of the nodes malformed, cut off somewhere near the end, with magic *)
(* numbers strewn inside nodes and at offsets no node can have.            *)
(***************************************************************************)
EXTENDS Jffs2Scan, TLC

Node(type, totlen, payload) ==
    [type |-> type, totlen |-> totlen, payload |-> payload]

Sound == {Node("other", 12, 0), Node("other", 14, 0), Node("dirent", 43, 3),
          Node("inode", 72, 4)}
Bad   == {Node("other", 8, 0), Node("dirent", 40, 0), Node("dirent", 39, 1),
          Node("dirent", 41, 2), Node("inode", 67, 0), Node("inode", 72, 5)}

\* A stray magic in the payload of the first node, one in the first gap at an
\* odd place, one at the end of the image.
Image(n1, g2, n2, g3, n3, tail) ==
    LET x2 == Align(n1.totlen) + g2
        x3 == Align(x2 + n2.totlen) + g3
        end == x3 + n3.totlen + tail
    IN  [len |-> end,
         node |-> (0 :> n1) @@ (x2 :> n2) @@ (x3 :> n3)
                    @@ (IF n1.totlen > 40 THEN 40 :> Node("dirent", 41, 1) ELSE <<>>)
                    @@ (Align(n1.totlen) + 2 :> Node("other", 12, 0))
                    @@ (IF tail \in {10, 37} THEN (x3 + Align(n3.totlen) :> Node("other", 12, 0))
                                     ELSE <<>>)]

MCImages ==
    {Image(n1, g2, n2, g3, n3, tail) :
       n1 \in Sound \ {Node("other", 14, 0)}, g2 \in {0, 4, 8, 24},
       n2 \in Sound \cup Bad, g3 \in {0, 12},
       n3 \in {Node("other", 14, 0), Node("dirent", 43, 3), Node("dirent", 41, 2)},
       tail \in {-9, 0, 3, 10, 24, 37}}

=============================================================================

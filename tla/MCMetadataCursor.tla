-------------------------- MODULE MCMetadataCursor ---------------------------
(***************************************************************************)
(* Small images for MetadataCursor: a buffer of four bytes and headers     *)
(* whose size part goes up to seven, so that a block can claim more than   *)
(* the buffer holds.                                                       *)
(***************************************************************************)
EXTENDS MetadataCursor

\* A block stored as it is, one that inflates to p, and one that does not.
Plain(s)       == [hdr |-> STORED + Len(s), raw |-> s, inflates |-> FALSE, plain |-> <<>>]
Packed(n, p)   == [hdr |-> n, raw |-> [k \in 1 .. n |-> 0], inflates |-> TRUE, plain |-> p]
Broken(n)      == [hdr |-> n, raw |-> [k \in 1 .. n |-> 0], inflates |-> FALSE, plain |-> <<>>]
Cut(h, s)      == [hdr |-> h, raw |-> s, inflates |-> TRUE, plain |-> <<9>>]

\* The file: blocks one behind the other from offset 0 on.
RECURSIVE OffsetOf(_, _)
OffsetOf(bs, k) == IF k = 1 THEN 0 ELSE OffsetOf(bs, k - 1) + 2 + Len(bs[k - 1].raw)

FileOf(bs) ==
    LET len == OffsetOf(bs, Len(bs) + 1)
        blk == [o \in {OffsetOf(bs, k) : k \in DOMAIN bs} |->
                    bs[CHOOSE k \in DOMAIN bs : OffsetOf(bs, k) = o]]
        m == [len |-> len, blk |-> blk]
        rest[o \in 0 .. len] ==
            IF Loadable(m, o) THEN Data(m, o) \o rest[Behind(m, o)] ELSE <<>>
    IN [len |-> len, blk |-> blk, rest |-> rest]

\* What can stand in a table: a short and a full stored block, a packed one, a
\* packed one without content, and each of the headers that are refused (size
\* 0, larger than the buffer, behind the end of the file, no stream).
First == {Plain(<<1, 2>>), Plain(<<1, 2, 3, 4>>), Packed(1, <<1, 2, 3>>), Packed(1, <<>>)}
Later == {Plain(<<5>>), Packed(2, <<5, 6, 7, 8>>), Packed(1, <<>>), Plain(<<5, 6, 7, 5, 6>>),
          Plain(<<>>), Broken(2), Cut(3, <<0>>)}

MCImages == {FileOf(<<a, b, c>>) : a \in First, b \in Later, c \in {Plain(<<9>>), Packed(1, <<>>)}}

MCRefs == [block : {0}, offset : {0, 1, 2, 4}] \cup {[block |-> 99, offset |-> 0]}

MCBytes == 0 .. 9
=============================================================================

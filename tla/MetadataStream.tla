--------------------------- MODULE MetadataStream ----------------------------
(***************************************************************************)
(* What squashfs.c's readers of inodes, directories and fragment entries   *)
(* take a metadata cursor for: the bytes of a table from a position on, in *)
(* order and without gaps, however the table is cut into blocks.           *)
(***************************************************************************)
EXTENDS Naturals, Sequences

CONSTANT Bytes    \* what a table is made of

VARIABLES
    faulty,    \* TRUE: reading may also fail for lack of memory or of the disk
    status,    \* "closed", "idle", "read" or "failed"
    unread,    \* the bytes that are left
    asked,     \* how many the running read is to deliver
    got        \* what each read before it has delivered, in order

Init ==
    /\ faulty \in BOOLEAN
    /\ status = "closed"
    /\ unread \in Seq(Bytes)
    /\ asked = 0
    /\ got = <<>>

Open ==
    /\ status = "closed"
    /\ status' = "idle"
    /\ UNCHANGED <<faulty, unread, asked, got>>

\* The position may lie in no block at all.  Nothing is read any more after a
\* failure.
NotOpened ==
    /\ status = "closed"
    /\ status' = "failed"
    /\ unread' = <<>>
    /\ UNCHANGED <<faulty, asked, got>>

Ask ==
    /\ status = "idle"
    /\ status' = "read"
    /\ asked' \in Nat
    /\ UNCHANGED <<faulty, unread, got>>

\* A read delivers exactly the next bytes, all of them ...
Deliver ==
    /\ status = "read"
    /\ asked <= Len(unread)
    /\ status' = "idle"
    /\ got' = Append(got, SubSeq(unread, 1, asked))
    /\ unread' = SubSeq(unread, asked + 1, Len(unread))
    /\ asked' = 0
    /\ UNCHANGED faulty

\* ... or fails, and only because the table has fewer.
TooFew ==
    /\ status = "read"
    /\ asked > Len(unread) \/ faulty
    /\ status' = "failed"
    /\ unread' = <<>>
    /\ UNCHANGED <<faulty, asked, got>>

Next == Open \/ NotOpened \/ Ask \/ Deliver \/ TooFew

Spec == Init /\ [][Next]_<<faulty, status, unread, asked, got>>
=============================================================================

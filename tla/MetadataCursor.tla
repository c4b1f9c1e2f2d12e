--------------------------- MODULE MetadataCursor ----------------------------
(***************************************************************************)
(* The metadata cursor of squashfs.c (cursor_load_next_block, cursor_init, *)
(* cursor_read): a table of a squashfs image is a chain of blocks, each    *)
(* with a two-byte header that gives its stored size and whether it is     *)
(* compressed.  A read may end in one block and go on in the next.  All    *)
(* cursors of a walk share one FILE, so between two reads of a cursor      *)
(* others move the file position.                                          *)
(***************************************************************************)
EXTENDS Naturals, Sequences

CONSTANTS
    Images,      \* image records, see ImageOK
    Refs,        \* where a cursor may be opened: [block, offset]
    Bytes,       \* what a table is made of
    BUF_SIZE,    \* sizeof(c->buf), 8192 in the code
    STORED,      \* the header bit of a block stored as it is, 0x8000 in the code
    ReadSizes,   \* the numbers of bytes asked for
    MaxReads     \* bound on the reads of one cursor

\* The header's low bits are the stored size, the top bit is inverted.
size(b)       == b.hdr % STORED
compressed(b) == b.hdr < STORED

\* im.blk[o] is the block at offset o of the file, as far as it is there:
\* its header, the bytes behind it, and what decompress_block makes of them.
\* Where im.blk is not defined no header can be read.
Loadable(m, o) ==
    /\ o \in DOMAIN m.blk
    /\ size(m.blk[o]) \in 1 .. BUF_SIZE
    /\ size(m.blk[o]) <= Len(m.blk[o].raw)
    /\ compressed(m.blk[o]) => m.blk[o].inflates

Data(m, o) ==
    IF compressed(m.blk[o]) THEN m.blk[o].plain
                            ELSE SubSeq(m.blk[o].raw, 1, size(m.blk[o]))

Behind(m, o) == o + 2 + size(m.blk[o])

\* m.rest[o] is the table from offset o on: block after block up to the first
\* that cannot be loaded.  decompress_block puts out at most BUF_SIZE bytes.
ImageOK(m) ==
    /\ m.len \in Nat
    /\ DOMAIN m.blk \subseteq 0 .. m.len
    /\ m.rest \in [0 .. m.len -> Seq(Bytes)]
    /\ \A o \in DOMAIN m.blk :
        /\ m.blk[o].hdr \in 0 .. 2 * STORED - 1
        /\ m.blk[o].raw \in Seq(Bytes) /\ o + 2 + Len(m.blk[o].raw) <= m.len
        /\ m.blk[o].plain \in Seq(Bytes) /\ Len(m.blk[o].plain) <= BUF_SIZE
    /\ \A o \in 0 .. m.len :
        m.rest[o] = IF Loadable(m, o) THEN Data(m, o) \o m.rest[Behind(m, o)] ELSE <<>>

ASSUME MetadataAssumption ==
    /\ BUF_SIZE \in Nat \ {0} /\ STORED \in Nat \ {0} /\ BUF_SIZE < STORED
    /\ MaxReads \in Nat /\ ReadSizes \subseteq Nat
    /\ \A r \in Refs : r.block \in Nat /\ r.offset \in Nat
    /\ \A m \in Images : ImageOK(m)

VARIABLES
    im,      \* the image
    ref,     \* where the cursor is opened
    faulty,  \* TRUE: malloc, fseek and fread may fail
    pc,      \* "closed", "idle", "read" (inside cursor_read) or "failed"
    buf,     \* c->buf up to c->buf_len
    pos,     \* c->buf_pos
    next,    \* c->next_block_offset
    fpos,    \* the position of the shared FILE
    want,    \* n of the running cursor_read
    dst,     \* what it has copied so far
    got      \* what the reads before it have delivered

vars == <<im, ref, faulty, pc, buf, pos, next, fpos, want, dst, got>>

Init ==
    /\ im \in Images
    /\ ref \in Refs
    /\ faulty \in BOOLEAN
    /\ pc = "closed"
    /\ buf = <<>> /\ pos = 0 /\ next = ref.block /\ fpos = 0
    /\ want = 0 /\ dst = <<>> /\ got = <<>>

\* The callers give up with the first failure.
Fail == pc' = "failed" /\ UNCHANGED <<im, ref, faulty, buf, pos, next, fpos, want, dst, got>>

-----------------------------------------------------------------------------
\* A fault: the block is read where the file happens to be.
MUT_Load_no_seek(start) ==
    /\ Loadable(im, fpos)
    /\ buf' = Data(im, fpos)
    /\ pos' = start
    /\ next' = Behind(im, fpos)
    /\ fpos' = next'

\* cursor_load_next_block: seeks first, so fpos does not matter.
Load(start) ==
    /\ Loadable(im, next)
    /\ buf' = Data(im, next)
    /\ pos' = start
    /\ next' = Behind(im, next)
    /\ fpos' = next'

\* cursor_init.  The offset may be the block's length: the first byte is then
\* the next block's.
cursor_init ==
    /\ pc = "closed"
    /\ Load(ref.offset)
    /\ ref.offset <= Len(buf')
    /\ pc' = "idle"
    /\ UNCHANGED <<im, ref, faulty, want, dst, got>>

cursor_init_fails ==
    /\ pc = "closed"
    /\ \/ ~Loadable(im, next)
       \/ Loadable(im, next) /\ ref.offset > Len(Data(im, next))
       \/ faulty
    /\ Fail

\* cursor_read is called.
StartRead(n) ==
    /\ pc = "idle"
    /\ Len(got) < MaxReads
    /\ want' = n
    /\ dst' = <<>>
    /\ pc' = "read"
    /\ UNCHANGED <<im, ref, faulty, buf, pos, next, fpos, got>>

\* A fault: a used-up buffer is taken for one with bytes left.
MUT_Exhausted_late == pos > Len(buf)

Exhausted == pos >= Len(buf)

\* The loop of cursor_read: load when the buffer is used up ...
LoadNext ==
    /\ pc = "read" /\ want > 0
    /\ Exhausted
    /\ Load(0)
    /\ UNCHANGED <<im, ref, faulty, pc, want, dst, got>>

LoadFails ==
    /\ pc = "read" /\ want > 0
    /\ Exhausted
    /\ ~Loadable(im, next) \/ faulty
    /\ Fail

Take == IF want < Len(buf) - pos THEN want ELSE Len(buf) - pos

\* ... and copy what the block has.
Copy ==
    /\ pc = "read" /\ want > 0
    /\ ~Exhausted
    /\ dst' = dst \o SubSeq(buf, pos + 1, pos + Take)
    /\ pos' = pos + Take
    /\ want' = want - Take
    /\ UNCHANGED <<im, ref, faulty, pc, buf, next, fpos, got>>

ReadDone ==
    /\ pc = "read" /\ want = 0
    /\ got' = Append(got, dst)
    /\ dst' = <<>>
    /\ pc' = "idle"
    /\ UNCHANGED <<im, ref, faulty, buf, pos, next, fpos, want>>

\* Between two reads another cursor, or the extraction of a file, uses the
\* FILE.
OthersRead(o) ==
    /\ pc = "idle"
    /\ fpos' = o
    /\ UNCHANGED <<im, ref, faulty, pc, buf, pos, next, want, dst, got>>

cursor_read == LoadNext \/ LoadFails \/ Copy \/ ReadDone

Next ==
    \/ cursor_init \/ cursor_init_fails
    \/ \E n \in ReadSizes : StartRead(n)
    \/ cursor_read
    \/ \E o \in 0 .. im.len : OthersRead(o)

Spec == Init /\ [][Next]_vars

\* One thread: a call that has begun goes on.  No caller is obliged to read.
FairSpec == Spec /\ WF_vars(cursor_init \/ cursor_init_fails) /\ WF_vars(cursor_read)

-----------------------------------------------------------------------------
(* Properties.                                                             *)

\* The variables have their types; the position lies in the buffer, so that
\* the unsigned buf_len - buf_pos of cursor_read cannot wrap.
TypeOK ==
    /\ im \in Images /\ ref \in Refs /\ faulty \in BOOLEAN
    /\ pc \in {"closed", "idle", "read", "failed"}
    /\ buf \in Seq(Bytes) /\ Len(buf) <= BUF_SIZE
    /\ pos \in 0 .. Len(buf)
    /\ next \in Nat /\ fpos \in Nat
    /\ want \in Nat /\ dst \in Seq(Bytes) /\ got \in Seq(Seq(Bytes))

\* The bytes a cursor has still to deliver: those of the running read, those
\* left in the buffer, and the blocks behind.
From(s, k) == SubSeq(s, k + 1, Len(s))

TableAt(m, o) == IF o \in 0 .. m.len THEN m.rest[o] ELSE <<>>

unread ==
    CASE pc = "closed"           -> From(TableAt(im, ref.block), ref.offset)
      [] pc \in {"idle", "read"} -> dst \o (From(buf, pos) \o TableAt(im, next))
      [] pc = "failed"           -> <<>>

Stream == INSTANCE MetadataStream WITH status <- pc, asked <- Len(dst) + want

\* The reads of a cursor deliver the table's bytes in order, without gap or
\* repetition and whatever else uses the FILE between them, across any number
\* of block borders and blocks that decompress to nothing; a read fails only
\* when the table really has too few bytes left (cursor_read loads the next
\* block only when it needs a byte of it, so that the last entry of a table
\* can be read though no block follows).
ImplementsStream == Stream!Spec

\* Every cursor_read comes back: blocks that decompress to nothing do not keep
\* it in its loop for ever.
ReadReturns == pc = "read" ~> pc # "read"
=============================================================================

------------------------ MODULE MetadataCursorProofs -------------------------
(***************************************************************************)
(* The metadata cursor implements the stream its callers take it for, for  *)
(* every image, buffer size and sequence of reads.                         *)
(***************************************************************************)
EXTENDS MetadataCursor, SequenceTheorems, TLAPS

(***************************************************************************)
(* The end of a sequence.                                                  *)
(***************************************************************************)

\* A sequence without its first k elements.
LEMMA FromProperties ==
    ASSUME NEW S, NEW s \in Seq(S), NEW k \in Nat
    PROVE  /\ From(s, k) \in Seq(S)
           /\ Len(From(s, k)) = IF k <= Len(s) THEN Len(s) - k ELSE 0
           /\ From(s, 0) = s
           /\ k >= Len(s) => From(s, k) = <<>>
<1>1. Len(s) \in Nat /\ \A i \in k + 1 .. Len(s) : s[i] \in S
  BY LenProperties
<1>2. /\ SubSeq(s, k + 1, Len(s)) \in Seq(S)
      /\ Len(SubSeq(s, k + 1, Len(s)))
            = IF k + 1 <= Len(s) THEN Len(s) - (k + 1) + 1 ELSE 0
  BY <1>1, SubSeqProperties
<1>3. k >= Len(s) => SubSeq(s, k + 1, Len(s)) = <<>>
  BY <1>1, SubSeqEmpty
<1>4. SubSeq(s, 1, Len(s)) = s
  BY SubSeqFull
<1> QED BY <1>1, <1>2, <1>3, <1>4 DEF From

\* What is copied and what is left are together what there was.
LEMMA FromSplit ==
    ASSUME NEW S, NEW s \in Seq(S), NEW k \in 0 .. Len(s), NEW t \in 0 .. Len(s) - k
    PROVE  SubSeq(s, k + 1, k + t) \o From(s, k + t) = From(s, k)
<1>1. Len(s) \in Nat
  BY LenProperties
<1>2. k + 1 \in 1 .. Len(s) + 1 /\ k + t \in (k + 1) - 1 .. Len(s) /\ Len(s) \in k + t .. Len(s)
  BY <1>1
<1> QED BY <1>2, ConcatAdjacentSubSeq DEF From

\* The first bytes of a concatenation and those behind them.
LEMMA FirstOfConcat ==
    ASSUME NEW S, NEW d \in Seq(S), NEW r \in Seq(S)
    PROVE  /\ SubSeq(d \o r, 1, Len(d)) = d
           /\ SubSeq(d \o r, Len(d) + 1, Len(d \o r)) = r
<1>1. /\ Len(d) \in Nat /\ Len(r) \in Nat
      /\ d \o r \in Seq(S) /\ Len(d \o r) = Len(d) + Len(r)
      /\ \A i \in 1 .. Len(d) + Len(r) :
            (d \o r)[i] = IF i <= Len(d) THEN d[i] ELSE r[i - Len(d)]
  BY ConcatProperties, LenProperties
<1>2. \A i \in 1 .. Len(d) + Len(r) : (d \o r)[i] \in S
  BY <1>1, LenProperties
<1>3. SubSeq(d \o r, 1, Len(d)) = d
  <2> DEFINE u == SubSeq(d \o r, 1, Len(d))
  <2>1. \A i \in 1 .. Len(d) : (d \o r)[i] \in S
    BY <1>1, <1>2
  <2>2. /\ u \in Seq(S)
        /\ Len(u) = IF 1 <= Len(d) THEN Len(d) - 1 + 1 ELSE 0
        /\ \A i \in 1 .. Len(d) - 1 + 1 : u[i] = (d \o r)[1 + i - 1]
    BY <2>1, <1>1, SubSeqProperties
  <2> HIDE DEF u
  <2>3. Len(u) = Len(d)
    BY <2>2, <1>1
  <2>4. \A i \in 1 .. Len(u) : u[i] = d[i]
    BY <2>2, <2>3, <1>1
  <2>5. u = d
    BY <2>2, <2>3, <2>4, SeqEqual
  <2> QED BY <2>5 DEF u
<1>4. SubSeq(d \o r, Len(d) + 1, Len(d \o r)) = r
  <2> DEFINE u == SubSeq(d \o r, Len(d) + 1, Len(d) + Len(r))
  <2>1. \A i \in Len(d) + 1 .. Len(d) + Len(r) : (d \o r)[i] \in S
    BY <1>1, <1>2
  <2>2. /\ u \in Seq(S)
        /\ Len(u) = IF Len(d) + 1 <= Len(d) + Len(r)
                    THEN (Len(d) + Len(r)) - (Len(d) + 1) + 1 ELSE 0
        /\ \A i \in 1 .. (Len(d) + Len(r)) - (Len(d) + 1) + 1 :
                u[i] = (d \o r)[Len(d) + 1 + i - 1]
    BY <2>1, <1>1, SubSeqProperties
  <2> HIDE DEF u
  <2>3. Len(u) = Len(r)
    BY <2>2, <1>1
  <2>4. \A i \in 1 .. Len(u) : u[i] = r[i]
    BY <2>2, <2>3, <1>1
  <2>5. u = r
    BY <2>2, <2>3, <2>4, SeqEqual
  <2> QED BY <2>5, <1>1 DEF u
<1> QED BY <1>3, <1>4

\* Dropping elements of a first part only.
LEMMA FromConcat ==
    ASSUME NEW S, NEW d \in Seq(S), NEW r \in Seq(S), NEW k \in 0 .. Len(d)
    PROVE  From(d \o r, k) = From(d, k) \o r
<1> DEFINE a == SubSeq(d, 1, k)
           b == From(d, k)
<1>1. Len(d) \in Nat /\ k \in Nat
  BY LenProperties
<1>2. a \o b = d
  <2>1. 0 \in 0 .. Len(d) /\ k \in 0 .. Len(d) - 0
    BY <1>1
  <2>2. SubSeq(d, 0 + 1, 0 + k) \o From(d, 0 + k) = From(d, 0)
    BY <2>1, FromSplit
  <2>3. From(d, 0) = d
    BY FromProperties
  <2> QED BY <2>2, <2>3, <1>1
<1>3. b \in Seq(S)
  BY <1>1, FromProperties
<1>4. a \in Seq(S) /\ Len(a) = k
  <2>1. \A i \in 1 .. k : d[i] \in S
    BY <1>1, LenProperties
  <2>2. a \in Seq(S) /\ Len(a) = IF 1 <= k THEN k - 1 + 1 ELSE 0
    BY <2>1, <1>1, SubSeqProperties
  <2> QED BY <2>2, <1>1
<1> HIDE DEF a, b
<1>5. d \o r = a \o (b \o r)
  <2>1. (a \o b) \o r = a \o (b \o r)
    BY <1>3, <1>4, ConcatAssociative
  <2> QED BY <1>2, <2>1
<1>6. b \o r \in Seq(S)
  BY <1>3, ConcatProperties
<1>7. SubSeq(a \o (b \o r), Len(a) + 1, Len(a \o (b \o r))) = b \o r
  BY <1>4, <1>6, FirstOfConcat
<1> QED BY <1>4, <1>5, <1>7 DEF From, b

-----------------------------------------------------------------------------
(***************************************************************************)
(* Blocks.                                                                 *)
(***************************************************************************)

\* What a block decodes to fits the buffer.
LEMMA DataIsBytes ==
    ASSUME NEW m \in Images, NEW o, Loadable(m, o)
    PROVE  /\ Data(m, o) \in Seq(Bytes)
           /\ Len(Data(m, o)) <= BUF_SIZE
           /\ Behind(m, o) \in Nat
           /\ o \in 0 .. m.len
<1>1. ImageOK(m)
  BY MetadataAssumption
<1> DEFINE b == m.blk[o]
           n == size(b)
<1>2. /\ o \in DOMAIN m.blk /\ n \in 1 .. BUF_SIZE /\ n <= Len(b.raw)
  BY DEF Loadable
<1>3. m.len \in Nat /\ o \in 0 .. m.len /\ b.raw \in Seq(Bytes)
      /\ b.plain \in Seq(Bytes) /\ Len(b.plain) <= BUF_SIZE
  BY <1>1, <1>2 DEF ImageOK
<1> HIDE DEF n
<1>4. SubSeq(b.raw, 1, n) \in Seq(Bytes) /\ Len(SubSeq(b.raw, 1, n)) <= BUF_SIZE
  <2>1. \A i \in 1 .. n : b.raw[i] \in Bytes
    BY <1>2, <1>3, LenProperties
  <2>2. /\ SubSeq(b.raw, 1, n) \in Seq(Bytes)
        /\ Len(SubSeq(b.raw, 1, n)) = IF 1 <= n THEN n - 1 + 1 ELSE 0
    BY <2>1, <1>2, SubSeqProperties
  <2> QED BY <2>2, <1>2
<1>5. Behind(m, o) \in Nat
  BY <1>2, <1>3 DEF Behind, n
<1> QED BY <1>3, <1>4, <1>5 DEF Data, n

\* The table from a block on is the block and the table behind it.
LEMMA TableUnfolds ==
    ASSUME NEW m \in Images, NEW o \in Nat
    PROVE  /\ TableAt(m, o) \in Seq(Bytes)
           /\ Loadable(m, o) => TableAt(m, o) = Data(m, o) \o TableAt(m, Behind(m, o))
           /\ ~Loadable(m, o) => TableAt(m, o) = <<>>
<1>1. ImageOK(m)
  BY MetadataAssumption
<1>2. TableAt(m, o) \in Seq(Bytes)
  BY <1>1, EmptySeq DEF TableAt, ImageOK
<1>3. ASSUME Loadable(m, o)
      PROVE  Behind(m, o) \in 0 .. m.len
  <2> DEFINE b == m.blk[o]
             n == size(b)
  <2>1. /\ o \in DOMAIN m.blk /\ n \in 1 .. BUF_SIZE /\ n <= Len(b.raw)
    BY <1>3 DEF Loadable
  <2>2. b.raw \in Seq(Bytes) /\ o + 2 + Len(b.raw) <= m.len /\ m.len \in Nat
    BY <1>1, <2>1 DEF ImageOK
  <2>3. Len(b.raw) \in Nat
    BY <2>2, LenProperties
  <2> HIDE DEF n
  <2>4. n \in Nat
    <3>1. BUF_SIZE \in Nat
      BY MetadataAssumption
    <3> QED BY <2>1, <3>1
  <2>5. \A l, e \in Nat : n <= l /\ o + 2 + l <= e => o + 2 + n \in 0 .. e
    BY <2>4
  <2>6. o + 2 + n \in 0 .. m.len
    BY <2>1, <2>2, <2>3, <2>5
  <2> QED BY <2>6 DEF Behind, n
<1>4. ASSUME Loadable(m, o)
      PROVE  TableAt(m, o) = Data(m, o) \o TableAt(m, Behind(m, o))
  <2>1. o \in 0 .. m.len
    BY <1>4, DataIsBytes
  <2>2. m.rest[o] = Data(m, o) \o m.rest[Behind(m, o)]
    BY <1>1, <1>4, <2>1 DEF ImageOK
  <2> QED BY <2>1, <2>2, <1>3, <1>4 DEF TableAt
<1>5. ASSUME ~Loadable(m, o)
      PROVE  TableAt(m, o) = <<>>
  BY <1>1, <1>5 DEF TableAt, ImageOK
<1> QED BY <1>2, <1>4, <1>5

-----------------------------------------------------------------------------
(***************************************************************************)
(* The invariant.                                                          *)
(***************************************************************************)

\* Outside cursor_read nothing is asked for, and a closed cursor is empty.
Phases ==
    /\ pc \in {"closed", "idle"} => dst = <<>> /\ want = 0
    /\ pc = "closed" => buf = <<>> /\ pos = 0 /\ next = ref.block /\ got = <<>>

IInv == TypeOK /\ Phases

\* The initial state has the types, and its cursor is closed.
LEMMA InitIInv == Init => IInv
<1> SUFFICES ASSUME Init PROVE IInv
  OBVIOUS
<1>1. ref.block \in Nat
  BY MetadataAssumption DEF Init
<1>2. <<>> \in Seq(Bytes) /\ <<>> \in Seq(Seq(Bytes)) /\ Len(<<>>) = 0
  BY EmptySeq
<1> QED BY MetadataAssumption, <1>1, <1>2 DEF Init, IInv, TypeOK, Phases

\* A block has been loaded.
LEMMA LoadType ==
    ASSUME TypeOK, NEW k \in Nat, Load(k), k <= Len(buf')
    PROVE  /\ buf' \in Seq(Bytes) /\ Len(buf') <= BUF_SIZE
           /\ pos' \in 0 .. Len(buf')
           /\ next' \in Nat /\ fpos' \in Nat
<1>1. Loadable(im, next) /\ buf' = Data(im, next) /\ pos' = k
      /\ next' = Behind(im, next) /\ fpos' = next'
  BY DEF Load
<1>2. Data(im, next) \in Seq(Bytes) /\ Len(Data(im, next)) <= BUF_SIZE
      /\ Behind(im, next) \in Nat
  BY <1>1, DataIsBytes DEF TypeOK
<1>3. Len(Data(im, next)) \in Nat
  BY <1>2, LenProperties
<1> QED BY <1>1, <1>2, <1>3

\* What is copied comes from the buffer.
LEMMA CopyType ==
    ASSUME TypeOK, want > 0, ~Exhausted
    PROVE  /\ Len(buf) \in Nat /\ Len(dst) \in Nat
           /\ Take \in 1 .. Len(buf) - pos
           /\ want - Take \in Nat
           /\ SubSeq(buf, pos + 1, pos + Take) \in Seq(Bytes)
           /\ Len(SubSeq(buf, pos + 1, pos + Take)) = Take
<1>1. Len(buf) \in Nat /\ Len(dst) \in Nat /\ pos \in 0 .. Len(buf) /\ want \in Nat
  BY LenProperties DEF TypeOK
<1>2. Take \in 1 .. Len(buf) - pos /\ want - Take \in Nat
  BY <1>1 DEF Take, Exhausted
<1> HIDE DEF Take
<1>3. PICK t \in Nat : t = Take /\ t >= 1 /\ t <= Len(buf) - pos
  BY <1>1, <1>2
<1>4. \A i \in pos + 1 .. pos + t : buf[i] \in Bytes
  BY <1>1, <1>3, LenProperties DEF TypeOK
<1>5. /\ SubSeq(buf, pos + 1, pos + t) \in Seq(Bytes)
      /\ Len(SubSeq(buf, pos + 1, pos + t))
            = IF pos + 1 <= pos + t THEN (pos + t) - (pos + 1) + 1 ELSE 0
  BY <1>1, <1>3, <1>4, SubSeqProperties
<1> QED BY <1>1, <1>2, <1>3, <1>5

\* Every step keeps the types and what the phases of a read add to them.
LEMMA NextIInv == IInv /\ [Next]_vars => IInv'
<1> SUFFICES ASSUME IInv, [Next]_vars PROVE IInv'
  OBVIOUS
<1>0. TypeOK /\ Phases
  BY DEF IInv
<1>1. CASE cursor_init
  <2>1. pc = "closed" /\ Load(ref.offset) /\ ref.offset <= Len(buf') /\ pc' = "idle"
        /\ UNCHANGED <<im, ref, faulty, want, dst, got>>
    BY <1>1 DEF cursor_init
  <2>2. ref.offset \in Nat
    BY MetadataAssumption, <1>0 DEF TypeOK
  <2>3. /\ buf' \in Seq(Bytes) /\ Len(buf') <= BUF_SIZE
        /\ pos' \in 0 .. Len(buf')
        /\ next' \in Nat /\ fpos' \in Nat
    BY <1>0, <2>1, <2>2, LoadType
  <2> QED BY <1>0, <2>1, <2>3 DEF IInv, TypeOK, Phases
<1>2. CASE Fail
  BY <1>0, <1>2 DEF Fail, IInv, TypeOK, Phases
<1>3. ASSUME NEW n \in ReadSizes, StartRead(n)
      PROVE  IInv'
  <2>1. n \in Nat /\ <<>> \in Seq(Bytes)
    BY MetadataAssumption, EmptySeq
  <2> QED BY <1>0, <1>3, <2>1 DEF StartRead, IInv, TypeOK, Phases
<1>4. CASE LoadNext
  <2>1. pc = "read" /\ Load(0) /\ UNCHANGED <<im, ref, faulty, pc, want, dst, got>>
    BY <1>4 DEF LoadNext
  <2>2. Data(im, next) \in Seq(Bytes) /\ buf' = Data(im, next)
    BY <1>0, <2>1, DataIsBytes DEF Load, TypeOK
  <2>3. 0 <= Len(buf')
    BY <2>2, LenProperties
  <2>4. /\ buf' \in Seq(Bytes) /\ Len(buf') <= BUF_SIZE
        /\ pos' \in 0 .. Len(buf')
        /\ next' \in Nat /\ fpos' \in Nat
    BY <1>0, <2>1, <2>3, LoadType
  <2> QED BY <1>0, <2>1, <2>4 DEF IInv, TypeOK, Phases
<1>5. CASE Copy
  <2>1. /\ pc = "read" /\ want > 0 /\ ~Exhausted
        /\ dst' = dst \o SubSeq(buf, pos + 1, pos + Take)
        /\ pos' = pos + Take /\ want' = want - Take
        /\ UNCHANGED <<im, ref, faulty, pc, buf, next, fpos, got>>
    BY <1>5 DEF Copy
  <2>2. /\ Len(buf) \in Nat /\ Take \in 1 .. Len(buf) - pos /\ want - Take \in Nat
        /\ SubSeq(buf, pos + 1, pos + Take) \in Seq(Bytes)
    BY <1>0, <2>1, CopyType
  <2> HIDE DEF Take
  <2>3. dst' \in Seq(Bytes)
    BY <1>0, <2>1, <2>2, ConcatProperties DEF TypeOK
  <2>4. pos' \in 0 .. Len(buf)
    BY <1>0, <2>1, <2>2 DEF TypeOK
  <2> QED BY <1>0, <2>1, <2>2, <2>3, <2>4 DEF IInv, TypeOK, Phases
<1>6. CASE ReadDone
  <2>1. <<>> \in Seq(Bytes) /\ got' = Append(got, dst)
    BY <1>6, EmptySeq DEF ReadDone
  <2>2. got' \in Seq(Seq(Bytes))
    BY <1>0, <2>1, AppendProperties DEF TypeOK
  <2> QED BY <1>0, <1>6, <2>1, <2>2 DEF ReadDone, IInv, TypeOK, Phases
<1>7. ASSUME NEW o \in 0 .. im.len, OthersRead(o)
      PROVE  IInv'
  <2>1. im.len \in Nat
    BY MetadataAssumption, <1>0 DEF TypeOK, ImageOK
  <2> QED BY <1>0, <1>7, <2>1 DEF OthersRead, IInv, TypeOK, Phases
<1>8. CASE UNCHANGED vars
  BY <1>0, <1>8 DEF vars, IInv, TypeOK, Phases
<1> QED
  BY <1>1, <1>2, <1>3, <1>4, <1>5, <1>6, <1>7, <1>8
     DEF Next, cursor_read, cursor_init_fails, LoadFails

\* The variables have their types, and the position stays inside the buffer.
THEOREM TypeCorrect == Spec => []TypeOK
<1>1. IInv => TypeOK
  BY DEF IInv
<1> QED BY InitIInv, NextIInv, <1>1, PTL DEF Spec

-----------------------------------------------------------------------------
(***************************************************************************)
(* The refinement.                                                         *)
(***************************************************************************)

\* The bytes behind the cursor: what is left of the buffer, and the table.
Ahead == From(buf, pos) \o TableAt(im, next)

\* What is ahead of the cursor is a sequence of bytes.
LEMMA AheadIsBytes ==
    ASSUME TypeOK
    PROVE  /\ From(buf, pos) \in Seq(Bytes)
           /\ TableAt(im, next) \in Seq(Bytes)
           /\ Ahead \in Seq(Bytes)
           /\ dst \in Seq(Bytes) /\ Len(dst) \in Nat
<1>1. pos \in Nat /\ buf \in Seq(Bytes) /\ im \in Images /\ next \in Nat /\ dst \in Seq(Bytes)
  BY LenProperties DEF TypeOK
<1>2. From(buf, pos) \in Seq(Bytes) /\ TableAt(im, next) \in Seq(Bytes)
  BY <1>1, FromProperties, TableUnfolds
<1> QED BY <1>1, <1>2, ConcatProperties, LenProperties DEF Ahead

\* A load changes nothing of what lies ahead when the buffer is used up.
LEMMA LoadKeepsAhead ==
    ASSUME TypeOK, NEW k \in Nat, Load(k), k <= Len(buf'), im' = im
    PROVE  Ahead' = From(TableAt(im, next), k)
<1>1. im \in Images /\ next \in Nat
  BY DEF TypeOK
<1>2. Loadable(im, next) /\ buf' = Data(im, next) /\ pos' = k /\ next' = Behind(im, next)
  BY DEF Load
<1>3. Data(im, next) \in Seq(Bytes) /\ Behind(im, next) \in Nat
  BY <1>1, <1>2, DataIsBytes
<1>4. TableAt(im, Behind(im, next)) \in Seq(Bytes)
  BY <1>1, <1>3, TableUnfolds
<1>5. TableAt(im, next) = Data(im, next) \o TableAt(im, Behind(im, next))
  BY <1>1, <1>2, TableUnfolds
<1>6. k \in 0 .. Len(Data(im, next))
  BY <1>2, <1>3, LenProperties
<1>7. From(Data(im, next) \o TableAt(im, Behind(im, next)), k)
        = From(Data(im, next), k) \o TableAt(im, Behind(im, next))
  BY <1>3, <1>4, <1>6, FromConcat
<1>8. Ahead' = From(Data(im, next), k) \o TableAt(im, Behind(im, next))
  BY <1>2 DEF Ahead, From, TableAt
<1> QED BY <1>5, <1>7, <1>8

\* With the buffer used up, what is ahead is the table from the next block on.
LEMMA UsedUp ==
    ASSUME TypeOK, Exhausted
    PROVE  Ahead = TableAt(im, next)
<1>1. buf \in Seq(Bytes) /\ pos \in Nat /\ pos >= Len(buf)
  BY LenProperties DEF TypeOK, Exhausted
<1>2. From(buf, pos) = <<>>
  BY <1>1, FromProperties
<1> QED BY <1>2, AheadIsBytes, ConcatEmptySeq DEF Ahead

\* The initial states are initial states of the stream.
LEMMA InitRefines == Init => Stream!Init
<1> SUFFICES ASSUME Init PROVE Stream!Init
  OBVIOUS
<1>1. TypeOK /\ pc = "closed" /\ dst = <<>> /\ want = 0 /\ got = <<>>
  BY InitIInv DEF IInv, Init
<1>2. ref.offset \in Nat /\ TableAt(im, ref.block) \in Seq(Bytes)
  BY MetadataAssumption, <1>1, TableUnfolds DEF TypeOK
<1>3. unread \in Seq(Bytes)
  BY <1>1, <1>2, FromProperties DEF unread
<1>4. Len(dst) + want = 0
  BY <1>1
<1> QED BY <1>1, <1>3, <1>4 DEF Stream!Init, TypeOK

\* Every step is one of the stream, or a stutter.
LEMMA StepRefines ==
    IInv /\ [Next]_vars => [Stream!Next]_<<faulty, pc, unread, Len(dst) + want, got>>
<1> DEFINE asked == Len(dst) + want
           Goal == [Stream!Next]_<<faulty, pc, unread, Len(dst) + want, got>>
<1> SUFFICES ASSUME IInv, [Next]_vars PROVE Goal
  OBVIOUS
<1>0. TypeOK /\ Phases
  BY DEF IInv
<1>a. IInv'
  BY NextIInv
<1>b. TypeOK' /\ Phases'
  BY <1>a DEF IInv
<1>c. /\ Ahead \in Seq(Bytes) /\ dst \in Seq(Bytes) /\ Len(dst) \in Nat
      /\ From(buf, pos) \in Seq(Bytes) /\ TableAt(im, next) \in Seq(Bytes)
  BY <1>0, AheadIsBytes
<1>d. pc \in {"idle", "read"} => unread = dst \o Ahead
  BY DEF unread, Ahead
<1>e. pc' \in {"idle", "read"} => unread' = dst' \o Ahead'
  BY DEF unread, Ahead
<1>f. want \in Nat
  BY <1>0 DEF TypeOK
<1>1. CASE cursor_init
  <2>1. pc = "closed" /\ Load(ref.offset) /\ ref.offset <= Len(buf') /\ pc' = "idle"
        /\ UNCHANGED <<im, ref, faulty, want, dst, got>>
    BY <1>1 DEF cursor_init
  <2>2. ref.offset \in Nat /\ next = ref.block /\ dst = <<>>
    BY MetadataAssumption, <1>0, <2>1 DEF TypeOK, Phases
  <2>3. Ahead' = From(TableAt(im, ref.block), ref.offset)
    BY <1>0, <2>1, <2>2, LoadKeepsAhead
  <2>4. unread = From(TableAt(im, ref.block), ref.offset)
    BY <2>1 DEF unread
  <2>5. TableAt(im, ref.block) \in Seq(Bytes)
    BY <1>c, <2>2
  <2>6. unread \in Seq(Bytes)
    BY <2>2, <2>4, <2>5, FromProperties
  <2>7. unread' = unread
    <3>1. unread' = <<>> \o unread
      BY <1>e, <2>1, <2>2, <2>3, <2>4
    <3> QED BY <3>1, <2>6, ConcatEmptySeq
  <2> QED BY <2>1, <2>7 DEF Stream!Next, Stream!Open
<1>2. CASE cursor_init_fails
  <2>1. pc = "closed" /\ pc' = "failed" /\ UNCHANGED <<faulty, want, dst, got>>
    BY <1>2 DEF cursor_init_fails, Fail
  <2>2. unread' = <<>>
    BY <2>1 DEF unread
  <2> QED BY <2>1, <2>2 DEF Stream!Next, Stream!NotOpened
<1>3. ASSUME NEW n \in ReadSizes, StartRead(n)
      PROVE  Goal
  <2>1. /\ pc = "idle" /\ pc' = "read" /\ want' = n /\ dst' = <<>>
        /\ UNCHANGED <<im, ref, faulty, buf, pos, next, fpos, got>>
    BY <1>3 DEF StartRead
  <2>2. dst = <<>> /\ Ahead' = Ahead /\ n \in Nat
    BY MetadataAssumption, <1>0, <2>1 DEF Phases, Ahead, From, TableAt
  <2>3. unread' = unread
    BY <1>d, <1>e, <2>1, <2>2
  <2>4. (Len(dst) + want)' \in Nat
    BY <2>1, <2>2
  <2> QED BY <2>1, <2>3, <2>4 DEF Stream!Next, Stream!Ask
<1>4. CASE LoadNext
  <2>1. pc = "read" /\ Load(0) /\ Exhausted
        /\ UNCHANGED <<im, ref, faulty, pc, want, dst, got>>
    BY <1>4 DEF LoadNext
  <2>2. 0 <= Len(buf')
    BY <1>b, LenProperties DEF TypeOK
  <2>3. Ahead' = From(TableAt(im, next), 0)
    BY <1>0, <2>1, <2>2, LoadKeepsAhead
  <2>4. From(TableAt(im, next), 0) = TableAt(im, next)
    BY <1>c, FromProperties
  <2>5. Ahead' = Ahead
    BY <1>0, <2>1, <2>3, <2>4, UsedUp
  <2>6. unread' = unread
    BY <1>d, <1>e, <2>1, <2>5
  <2> QED BY <2>1, <2>6
<1>5. CASE Copy
  <2> DEFINE c == SubSeq(buf, pos + 1, pos + Take)
  <2>1. /\ pc = "read" /\ want > 0 /\ ~Exhausted
        /\ dst' = dst \o c
        /\ pos' = pos + Take /\ want' = want - Take
        /\ UNCHANGED <<im, ref, faulty, pc, buf, next, fpos, got>>
    BY <1>5 DEF Copy
  <2>2. /\ Len(buf) \in Nat /\ Take \in 1 .. Len(buf) - pos /\ want - Take \in Nat
        /\ c \in Seq(Bytes) /\ Len(c) = Take
    BY <1>0, <2>1, CopyType
  <2> HIDE DEF Take
  <2>3. c \o From(buf, pos + Take) = From(buf, pos)
    <3>1. pos \in 0 .. Len(buf) /\ Take \in 0 .. Len(buf) - pos /\ buf \in Seq(Bytes)
      BY <1>0, <2>2 DEF TypeOK
    <3> QED BY <3>1, FromSplit
  <2> DEFINE b == From(buf, pos + Take)
             t == TableAt(im, next)
  <2>4. b \in Seq(Bytes) /\ t \in Seq(Bytes)
    <3>1. pos + Take \in Nat /\ buf \in Seq(Bytes)
      BY <1>0, <2>2 DEF TypeOK
    <3> QED BY <3>1, <1>c, FromProperties
  <2>5. Ahead' = b \o t
    BY <2>1 DEF Ahead, From, TableAt
  <2>6. Ahead = (c \o b) \o t
    BY <2>3 DEF Ahead
  <2> HIDE DEF b, c, t
  <2>7. Ahead = c \o (b \o t)
    <3>0. c \in Seq(Bytes) /\ b \in Seq(Bytes) /\ t \in Seq(Bytes)
      BY <2>2, <2>4
    <3>1. (c \o b) \o t = c \o (b \o t)
      BY ONLY <3>0, ConcatAssociative
    <3> QED BY <2>6, <3>1
  <2>8. (dst \o c) \o Ahead' = dst \o Ahead
    <3> DEFINE r == b \o t
    <3>1. r \in Seq(Bytes)
      BY <2>4, ConcatProperties
    <3>2. Ahead' = r /\ Ahead = c \o r
      BY <2>5, <2>7
    <3> HIDE DEF r
    <3>3. dst \in Seq(Bytes) /\ c \in Seq(Bytes) /\ r \in Seq(Bytes)
      BY <1>c, <2>2, <3>1
    <3>4. (dst \o c) \o r = dst \o (c \o r)
      BY ONLY <3>3, ConcatAssociative
    <3> QED BY <3>2, <3>4
  <2>9. unread' = unread
    BY <1>d, <1>e, <2>1, <2>8
  <2>10. (Len(dst) + want)' = Len(dst) + want
    <3>1. Len(dst \o c) = Len(dst) + Take
      BY <1>c, <2>2, ConcatProperties
    <3>2. (Len(dst) + want)' = (Len(dst) + Take) + (want - Take)
      BY <2>1, <3>1
    <3> QED BY <1>c, <1>f, <2>2, <3>2
  <2> QED BY <2>1, <2>9, <2>10
<1>6. CASE LoadFails
  <2>1. /\ pc = "read" /\ want > 0 /\ Exhausted /\ (~Loadable(im, next) \/ faulty)
        /\ pc' = "failed" /\ UNCHANGED <<faulty, want, dst, got>>
    BY <1>6 DEF LoadFails, Fail
  <2>2. unread' = <<>>
    BY <2>1 DEF unread
  <2>3. ~Loadable(im, next) => Len(dst) + want > Len(unread)
    <3>1. ASSUME ~Loadable(im, next)
          PROVE  Ahead = <<>>
      <4>1. TableAt(im, next) = <<>>
        BY <1>0, <3>1, TableUnfolds DEF TypeOK
      <4> QED BY <1>0, <2>1, <4>1, UsedUp
    <3>2. ASSUME ~Loadable(im, next)
          PROVE  unread = dst
      BY <1>c, <1>d, <2>1, <3>1, <3>2, ConcatEmptySeq
    <3> QED BY <3>2, <2>1, <1>c, <1>f
  <2> QED BY <2>1, <2>2, <2>3 DEF Stream!Next, Stream!TooFew
<1>7. CASE ReadDone
  <2>1. /\ pc = "read" /\ want = 0 /\ got' = Append(got, dst) /\ dst' = <<>> /\ pc' = "idle"
        /\ UNCHANGED <<im, ref, faulty, buf, pos, next, fpos, want>>
    BY <1>7 DEF ReadDone
  <2>2. Ahead' = Ahead
    BY <2>1 DEF Ahead, From, TableAt
  <2>3. unread = dst \o Ahead /\ unread' = Ahead
    <3>1. <<>> \o Ahead = Ahead
      BY <1>c, ConcatEmptySeq
    <3> QED BY <1>d, <1>e, <2>1, <2>2, <3>1
  <2>4. Len(dst) + want = Len(dst)
    BY <2>1, <1>c
  <2>5. /\ SubSeq(unread, 1, Len(dst)) = dst
        /\ SubSeq(unread, Len(dst) + 1, Len(unread)) = Ahead
    BY <1>c, <2>3, FirstOfConcat
  <2>6. Len(dst) <= Len(unread)
    <3>1. Len(unread) = Len(dst) + Len(Ahead) /\ Len(Ahead) \in Nat
      BY <1>c, <2>3, ConcatProperties, LenProperties
    <3> QED BY <3>1, <1>c
  <2>7. (Len(dst) + want)' = 0
    <3>1. Len(<<>>) = 0
      BY EmptySeq
    <3> QED BY <2>1, <3>1
  <2>8. Stream!Deliver
    BY <2>1, <2>3, <2>4, <2>5, <2>6, <2>7 DEF Stream!Deliver
  <2> QED BY <2>8 DEF Stream!Next
<1>8. ASSUME NEW o \in 0 .. im.len, OthersRead(o)
      PROVE  Goal
  <2>1. pc = "idle" /\ UNCHANGED <<im, ref, faulty, pc, buf, pos, next, want, dst, got>>
    BY <1>8 DEF OthersRead
  <2> QED BY <2>1 DEF unread, From, TableAt
<1>9. CASE UNCHANGED vars
  BY <1>9 DEF vars, unread, From, TableAt
<1> QED
  BY <1>1, <1>2, <1>3, <1>4, <1>5, <1>6, <1>7, <1>8, <1>9 DEF Next, cursor_read

\* A cursor is a stream: its reads deliver the table's bytes in order and
\* without gap, whatever blocks they lie in and whatever moves the FILE between
\* two reads, and fail only when the table has fewer or the machine fails.
THEOREM Refinement == Spec => ImplementsStream
<1> QED BY InitIInv, NextIInv, InitRefines, StepRefines, PTL
        DEF Spec, ImplementsStream, Stream!Spec
=============================================================================

-------------------------- MODULE SyncDatasetProofs --------------------------
(***************************************************************************)
(* The data set script, for every page size and every sequence of changes  *)
(* on the server: paging loses no CVE that is listed throughout, a sync    *)
(* that fails before it writes leaves the file alone, and what crimp then  *)
(* reports is what the records say.                                        *)
(***************************************************************************)
EXTENDS SyncDataset, SequenceTheorems, WellFoundedInduction, TLAPS

(***************************************************************************)
(* The server's two edits and a page, as facts about sequences.            *)
(***************************************************************************)

\* Where the elements of a concatenation and of a part of a sequence are.
LEMMA ConcatAt ==
    ASSUME NEW S, NEW a \in Seq(S), NEW b \in Seq(S)
    PROVE  /\ a \o b \in Seq(S) /\ Len(a \o b) = Len(a) + Len(b)
           /\ Len(a) \in Nat /\ Len(b) \in Nat
           /\ \A x \in 1 .. Len(a) : (a \o b)[x] = a[x]
           /\ \A x \in 1 .. Len(b) : (a \o b)[Len(a) + x] = b[x]
<1>1. /\ a \o b \in Seq(S) /\ Len(a \o b) = Len(a) + Len(b)
      /\ Len(a) \in Nat /\ Len(b) \in Nat
      /\ \A x \in 1 .. Len(a) + Len(b) :
            (a \o b)[x] = IF x <= Len(a) THEN a[x] ELSE b[x - Len(a)]
  BY ConcatProperties, LenProperties
<1>2. ASSUME NEW x \in 1 .. Len(b) PROVE (a \o b)[Len(a) + x] = b[x]
  <2>1. /\ Len(a) + x \in 1 .. Len(a) + Len(b) /\ ~(Len(a) + x <= Len(a))
        /\ (Len(a) + x) - Len(a) = x
    BY <1>1
  <2> QED BY <1>1, <2>1
<1>3. ASSUME NEW x \in 1 .. Len(a) PROVE (a \o b)[x] = a[x]
  <2>1. x \in 1 .. Len(a) + Len(b) /\ x <= Len(a)
    BY <1>1
  <2> QED BY <1>1, <2>1
<1> QED BY <1>1, <1>2, <1>3

\* A part of a sequence, by its ends.
LEMMA PartAt ==
    ASSUME NEW S, NEW s \in Seq(S), NEW l \in Nat, NEW n \in Nat, l <= n, n <= Len(s)
    PROVE  /\ SubSeq(s, l + 1, n) \in Seq(S)
           /\ Len(SubSeq(s, l + 1, n)) = n - l
           /\ \A x \in 1 .. n - l : SubSeq(s, l + 1, n)[x] = s[l + x]
<1>1. Len(s) \in Nat /\ \A x \in l + 1 .. n : s[x] \in S
  BY LenProperties
<1>2. /\ SubSeq(s, l + 1, n) \in Seq(S)
      /\ Len(SubSeq(s, l + 1, n)) = IF l + 1 <= n THEN n - (l + 1) + 1 ELSE 0
      /\ \A x \in 1 .. n - (l + 1) + 1 : SubSeq(s, l + 1, n)[x] = s[(l + 1) + x - 1]
  BY <1>1, SubSeqProperties
<1>3. Len(SubSeq(s, l + 1, n)) = n - l
  BY <1>2
<1>4. ASSUME NEW x \in 1 .. n - l PROVE SubSeq(s, l + 1, n)[x] = s[l + x]
  <2>1. x \in 1 .. n - (l + 1) + 1 /\ (l + 1) + x - 1 = l + x
    OBVIOUS
  <2> QED BY <1>2, <2>1
<1> QED BY <1>2, <1>3, <1>4

\* What is put in moves nothing to the front.
LEMMA AfterPublish ==
    ASSUME NEW S, NEW s \in Seq(S), NEW c \in S, NEW k \in 1 .. Len(s) + 1
    PROVE  /\ InsertAt(s, k, c) \in Seq(S)
           /\ \A x \in 1 .. Len(s) :
                \E m \in 1 .. Len(InsertAt(s, k, c)) : m >= x /\ InsertAt(s, k, c)[m] = s[x]
<1> DEFINE a == SubSeq(s, 1, k - 1)
           b == SubSeq(s, k, Len(s))
           e == <<c>>
           f == a \o e
           t == f \o b
<1>0. Len(s) \in Nat /\ k \in Nat /\ k - 1 \in Nat /\ k - 1 <= Len(s) /\ (k - 1) + 1 = k
      /\ 0 <= k - 1
  BY LenProperties
<1>1. a \in Seq(S) /\ Len(a) = k - 1 /\ \A x \in 1 .. k - 1 : a[x] = s[x]
  <2>1. 0 \in Nat /\ 0 + 1 = 1 /\ (k - 1) - 0 = k - 1 /\ \A x \in 1 .. k - 1 : 0 + x = x
    BY <1>0
  <2>2. /\ SubSeq(s, 0 + 1, k - 1) \in Seq(S) /\ Len(SubSeq(s, 0 + 1, k - 1)) = (k - 1) - 0
        /\ \A x \in 1 .. (k - 1) - 0 : SubSeq(s, 0 + 1, k - 1)[x] = s[0 + x]
    BY <1>0, <2>1, PartAt
  <2> QED BY <2>1, <2>2
<1>2. /\ b \in Seq(S) /\ Len(b) = Len(s) - (k - 1)
      /\ \A x \in 1 .. Len(s) - (k - 1) : b[x] = s[(k - 1) + x]
  <2>1. /\ SubSeq(s, (k - 1) + 1, Len(s)) \in Seq(S)
        /\ Len(SubSeq(s, (k - 1) + 1, Len(s))) = Len(s) - (k - 1)
        /\ \A x \in 1 .. Len(s) - (k - 1) : SubSeq(s, (k - 1) + 1, Len(s))[x] = s[(k - 1) + x]
    BY <1>0, PartAt
  <2> QED BY <1>0, <2>1
<1>3. e \in Seq(S) /\ Len(e) = 1
  OBVIOUS
<1> HIDE DEF a, b, e
<1>5. /\ f \in Seq(S) /\ Len(f) = k
      /\ \A x \in 1 .. k - 1 : f[x] = a[x]
  <2>0. a \in Seq(S) /\ e \in Seq(S)
    BY <1>1, <1>3
  <2>1. /\ a \o e \in Seq(S) /\ Len(a \o e) = Len(a) + Len(e)
        /\ \A x \in 1 .. Len(a) : (a \o e)[x] = a[x]
    BY <2>0, ConcatAt
  <2> QED BY <1>0, <1>1, <1>3, <2>1
<1> HIDE DEF f
<1>6. /\ t \in Seq(S) /\ Len(t) = k + (Len(s) - (k - 1))
      /\ \A x \in 1 .. k : t[x] = f[x]
      /\ \A x \in 1 .. Len(s) - (k - 1) : t[k + x] = b[x]
  <2>0. f \in Seq(S) /\ b \in Seq(S)
    BY <1>2, <1>5
  <2>2. /\ f \o b \in Seq(S) /\ Len(f \o b) = Len(f) + Len(b)
        /\ \A x \in 1 .. Len(f) : (f \o b)[x] = f[x]
        /\ \A x \in 1 .. Len(b) : (f \o b)[Len(f) + x] = b[x]
    BY <2>0, ConcatAt
  <2> QED BY <1>2, <1>5, <2>2
<1> HIDE DEF t
<1>7. ASSUME NEW x \in 1 .. Len(s) PROVE \E m \in 1 .. Len(t) : m >= x /\ t[m] = s[x]
  <2>1. CASE x <= k - 1
    <3>1. x \in 1 .. k - 1 /\ x \in 1 .. k /\ x \in 1 .. Len(t) /\ x >= x
      BY <1>0, <1>6, <2>1
    <3>2. t[x] = s[x]
      BY <1>1, <1>5, <1>6, <3>1
    <3> QED BY <3>1, <3>2
  <2>2. CASE x > k - 1
    <3>1. /\ x - (k - 1) \in 1 .. Len(s) - (k - 1) /\ x + 1 \in 1 .. Len(t)
          /\ k + (x - (k - 1)) = x + 1
          /\ (k - 1) + (x - (k - 1)) = x /\ x + 1 >= x
      BY <1>0, <1>6, <2>2
    <3>2. t[x + 1] = b[x - (k - 1)]
      BY <1>6, <3>1
    <3>3. b[x - (k - 1)] = s[x]
      BY <1>2, <3>1
    <3> QED BY <3>1, <3>2, <3>3
  <2> QED BY <1>0, <2>1, <2>2
<1>8. t = InsertAt(s, k, c)
  BY DEF t, f, a, b, e, InsertAt
<1> QED BY <1>6, <1>7, <1>8

\* What is taken out moves only what is behind it, and by one place.
LEMMA AfterWithdraw ==
    ASSUME NEW S, NEW s \in Seq(S), NEW k \in 1 .. Len(s)
    PROVE  /\ RemoveAt(s, k) \in Seq(S)
           /\ \A x \in 1 .. Len(s) :
                x < k => x \in 1 .. Len(RemoveAt(s, k)) /\ RemoveAt(s, k)[x] = s[x]
           /\ \A x \in 1 .. Len(s) :
                x > k => x - 1 \in 1 .. Len(RemoveAt(s, k)) /\ RemoveAt(s, k)[x - 1] = s[x]
<1> DEFINE a == SubSeq(s, 1, k - 1)
           b == SubSeq(s, k + 1, Len(s))
           t == a \o b
<1>0. Len(s) \in Nat /\ k \in Nat /\ k <= Len(s) /\ k - 1 \in Nat /\ k - 1 <= Len(s) /\ 0 <= k - 1
  BY LenProperties
<1>1. a \in Seq(S) /\ Len(a) = k - 1 /\ \A x \in 1 .. k - 1 : a[x] = s[x]
  <2>1. 0 \in Nat /\ 0 + 1 = 1 /\ (k - 1) - 0 = k - 1 /\ \A x \in 1 .. k - 1 : 0 + x = x
    BY <1>0
  <2>2. /\ SubSeq(s, 0 + 1, k - 1) \in Seq(S) /\ Len(SubSeq(s, 0 + 1, k - 1)) = (k - 1) - 0
        /\ \A x \in 1 .. (k - 1) - 0 : SubSeq(s, 0 + 1, k - 1)[x] = s[0 + x]
    BY <1>0, <2>1, PartAt
  <2> QED BY <2>1, <2>2
<1>2. b \in Seq(S) /\ Len(b) = Len(s) - k /\ \A x \in 1 .. Len(s) - k : b[x] = s[k + x]
  BY <1>0, PartAt
<1> HIDE DEF a, b
<1>3. /\ t \in Seq(S) /\ Len(t) = (k - 1) + (Len(s) - k)
      /\ \A x \in 1 .. k - 1 : t[x] = a[x]
      /\ \A x \in 1 .. Len(s) - k : t[(k - 1) + x] = b[x]
  <2>0. a \in Seq(S) /\ b \in Seq(S)
    BY <1>1, <1>2
  <2>1. /\ a \o b \in Seq(S) /\ Len(a \o b) = Len(a) + Len(b)
        /\ \A x \in 1 .. Len(a) : (a \o b)[x] = a[x]
        /\ \A x \in 1 .. Len(b) : (a \o b)[Len(a) + x] = b[x]
    BY <2>0, ConcatAt
  <2> QED BY <1>1, <1>2, <2>1
<1> HIDE DEF t
<1>5. ASSUME NEW x \in 1 .. Len(s), x < k PROVE x \in 1 .. Len(t) /\ t[x] = s[x]
  <2>1. x \in 1 .. k - 1 /\ x \in 1 .. Len(t)
    BY <1>0, <1>3, <1>5
  <2> QED BY <1>1, <1>3, <2>1
<1>6. ASSUME NEW x \in 1 .. Len(s), x > k PROVE x - 1 \in 1 .. Len(t) /\ t[x - 1] = s[x]
  <2>1. /\ x - k \in 1 .. Len(s) - k /\ x - 1 \in 1 .. Len(t) /\ (k - 1) + (x - k) = x - 1
        /\ k + (x - k) = x
    BY <1>0, <1>3, <1>6
  <2>2. t[x - 1] = b[x - k]
    BY <1>3, <2>1
  <2>3. b[x - k] = s[x]
    BY <1>2, <2>1
  <2> QED BY <2>1, <2>2, <2>3
<1>7. t = RemoveAt(s, k)
  BY DEF t, a, b, RemoveAt
<1> QED BY <1>3, <1>5, <1>6, <1>7

\* A page holds the CVEs from start_index on, and only the last one is short.
LEMMA PageHolds ==
    ASSUME server \in [Product -> Seq(Cves)], i \in Product, start_index \in Nat,
           PER_PAGE \in Nat \ {0}
    PROVE  /\ Page \in Seq(Cves)
           /\ \A k \in 1 .. Len(server[i]) :
                k > start_index /\ k <= start_index + Len(Page) => Page[k - start_index] = server[i][k]
           /\ LastPage => Len(server[i]) <= start_index + Len(Page)
<1> DEFINE s == server[i]
           n == IF start_index + PER_PAGE <= Len(s) THEN start_index + PER_PAGE ELSE Len(s)
<1>1. s \in Seq(Cves) /\ Len(s) \in Nat
  OBVIOUS
<1>2. n \in Nat /\ n <= Len(s)
  BY <1>1
<1>3. Page = SubSeq(s, start_index + 1, n)
  BY DEF Page
<1>4. Len(s) > start_index => n > start_index
  BY <1>1
<1> HIDE DEF s, n
<1>5. CASE n <= start_index
  <2>1. Page = <<>>
    BY <1>1, <1>2, <1>3, <1>5
  <2>2. Len(s) <= start_index
    BY <1>1, <1>4, <1>2, <1>5
  <2>3. Page \in Seq(Cves) /\ Len(Page) = 0
    BY <2>1
  <2> QED BY <1>1, <2>2, <2>3 DEF s
<1>6. CASE n > start_index
  <2>1. /\ Page \in Seq(Cves) /\ Len(Page) = n - start_index
        /\ \A k \in 1 .. n - start_index : Page[k] = s[start_index + k]
    BY <1>1, <1>2, <1>3, <1>6, PartAt
  <2>2. Page # <<>>
    BY <1>2, <1>6, <2>1
  <2>3. ASSUME NEW k \in 1 .. Len(s), k > start_index, k <= start_index + Len(Page)
        PROVE  Page[k - start_index] = s[k]
    <3>1. k - start_index \in 1 .. n - start_index /\ start_index + (k - start_index) = k
      BY <1>2, <2>1, <2>3
    <3> QED BY <2>1, <3>1
  <2>4. LastPage => Len(s) <= start_index + Len(Page)
    BY <1>1, <2>1, <2>2 DEF LastPage, s
  <2> QED BY <2>1, <2>3, <2>4 DEF s
<1> QED BY <1>2, <1>5, <1>6

-----------------------------------------------------------------------------
(***************************************************************************)
(* Types.                                                                  *)
(***************************************************************************)

IType == TypeOK /\ (pc = "request" => attempt < MAX_ATTEMPTS)

\* There is a first product.
LEMMA FirstProduct == 1 \in Product
  BY SyncAssumption DEF Product

\* The server lists CVEs.
LEMMA ListedAreCves ==
    ASSUME server \in [Product -> Seq(Cves)], NEW p \in Product
    PROVE  Listed(server, p) \subseteq Cves
<1>1. server[p] \in Seq(Cves)
  OBVIOUS
<1> QED BY <1>1, LenProperties DEF Listed

\* A change concerns the list of one product.
LEMMA EditedServer ==
    ASSUME server \in [Product -> Seq(Cves)], NEW p \in Product, NEW t \in Seq(Cves)
    PROVE  /\ [server EXCEPT ![p] = t] \in [Product -> Seq(Cves)]
           /\ [server EXCEPT ![p] = t][p] = t
           /\ \A q \in Product : q # p => [server EXCEPT ![p] = t][q] = server[q]
  OBVIOUS

\* The initial state has the types.
LEMMA InitTyped == Init => IType
<1> SUFFICES ASSUME Init PROVE IType
  OBVIOUS
<1>1. server \in [Product -> Seq(Cves)]
  BY SyncAssumption DEF Init
<1>2. attempt \in 0 .. MAX_ATTEMPTS /\ changes \in 0 .. MaxChanges /\ runs \in 0 .. MaxRuns
  BY SyncAssumption DEF Init
<1>3. pc = "idle" /\ i \in Product /\ start_index \in Nat /\ out \in Seq(Cves)
  BY FirstProduct DEF Init
<1>4. throughout \subseteq Cves /\ removed \in BOOLEAN
  BY DEF Init
<1>5. TypeOK
  BY <1>1, <1>2, <1>3, <1>4 DEF TypeOK
<1> QED BY <1>3, <1>5 DEF IType

\* A product's first request.
LEMMA FetchTyped ==
    ASSUME server \in [Product -> Seq(Cves)], NEW p \in Product, StartFetch(p)
    PROVE  /\ i' \in Product /\ start_index' \in Nat /\ out' \in Seq(Cves)
           /\ attempt' \in 0 .. MAX_ATTEMPTS /\ attempt' < MAX_ATTEMPTS
           /\ pc' = "request" /\ throughout' \subseteq Cves /\ removed' \in BOOLEAN
<1>1. i' \in Product /\ start_index' \in Nat /\ out' \in Seq(Cves)
  BY DEF StartFetch
<1>2. attempt' \in 0 .. MAX_ATTEMPTS /\ attempt' < MAX_ATTEMPTS
  BY SyncAssumption DEF StartFetch
<1>3. pc' = "request" /\ throughout' \subseteq Cves /\ removed' \in BOOLEAN
  BY ListedAreCves DEF StartFetch
<1> QED BY <1>1, <1>2, <1>3

\* Every step keeps the types.
LEMMA NextTyped == IType /\ [Next]_vars => IType'
<1> SUFFICES ASSUME IType, [Next]_vars PROVE IType'
  OBVIOUS
<1> USE SyncAssumption
<1>1. CASE StartSync
  <2>1. runs' \in 0 .. MaxRuns
    BY <1>1 DEF StartSync, IType, TypeOK
  <2>2. StartFetch(1) /\ UNCHANGED <<server, changes>>
    BY <1>1 DEF StartSync
  <2> QED BY <2>1, <2>2, FirstProduct, FetchTyped DEF IType, TypeOK
<1>2. CASE Reply
  <2>1. Page \in Seq(Cves)
    BY PageHolds DEF IType, TypeOK
  <2>2. out' \in Seq(Cves) /\ start_index' \in Nat
    BY <1>2, <2>1, ConcatProperties, LenProperties DEF Reply, IType, TypeOK
  <2> QED BY <1>2, <2>2 DEF Reply, IType, TypeOK
<1>3. CASE RequestFails
  <2>1. attempt' \in 0 .. MAX_ATTEMPTS /\ (pc' = "request" => attempt' < MAX_ATTEMPTS)
    BY <1>3 DEF RequestFails, IType, TypeOK
  <2> QED BY <1>3, <2>1 DEF RequestFails, ghosts, IType, TypeOK
<1>4. CASE ProductDone
  <2>1. CASE i < Len(PRODUCTS)
    <3>1. i + 1 \in Product
      BY <2>1 DEF IType, TypeOK, Product
    <3>2. StartFetch(i + 1) /\ UNCHANGED <<server, changes, runs>>
      BY <1>4, <2>1 DEF ProductDone
    <3> QED BY <3>1, <3>2, FetchTyped DEF IType, TypeOK
  <2>2. CASE ~(i < Len(PRODUCTS))
    BY <1>4, <2>2 DEF ProductDone, IType, TypeOK
  <2> QED BY <2>1, <2>2
<1>5. CASE OpenFile \/ WriteLine \/ WriteDone \/ Die \/ DieWriting
  BY <1>5 DEF OpenFile, WriteLine, WriteDone, Die, DieWriting, ghosts, IType, TypeOK
<1>6. ASSUME NEW p \in Product, NEW c \in Cves, NEW k \in 1 .. Len(server[p]) + 1, Publish(p, c, k)
      PROVE  IType'
  <2> DEFINE t == InsertAt(server[p], k, c)
  <2>0. server[p] \in Seq(Cves)
    BY DEF IType, TypeOK
  <2>1. t \in Seq(Cves)
    BY <2>0, AfterPublish
  <2>2. server' = [server EXCEPT ![p] = t] /\ pc = "request" /\ changes' = changes + 1
        /\ changes < MaxChanges /\ UNCHANGED <<script, ghosts, runs>>
    BY <1>6 DEF Publish
  <2> HIDE DEF t
  <2>3. server' \in [Product -> Seq(Cves)]
    BY <2>1, <2>2, EditedServer DEF IType, TypeOK
  <2>4. changes' \in 0 .. MaxChanges
    BY <2>2 DEF IType, TypeOK
  <2> QED BY <2>2, <2>3, <2>4 DEF script, ghosts, IType, TypeOK
<1>7. ASSUME NEW p \in Product, NEW k \in DOMAIN server[p], Withdraw(p, k)
      PROVE  IType'
  <2> DEFINE t == RemoveAt(server[p], k)
  <2>0. server[p] \in Seq(Cves) /\ k \in 1 .. Len(server[p])
    BY LenProperties DEF IType, TypeOK
  <2>1. t \in Seq(Cves)
    BY <2>0, AfterWithdraw
  <2>2. server' = [server EXCEPT ![p] = t] /\ pc = "request" /\ changes' = changes + 1
        /\ changes < MaxChanges /\ UNCHANGED <<script, runs>>
    BY <1>7 DEF Withdraw
  <2>3. throughout' \subseteq Cves /\ removed' \in BOOLEAN
    BY <1>7 DEF Withdraw, IType, TypeOK
  <2> HIDE DEF t
  <2>4. server' \in [Product -> Seq(Cves)]
    BY <2>1, <2>2, EditedServer DEF IType, TypeOK
  <2>5. changes' \in 0 .. MaxChanges
    BY <2>2 DEF IType, TypeOK
  <2> QED BY <2>2, <2>3, <2>4, <2>5 DEF script, IType, TypeOK
<1>8. CASE Scan
  BY <1>8 DEF Scan, script, ghosts, IType, TypeOK
<1>9. CASE UNCHANGED vars
  BY <1>9 DEF vars, script, ghosts, IType, TypeOK
<1> QED BY <1>1, <1>2, <1>3, <1>4, <1>5, <1>6, <1>7, <1>8, <1>9 DEF Next, ScriptStep

-----------------------------------------------------------------------------
(***************************************************************************)
(* Paging: what is listed throughout and has not been fetched is still     *)
(* ahead.  NothingLost is this at the last page, where nothing is ahead.   *)
(***************************************************************************)

Fetched(c) == \E k \in 1 .. Len(out) : out[k] = c
Ahead(c) == \E k \in 1 .. Len(server[i]) : k > start_index /\ server[i][k] = c

IPaging ==
    /\ pc = "request" /\ ~removed => \A c \in throughout : Fetched(c) \/ Ahead(c)
    /\ pc = "fetched" /\ ~removed => \A c \in throughout : Fetched(c)

\* A product's first request: everything is ahead.
LEMMA FetchStarts ==
    ASSUME IType, NEW p \in Product, StartFetch(p), server' = server
    PROVE  IPaging'
<1>1. server[p] \in Seq(Cves) /\ DOMAIN server[p] = 1 .. Len(server[p])
  BY LenProperties DEF IType, TypeOK
<1>2. ASSUME NEW c \in throughout' PROVE Ahead(c)'
  <2>1. c \in Listed(server, p)
    BY <1>2 DEF StartFetch
  <2>2. PICK k \in 1 .. Len(server[p]) : server[p][k] = c
    BY <1>1, <2>1 DEF Listed
  <2>3. i' = p /\ start_index' = 0 /\ k > 0
    BY DEF StartFetch
  <2> QED BY <2>2, <2>3 DEF Ahead
<1>3. pc' = "request"
  BY DEF StartFetch
<1> QED BY <1>2, <1>3 DEF IPaging

\* A page takes over what was next; behind the last one nothing is ahead.
LEMMA ReplyKeeps == ASSUME IType, IPaging, Reply PROVE IPaging'
<1>1. /\ Page \in Seq(Cves) /\ out \in Seq(Cves) /\ start_index \in Nat
      /\ server[i] \in Seq(Cves)
  BY PageHolds, SyncAssumption DEF IType, TypeOK
<1>2. /\ \A k \in 1 .. Len(server[i]) :
            k > start_index /\ k <= start_index + Len(Page) => Page[k - start_index] = server[i][k]
      /\ LastPage => Len(server[i]) <= start_index + Len(Page)
  BY PageHolds, SyncAssumption DEF IType, TypeOK
<1>3. /\ out' = out \o Page /\ start_index' = start_index + Len(Page)
      /\ pc = "request" /\ pc' \in {"request", "fetched"} /\ (pc' = "fetched" => LastPage)
      /\ UNCHANGED <<server, i, throughout, removed>>
  BY DEF Reply
<1>4. /\ Len(out') = Len(out) + Len(Page) /\ Len(out) \in Nat /\ Len(Page) \in Nat
      /\ \A x \in 1 .. Len(out) : out'[x] = out[x]
      /\ \A x \in 1 .. Len(Page) : out'[Len(out) + x] = Page[x]
  BY <1>1, <1>3, ConcatAt
<1>5. ASSUME NEW c, Fetched(c) PROVE Fetched(c)'
  <2>1. PICK k \in 1 .. Len(out) : out[k] = c
    BY <1>5 DEF Fetched
  <2>2. k \in 1 .. Len(out')
    BY <1>4
  <2> QED BY <1>4, <2>1, <2>2 DEF Fetched
<1>6. ASSUME NEW c, Ahead(c)
      PROVE  Fetched(c)' \/ (Ahead(c)' /\ ~LastPage)
  <2>1. PICK k \in 1 .. Len(server[i]) : k > start_index /\ server[i][k] = c
    BY <1>6 DEF Ahead
  <2>2. CASE k <= start_index + Len(Page)
    <3>1. k - start_index \in 1 .. Len(Page)
      BY <1>1, <1>4, <2>1, <2>2
    <3>2. Page[k - start_index] = c
      BY <1>2, <2>1, <2>2
    <3>3. Len(out) + (k - start_index) \in 1 .. Len(out')
      BY <1>4, <3>1
    <3>4. out'[Len(out) + (k - start_index)] = c
      BY <1>4, <3>1, <3>2
    <3> QED BY <3>3, <3>4 DEF Fetched
  <2>3. CASE ~(k <= start_index + Len(Page))
    <3>1. k > start_index' /\ ~LastPage
      BY <1>1, <1>2, <1>3, <1>4, <2>1, <2>3, LenProperties
    <3> QED BY <1>3, <2>1, <3>1 DEF Ahead
  <2> QED BY <2>2, <2>3
<1>7. ASSUME ~removed, NEW c \in throughout
      PROVE  Fetched(c)' \/ (Ahead(c)' /\ ~LastPage)
  BY <1>3, <1>5, <1>6, <1>7 DEF IPaging
<1> QED BY <1>3, <1>7 DEF IPaging

\* A CVE that is published moves nothing to a page already fetched.
LEMMA PublishKeeps ==
    ASSUME IType, IPaging, NEW p \in Product, NEW c \in Cves, NEW k \in 1 .. Len(server[p]) + 1,
           Publish(p, c, k)
    PROVE  IPaging'
<1> DEFINE t == InsertAt(server[p], k, c)
<1>0. server[p] \in Seq(Cves) /\ server \in [Product -> Seq(Cves)] /\ i \in Product /\ start_index \in Nat
  BY DEF IType, TypeOK
<1>1. /\ t \in Seq(Cves)
      /\ \A x \in 1 .. Len(server[p]) : \E m \in 1 .. Len(t) : m >= x /\ t[m] = server[p][x]
  <2>1. /\ t \in Seq(Cves)
        /\ \A x \in 1 .. Len(server[p]) : \E m \in 1 .. Len(t) : m >= x /\ t[m] = server[p][x]
    <3>1. server[p] \in Seq(Cves)
      BY <1>0
    <3> QED BY <3>1, AfterPublish
  <2> QED BY <2>1
<1>2. server' = [server EXCEPT ![p] = t] /\ pc = "request" /\ UNCHANGED <<script, ghosts>>
  BY DEF Publish
<1> HIDE DEF t
<1>3. server'[p] = t /\ (p # i => server'[i] = server[i])
  BY <1>0, <1>1, <1>2, EditedServer
<1>4. UNCHANGED <<pc, i, start_index, out, throughout, removed>>
  BY <1>2 DEF script, ghosts
<1>5. ASSUME NEW d, Ahead(d) PROVE Ahead(d)'
  <2>1. PICK x \in 1 .. Len(server[i]) : x > start_index /\ server[i][x] = d
    BY <1>5 DEF Ahead
  <2>2. CASE p # i
    BY <1>3, <1>4, <2>1, <2>2 DEF Ahead
  <2>3. CASE p = i
    <3>1. PICK m \in 1 .. Len(t) : m >= x /\ t[m] = server[i][x]
      BY <1>1, <2>1, <2>3
    <3>2. m > start_index
      BY <1>0, <2>1, <3>1
    <3> QED BY <1>3, <1>4, <2>1, <2>3, <3>1, <3>2 DEF Ahead
  <2> QED BY <2>2, <2>3
<1>6. \A d : Fetched(d)' <=> Fetched(d)
  BY <1>4 DEF Fetched
<1> QED BY <1>2, <1>4, <1>5, <1>6 DEF IPaging

\* One that is withdrawn moves those behind it by one place: no matter, unless
\* it was on a page already fetched.
LEMMA WithdrawKeeps ==
    ASSUME IType, IPaging, NEW p \in Product, NEW k \in DOMAIN server[p], Withdraw(p, k)
    PROVE  IPaging'
<1> DEFINE t == RemoveAt(server[p], k)
<1>0. /\ server[p] \in Seq(Cves) /\ server \in [Product -> Seq(Cves)] /\ i \in Product
      /\ start_index \in Nat /\ removed \in BOOLEAN
      /\ k \in 1 .. Len(server[p])
  BY LenProperties DEF IType, TypeOK
<1>1. /\ t \in Seq(Cves)
      /\ \A x \in 1 .. Len(server[p]) : x < k => x \in 1 .. Len(t) /\ t[x] = server[p][x]
      /\ \A x \in 1 .. Len(server[p]) : x > k => x - 1 \in 1 .. Len(t) /\ t[x - 1] = server[p][x]
  BY <1>0, AfterWithdraw
<1>2. /\ server' = [server EXCEPT ![p] = t] /\ pc = "request" /\ UNCHANGED script
      /\ throughout' = IF p = i THEN throughout \ {server[p][k]} ELSE throughout
      /\ removed' = (removed \/ (p = i /\ k <= start_index))
  BY DEF Withdraw
<1> HIDE DEF t
<1>3. server'[p] = t /\ (p # i => server'[i] = server[i])
  BY <1>0, <1>1, <1>2, EditedServer
<1>4. UNCHANGED <<pc, i, start_index, out>>
  BY <1>2 DEF script
<1>5. ASSUME ~removed', NEW d \in throughout', Ahead(d) PROVE Ahead(d)'
  <2>1. PICK x \in 1 .. Len(server[i]) : x > start_index /\ server[i][x] = d
    BY <1>5 DEF Ahead
  <2>2. CASE p # i
    BY <1>3, <1>4, <2>1, <2>2 DEF Ahead
  <2>3. CASE p = i
    <3>1. d # server[p][k] /\ ~(k <= start_index)
      BY <1>2, <1>5, <2>3
    <3>2. x # k
      BY <2>1, <2>3, <3>1
    <3>3. CASE x < k
      <4>1. x \in 1 .. Len(t) /\ t[x] = d
        BY <1>1, <2>1, <2>3, <3>3
      <4> QED BY <1>3, <1>4, <2>1, <2>3, <4>1 DEF Ahead
    <3>4. CASE x > k
      <4>1. x - 1 \in 1 .. Len(t) /\ t[x - 1] = d
        BY <1>1, <2>1, <2>3, <3>4
      <4>2. x - 1 > start_index
        BY <1>0, <2>1, <3>1, <3>4
      <4> QED BY <1>3, <1>4, <2>1, <2>3, <4>1, <4>2 DEF Ahead
    <3> QED BY <1>0, <2>1, <3>2, <3>3, <3>4
  <2> QED BY <2>2, <2>3
<1>6. \A d : Fetched(d)' <=> Fetched(d)
  BY <1>4 DEF Fetched
<1>7. throughout' \subseteq throughout /\ (~removed' => ~removed)
  BY <1>2
<1> QED BY <1>2, <1>4, <1>5, <1>6, <1>7 DEF IPaging

\* Every step keeps what is listed throughout fetched or ahead of start_index.
LEMMA PagingStep == IType /\ IPaging /\ [Next]_vars => IPaging'
<1> SUFFICES ASSUME IType, IPaging, [Next]_vars PROVE IPaging'
  OBVIOUS
<1>1. CASE StartSync
  BY <1>1, FirstProduct, FetchStarts DEF StartSync
<1>2. CASE Reply
  BY <1>2, ReplyKeeps
<1>3. CASE ProductDone
  <2>1. CASE i < Len(PRODUCTS)
    <3>1. i + 1 \in Product
      BY <2>1, SyncAssumption DEF IType, TypeOK, Product
    <3> QED BY <1>3, <2>1, <3>1, FetchStarts DEF ProductDone
  <2>2. CASE ~(i < Len(PRODUCTS))
    BY <1>3, <2>2 DEF ProductDone, IPaging
  <2> QED BY <2>1, <2>2
<1>4. CASE OpenFile \/ WriteLine \/ WriteDone \/ Die \/ DieWriting
  BY <1>4 DEF OpenFile, WriteLine, WriteDone, Die, DieWriting, IPaging
<1>5. CASE RequestFails \/ Scan \/ UNCHANGED vars
  <2>1. /\ UNCHANGED <<server, i, start_index, out, throughout, removed>>
        /\ pc' = pc \/ pc' = "failed"
    BY <1>5 DEF RequestFails, Scan, vars, script, ghosts
  <2>2. \A c : (Fetched(c)' <=> Fetched(c)) /\ (Ahead(c)' <=> Ahead(c))
    BY <2>1 DEF Fetched, Ahead
  <2> QED BY <2>1, <2>2 DEF IPaging
<1>6. ASSUME NEW p \in Product, NEW c \in Cves, NEW k \in 1 .. Len(server[p]) + 1, Publish(p, c, k)
      PROVE  IPaging'
  BY <1>6, PublishKeeps
<1>7. ASSUME NEW p \in Product, NEW k \in DOMAIN server[p], Withdraw(p, k)
      PROVE  IPaging'
  BY <1>7, WithdrawKeeps
<1> QED BY <1>1, <1>2, <1>3, <1>4, <1>5, <1>6, <1>7 DEF Next, ScriptStep

-----------------------------------------------------------------------------

\* The variables keep their types, and a page is asked for at most
\* MAX_ATTEMPTS times (fetch_all).
THEOREM TypeCorrect == Spec => []TypeOK
<1>1. IType => TypeOK
  BY DEF IType
<1> QED BY <1>1, InitTyped, NextTyped, PTL DEF Spec

\* Every CVE the server lists throughout the paging is fetched, for every page
\* size, every server and every sequence of changes that takes nothing from
\* the pages already fetched (fetch_all).
THEOREM PagingLosesNothing == Spec => []NothingLost
<1>1. Init => IPaging
  BY DEF Init, IPaging
<1>2. IType /\ IPaging => NothingLost
  <2> SUFFICES ASSUME IType, IPaging, pc = "fetched", ~removed, NEW c \in throughout
               PROVE  c \in {out[k] : k \in DOMAIN out}
    BY DEF NothingLost
  <2>1. PICK k \in 1 .. Len(out) : out[k] = c
    BY DEF IPaging, Fetched
  <2>2. DOMAIN out = 1 .. Len(out)
    BY LenProperties DEF IType, TypeOK
  <2> QED BY <2>1, <2>2
<1> QED BY <1>1, <1>2, InitTyped, NextTyped, PagingStep, PTL DEF Spec

\* Nothing is written before every product has been fetched: a sync that fails
\* until then leaves the data set as it found it (main, write_yaml).
THEOREM FailureKeepsDataset == Spec => []FailedSyncKeepsDataset
<1>1. Init => FailedSyncKeepsDataset
  BY DEF Init, FailedSyncKeepsDataset
<1>2. FailedSyncKeepsDataset /\ [Next]_vars => FailedSyncKeepsDataset'
  <2> SUFFICES ASSUME FailedSyncKeepsDataset, [Next]_vars PROVE FailedSyncKeepsDataset'
    OBVIOUS
  <2>1. CASE StartSync
    BY <2>1 DEF StartSync, StartFetch, FailedSyncKeepsDataset
  <2>2. CASE Reply \/ RequestFails \/ ProductDone \/ OpenFile
    BY <2>2 DEF Reply, RequestFails, ProductDone, StartFetch, OpenFile, ghosts,
                FailedSyncKeepsDataset
  <2>3. CASE WriteLine \/ WriteDone \/ Die \/ DieWriting
    BY <2>3 DEF WriteLine, WriteDone, Die, DieWriting, ghosts, FailedSyncKeepsDataset
  <2>4. CASE \E p \in Product :
                \/ \E c \in Cves, k \in 1 .. Len(server[p]) + 1 : Publish(p, c, k)
                \/ \E k \in DOMAIN server[p] : Withdraw(p, k)
    BY <2>4 DEF Publish, Withdraw, script, ghosts, FailedSyncKeepsDataset
  <2>5. CASE Scan \/ UNCHANGED vars
    BY <2>5 DEF Scan, vars, script, ghosts, FailedSyncKeepsDataset
  <2> QED BY <2>1, <2>2, <2>3, <2>4, <2>5 DEF Next, ScriptStep
<1> QED BY <1>1, <1>2, PTL DEF Spec

-----------------------------------------------------------------------------
(* version_compare.                                                        *)

\* A nonempty set of natural numbers has a least element.
LEMMA LeastIndex ==
    ASSUME NEW T, T \subseteq Nat, T # {}
    PROVE  \E x \in T : \A y \in T : x <= y
<1> DEFINE R == {ss \in Nat \X Nat : ss[1] < ss[2]}
<1>1. IsWellFoundedOn(R, Nat)
  BY NatLessThanWellFounded DEF OpToRel
<1>2. \A x, y \in Nat : x < y => <<x, y>> \in R
  OBVIOUS
<1> HIDE DEF R
<1>3. PICK x \in T : \A y \in T : ~ (<<y, x>> \in R)
  BY <1>1, WFMin
<1>4. ASSUME NEW y \in T PROVE x <= y
  <2>1. x \in Nat /\ y \in Nat /\ ~ (y < x)
    BY <1>2, <1>3
  <2> QED BY <2>1
<1> QED BY <1>4

SegmentType == [num : Nat, suffix : Nat]
Index == Nat \ {0}

\* a is the older version, by its k-th segment.
DecidedBy(a, b, k) ==
    /\ segment_lt(Segment(a, k), Segment(b, k))
    /\ \A j \in 1 .. k - 1 : Segment(a, j) = Segment(b, j)
Older(a, b)     == \E k \in Index : DecidedBy(a, b, k)
SameOrder(a, b) == \A k \in Index : Segment(a, k) = Segment(b, k)

\* What version_compare reads of a segment.
LEMMA SegmentIs ==
    ASSUME NEW v \in Version, NEW k \in Index
    PROVE  Segment(v, k) \in SegmentType
<1>1. CASE k <= Len(v)
  <2>1. v[k] \in Piece
    BY <1>1 DEF Version, Index
  <2>2. v[k].value \in Nat /\ v[k].suffix \in Nat
    BY <2>1 DEF Piece
  <2> QED BY <1>1, <2>2, CveAssumption DEF Segment, parse_segment, SegmentType
<1>2. CASE ~(k <= Len(v))
  BY <1>2 DEF Segment, Zero, SegmentType
<1> QED BY <1>1, <1>2

\* Two segments are the same or one is the lesser one.
LEMMA SegmentsTotal ==
    ASSUME NEW s \in SegmentType, NEW t \in SegmentType
    PROVE  /\ s = t \/ segment_lt(s, t) \/ segment_lt(t, s)
           /\ ~(segment_lt(s, t) /\ segment_lt(t, s))
           /\ ~segment_lt(s, s)
<1>1. s.num \in Nat /\ s.suffix \in Nat /\ t.num \in Nat /\ t.suffix \in Nat
  BY DEF SegmentType
<1>2. s.num = t.num /\ s.suffix = t.suffix => s = t
  BY DEF SegmentType
<1> QED BY <1>1, <1>2 DEF segment_lt

\* The comparison of two segments is transitive.
LEMMA SegmentsTransitive ==
    ASSUME NEW s \in SegmentType, NEW t \in SegmentType, NEW u \in SegmentType,
           segment_lt(s, t), segment_lt(t, u)
    PROVE  segment_lt(s, u)
<1>1. /\ s.num \in Nat /\ s.suffix \in Nat /\ t.num \in Nat /\ t.suffix \in Nat
      /\ u.num \in Nat /\ u.suffix \in Nat
  BY DEF SegmentType
<1> QED BY <1>1 DEF segment_lt

\* Behind the end of both versions there is nothing to tell them apart.
LEMMA DifferIs ==
    ASSUME NEW a \in Version, NEW b \in Version
    PROVE  Differ(a, b) = {k \in Index : Segment(a, k) # Segment(b, k)}
<1>1. Len(a) \in Nat /\ Len(b) \in Nat
  BY DEF Version
<1>2. ASSUME NEW k \in Index, ~(k \in 1 .. Longer(a, b))
      PROVE  Segment(a, k) = Segment(b, k)
  <2>1. ~(k <= Len(a)) /\ ~(k <= Len(b))
    BY <1>1, <1>2 DEF Longer, Index
  <2> QED BY <2>1 DEF Segment
<1>3. 1 .. Longer(a, b) \subseteq Index
  BY <1>1 DEF Longer, Index
<1> QED BY <1>2, <1>3 DEF Differ

\* version_compare says which of two versions is the older one, or neither.
LEMMA CompareIs ==
    ASSUME NEW a \in Version, NEW b \in Version
    PROVE  /\ version_compare(a, b) \in {-1, 0, 1}
           /\ version_compare(a, b) = -1 <=> Older(a, b)
           /\ version_compare(a, b) = 1 <=> Older(b, a)
           /\ version_compare(a, b) = 0 <=> SameOrder(a, b)
<1> DEFINE D == Differ(a, b)
<1>1. D = {k \in Index : Segment(a, k) # Segment(b, k)}
  BY DifferIs
<1>2. \A k \in Index : Segment(a, k) \in SegmentType /\ Segment(b, k) \in SegmentType
  BY SegmentIs
<1>3. CASE D = {}
  <2>1. SameOrder(a, b)
    BY <1>1, <1>3 DEF SameOrder
  <2>2. ~Older(a, b) /\ ~Older(b, a)
    BY <2>1, <1>2, SegmentsTotal DEF SameOrder, Older, DecidedBy
  <2>3. version_compare(a, b) = 0
    BY <1>3 DEF version_compare
  <2> QED BY <2>1, <2>2, <2>3
<1>4. CASE D # {}
  <2> DEFINE k == CHOOSE k \in D : \A j \in D : k <= j
  <2>1. k \in D /\ \A j \in D : k <= j
    <3>1. D \subseteq Nat
      BY <1>1 DEF Index
    <3>2. \E x \in D : \A j \in D : x <= j
      BY <1>4, <3>1, LeastIndex
    <3> QED BY <3>2
  <2>2. version_compare(a, b) =
            IF segment_lt(Segment(a, k), Segment(b, k)) THEN -1 ELSE 1
    BY <1>4 DEF version_compare
  <2> HIDE DEF k, D
  <2>3. k \in Index /\ Segment(a, k) # Segment(b, k)
    BY <1>1, <2>1
  <2>4. ASSUME NEW j \in 1 .. k - 1
        PROVE  Segment(a, j) = Segment(b, j)
    <3>1. j \in Index /\ ~(k <= j)
      BY <2>3 DEF Index
    <3> QED BY <1>1, <2>1, <3>1
  <2>5. ~SameOrder(a, b)
    BY <2>3 DEF SameOrder
  <2>6. \/ segment_lt(Segment(a, k), Segment(b, k)) /\ ~segment_lt(Segment(b, k), Segment(a, k))
        \/ segment_lt(Segment(b, k), Segment(a, k)) /\ ~segment_lt(Segment(a, k), Segment(b, k))
    BY <1>2, <2>3, SegmentsTotal
  <2>7. ASSUME NEW m \in Index, DecidedBy(a, b, m) \/ DecidedBy(b, a, m)
        PROVE  m = k
    <3>1. Segment(a, m) # Segment(b, m)
      BY <1>2, <2>7, SegmentsTotal DEF DecidedBy
    <3>2. k <= m
      BY <1>1, <2>1, <3>1
    <3>3. ~(k \in 1 .. m - 1)
      BY <2>3, <2>7 DEF DecidedBy
    <3> QED BY <2>3, <3>2, <3>3 DEF Index
  <2>8. Older(a, b) <=> segment_lt(Segment(a, k), Segment(b, k))
    BY <2>3, <2>4, <2>7 DEF Older, DecidedBy
  <2>9. Older(b, a) <=> segment_lt(Segment(b, k), Segment(a, k))
    BY <2>3, <2>4, <2>7 DEF Older, DecidedBy
  <2> QED BY <2>2, <2>5, <2>6, <2>8, <2>9
<1> QED BY <1>3, <1>4

\* version_compare is transitive.
LEMMA OlderTransitive ==
    ASSUME NEW a \in Version, NEW b \in Version, NEW c \in Version,
           Older(a, b) \/ SameOrder(a, b), Older(b, c) \/ SameOrder(b, c)
    PROVE  Older(a, c) \/ SameOrder(a, c)
<1>1. CASE SameOrder(a, b) /\ SameOrder(b, c)
  BY <1>1 DEF SameOrder
<1>2. CASE SameOrder(a, b) /\ Older(b, c)
  <2>1. PICK k \in Index : DecidedBy(b, c, k)
    BY <1>2 DEF Older
  <2>2. \A j \in 1 .. k - 1 : j \in Index
    BY DEF Index
  <2>3. DecidedBy(a, c, k)
    BY <1>2, <2>1, <2>2 DEF DecidedBy, SameOrder
  <2> QED BY <2>3 DEF Older
<1>3. CASE Older(a, b) /\ SameOrder(b, c)
  <2>1. PICK k \in Index : DecidedBy(a, b, k)
    BY <1>3 DEF Older
  <2>2. \A j \in 1 .. k - 1 : j \in Index
    BY DEF Index
  <2>3. DecidedBy(a, c, k)
    BY <1>3, <2>1, <2>2 DEF DecidedBy, SameOrder
  <2> QED BY <2>3 DEF Older
<1>4. CASE Older(a, b) /\ Older(b, c)
  <2>1. PICK k \in Index : DecidedBy(a, b, k)
    BY <1>4 DEF Older
  <2>2. PICK m \in Index : DecidedBy(b, c, m)
    BY <1>4 DEF Older
  <2>3. CASE k < m
    <3>1. k \in 1 .. m - 1 /\ \A j \in 1 .. k - 1 : j \in 1 .. m - 1
      BY <2>3 DEF Index
    <3>2. DecidedBy(a, c, k)
      BY <2>1, <2>2, <3>1 DEF DecidedBy
    <3> QED BY <3>2 DEF Older
  <2>4. CASE m < k
    <3>1. m \in 1 .. k - 1 /\ \A j \in 1 .. m - 1 : j \in 1 .. k - 1
      BY <2>4 DEF Index
    <3>2. DecidedBy(a, c, m)
      BY <2>1, <2>2, <3>1 DEF DecidedBy
    <3> QED BY <3>2 DEF Older
  <2>5. CASE k = m
    <3>1. segment_lt(Segment(a, k), Segment(c, k))
      BY <2>1, <2>2, <2>5, SegmentIs, SegmentsTransitive DEF DecidedBy
    <3>2. DecidedBy(a, c, k)
      BY <2>1, <2>2, <2>5, <3>1 DEF DecidedBy
    <3> QED BY <3>2 DEF Older
  <2>6. k < m \/ m < k \/ k = m
    BY DEF Index
  <2> QED BY <2>3, <2>4, <2>5, <2>6
<1> QED BY <1>1, <1>2, <1>3, <1>4

\* version_compare (cve_match.c:60) orders all versions, whatever their
\* numbers of pieces, letters and digits: the two directions agree, and a
\* version below one that is below a third is below the third, so that the
\* versions a list of conditions accepts are an interval.
THEOREM VersionsAreOrdered ==
    ASSUME NEW a \in Version, NEW b \in Version, NEW c \in Version
    PROVE  /\ version_compare(a, b) = -version_compare(b, a)
           /\ version_compare(a, b) <= 0 /\ version_compare(b, c) <= 0
                => version_compare(a, c) <= 0
<1>1. /\ version_compare(a, b) \in {-1, 0, 1} /\ version_compare(b, a) \in {-1, 0, 1}
      /\ version_compare(a, b) = -1 <=> version_compare(b, a) = 1
      /\ version_compare(a, b) = 1 <=> version_compare(b, a) = -1
  BY CompareIs
<1>2. version_compare(a, b) = -version_compare(b, a)
  BY <1>1
<1>3. \A v, w \in Version : version_compare(v, w) <= 0 <=> Older(v, w) \/ SameOrder(v, w)
  BY CompareIs
<1>4. version_compare(a, b) <= 0 /\ version_compare(b, c) <= 0 => version_compare(a, c) <= 0
  BY <1>3, OlderTransitive
<1> QED BY <1>2, <1>4

-----------------------------------------------------------------------------
(* version_compare against the order of the versions as they are written.  *)

TrueLess(s, t) == s.value < t.value \/ (s.value = t.value /\ s.suffix < t.suffix)
TrueSame(s, t) == s.value = t.value /\ s.suffix = t.suffix

\* What is counted for a run of digits, by its value alone.
LEMMA SegmentCounts ==
    ASSUME NEW v \in Version, Written(v), NEW k \in Index
    PROVE  LET s == TrueSegment(v, k)
           IN /\ s.value \in Nat /\ s.suffix \in Nat
              /\ Short(s) <=> s.value < Limit
              /\ Segment(v, k).num = IF s.value < Limit THEN s.value ELSE ULLONG_MAX
              /\ Segment(v, k).suffix = s.suffix
<1> DEFINE s == TrueSegment(v, k)
<1> HIDE DEF Limit
<1>1. CASE k <= Len(v)
  <2>1. PieceOK(v[k]) /\ s = v[k]
    BY <1>1 DEF Version, Index, Written, TrueSegment
  <2>2. v[k].value \in Nat /\ v[k].suffix \in Nat
    BY <2>1 DEF PieceOK, Piece
  <2>3. v[k].digits <= MAX_DIGITS <=> v[k].value < Limit
    BY <2>1 DEF PieceOK
  <2>4. Segment(v, k) = [num |-> IF v[k].digits <= MAX_DIGITS THEN v[k].value ELSE ULLONG_MAX,
                         suffix |-> v[k].suffix]
    BY <1>1 DEF Segment, parse_segment
  <2> QED BY <2>1, <2>2, <2>3, <2>4 DEF Short
<1>2. CASE ~(k <= Len(v))
  <2>1. s = [digits |-> 0, value |-> 0, suffix |-> 0] /\ Segment(v, k) = [num |-> 0, suffix |-> 0]
    BY <1>2 DEF TrueSegment, Segment, Zero
  <2>2. 0 <= MAX_DIGITS /\ 0 < Limit
    BY CveAssumption
  <2> QED BY <2>1, <2>2 DEF Short
<1> QED BY <1>1, <1>2

\* Segments of the same value count the same; where one of two is short, they
\* are in the order of their values.
LEMMA SegmentKeepsOrder ==
    ASSUME NEW a \in Version, NEW b \in Version, Written(a), Written(b), NEW k \in Index
    PROVE  LET s == TrueSegment(a, k)
               t == TrueSegment(b, k)
           IN /\ TrueSame(s, t) => Segment(a, k) = Segment(b, k)
              /\ Short(s) \/ Short(t) =>
                    /\ Segment(a, k) = Segment(b, k) => TrueSame(s, t)
                    /\ segment_lt(Segment(a, k), Segment(b, k)) <=> TrueLess(s, t)
<1> DEFINE s == TrueSegment(a, k)
           t == TrueSegment(b, k)
           m == Segment(a, k)
           n == Segment(b, k)
<1>1. /\ s.value \in Nat /\ s.suffix \in Nat /\ t.value \in Nat /\ t.suffix \in Nat
      /\ Short(s) <=> s.value < Limit
      /\ Short(t) <=> t.value < Limit
      /\ m.num = (IF s.value < Limit THEN s.value ELSE ULLONG_MAX) /\ m.suffix = s.suffix
      /\ n.num = (IF t.value < Limit THEN t.value ELSE ULLONG_MAX) /\ n.suffix = t.suffix
  BY SegmentCounts
<1>2. m \in SegmentType /\ n \in SegmentType
  BY SegmentIs
<1>3. m = n <=> m.num = n.num /\ m.suffix = n.suffix
  BY <1>2 DEF SegmentType
<1>4. Limit \in Nat /\ ULLONG_MAX \in Nat /\ Limit <= ULLONG_MAX
  BY CveAssumption
<1> HIDE DEF s, t, m, n, Limit
<1>5. TrueSame(s, t) => m = n
  BY <1>1, <1>3 DEF TrueSame
<1>6. ASSUME Short(s) \/ Short(t)
      PROVE  /\ m.num = n.num <=> s.value = t.value
             /\ m.num < n.num <=> s.value < t.value
  BY <1>1, <1>4, <1>6
<1>7. Short(s) \/ Short(t) =>
        /\ m = n => TrueSame(s, t)
        /\ segment_lt(m, n) <=> TrueLess(s, t)
  BY <1>1, <1>3, <1>6 DEF TrueSame, TrueLess, segment_lt
<1> QED BY <1>5, <1>7 DEF s, t, m, n

\* TrulyOlder by one segment, as DecidedBy is.
TrulyBy(a, b, k) ==
    /\ \A j \in 1 .. k - 1 : TrueSame(TrueSegment(a, j), TrueSegment(b, j))
    /\ Short(TrueSegment(a, k)) \/ Short(TrueSegment(b, k))
    /\ TrueLess(TrueSegment(a, k), TrueSegment(b, k))

\* The order of the digits, by the first segment that differs.
LEMMA TrulyOlderIs ==
    ASSUME NEW a, NEW b
    PROVE  TrulyOlder(a, b) <=> \E k \in 1 .. Longer(a, b) : TrulyBy(a, b, k)
BY DEF TrulyOlder, TrulyBy, TrueSame, TrueLess, Short

\* How many segments two versions are compared in.
LEMMA LongerIs ==
    ASSUME NEW a \in Version, NEW b \in Version
    PROVE  /\ Longer(a, b) = Longer(b, a)
           /\ 1 .. Longer(a, b) \subseteq Index
           /\ \A k \in 1 .. Longer(a, b) : 1 .. k - 1 \subseteq 1 .. Longer(a, b)
<1>1. Len(a) \in Nat /\ Len(b) \in Nat
  BY DEF Version
<1> QED BY <1>1 DEF Longer, Index

\* version_compare (cve_match.c:60) finds every version that is the older one
\* as the versions are written, their digits without end, and where the
\* eighteen digits that are converted (cve_match.c:34) tell the versions apart
\* it finds no other: a run that is not converted counts for more than any
\* that is.
THEOREM CompareIsTrue ==
    ASSUME NEW a \in Version, NEW b \in Version, Written(a), Written(b)
    PROVE  /\ TrulyOlder(a, b) => version_compare(a, b) = -1
           /\ Judgeable(a, b) => (version_compare(a, b) = -1 <=> TrulyOlder(a, b))
<1>1. version_compare(a, b) = -1 <=> Older(a, b)
  BY CompareIs
<1>2. \A k \in Index :
        /\ TrueSame(TrueSegment(a, k), TrueSegment(b, k)) => Segment(a, k) = Segment(b, k)
        /\ Short(TrueSegment(a, k)) \/ Short(TrueSegment(b, k)) =>
            /\ Segment(a, k) = Segment(b, k) => TrueSame(TrueSegment(a, k), TrueSegment(b, k))
            /\ segment_lt(Segment(a, k), Segment(b, k))
                <=> TrueLess(TrueSegment(a, k), TrueSegment(b, k))
  BY SegmentKeepsOrder
<1>3. /\ 1 .. Longer(a, b) \subseteq Index
      /\ \A k \in 1 .. Longer(a, b) : 1 .. k - 1 \subseteq 1 .. Longer(a, b)
  BY LongerIs
<1>4. ASSUME TrulyOlder(a, b) PROVE Older(a, b)
  <2>1. PICK k \in 1 .. Longer(a, b) : TrulyBy(a, b, k)
    BY <1>4, TrulyOlderIs
  <2>2. DecidedBy(a, b, k)
    BY <1>2, <1>3, <2>1 DEF TrulyBy, DecidedBy
  <2> QED BY <1>3, <2>2 DEF Older
<1>5. ASSUME Judgeable(a, b), Older(a, b) PROVE TrulyOlder(a, b)
  <2>1. PICK k \in Index : DecidedBy(a, b, k)
    BY <1>5 DEF Older
  <2>2. Segment(a, k) \in SegmentType /\ Segment(b, k) \in SegmentType
    BY SegmentIs
  <2>3. Segment(a, k) # Segment(b, k)
    BY <2>1, <2>2, SegmentsTotal DEF DecidedBy
  <2>4. k \in 1 .. Longer(a, b)
    BY <2>3, DifferIs DEF Differ
  <2>5. TrulyBy(a, b, k)
    BY <1>2, <1>3, <1>5, <2>1, <2>4 DEF TrulyBy, DecidedBy, Judgeable
  <2> QED BY <2>4, <2>5, TrulyOlderIs
<1> QED BY <1>1, <1>4, <1>5

\* A condition of a data set (op_holds, cve_match.c:117) says of a version what
\* its operator says in the order of the versions as they are written.
THEOREM ConditionsAreTrue ==
    ASSUME NEW u \in Version, NEW v \in Version, Written(u), Written(v), Judgeable(u, v),
           NEW op
    PROVE  op_holds(op, version_compare(u, v)) <=> Holds(op, u, v)
<1>1. Judgeable(v, u)
  BY LongerIs DEF Judgeable
<1>2. /\ version_compare(u, v) = -1 <=> TrulyOlder(u, v)
      /\ version_compare(v, u) = -1 <=> TrulyOlder(v, u)
  BY <1>1, CompareIsTrue
<1>3. /\ version_compare(u, v) \in {-1, 0, 1}
      /\ version_compare(u, v) = 1 <=> version_compare(v, u) = -1
  BY CompareIs
<1>4. LET cmp == version_compare(u, v)
      IN /\ cmp < 0 <=> TrulyOlder(u, v)
         /\ cmp > 0 <=> TrulyOlder(v, u)
         /\ cmp <= 0 <=> ~TrulyOlder(v, u)
         /\ cmp >= 0 <=> ~TrulyOlder(u, v)
         /\ cmp = 0 <=> ~TrulyOlder(u, v) /\ ~TrulyOlder(v, u)
  BY <1>2, <1>3
<1> QED BY <1>4 DEF op_holds, Holds

-----------------------------------------------------------------------------
(* FlattenSeq.  Its function is recursive: that one with its equation      *)
(* exists follows from the least length for which it would not.            *)

\* Where the parts begin, less one.
IsOffsets(o, ss) ==
    /\ o \in [0 .. Len(ss) -> Nat] /\ o[0] = 0
    /\ \A k \in 1 .. Len(ss) : o[k] = o[k - 1] + Len(ss[k])

\* A sequence of sequences, by its parts.
LEMMA PartsAre ==
    ASSUME NEW S, NEW ss \in Seq(Seq(S))
    PROVE  /\ Len(ss) \in Nat /\ DOMAIN ss = 1 .. Len(ss)
           /\ \A k \in 1 .. Len(ss) : ss[k] \in Seq(S) /\ Len(ss[k]) \in Nat
<1>1. Len(ss) \in Nat /\ DOMAIN ss = 1 .. Len(ss) /\ \A k \in 1 .. Len(ss) : ss[k] \in Seq(S)
  BY LenProperties
<1> QED BY <1>1, LenProperties

\* There are such places, up to any of the parts.
LEMMA OffsetsExist ==
    ASSUME NEW S, NEW ss \in Seq(Seq(S))
    PROVE  \E o : IsOffsets(o, ss)
<1> DEFINE n == Len(ss)
           Is(o, l) == /\ o \in [0 .. l -> Nat] /\ o[0] = 0
                       /\ \A k \in 1 .. l : o[k] = o[k - 1] + Len(ss[k])
           T == {l \in 0 .. n : ~ \E o : Is(o, l)}
<1>1. n \in Nat /\ \A k \in 1 .. n : Len(ss[k]) \in Nat
  BY PartsAre
<1> HIDE DEF n
<1>2. ASSUME T # {} PROVE FALSE
  <2>1. PICK l \in T : \A j \in T : l <= j
    <3>1. T \subseteq Nat
      BY <1>1
    <3> HIDE DEF T
    <3> QED BY <1>2, <3>1, LeastIndex
  <2>2. l # 0
    <3>1. Is([k \in 0 .. 0 |-> 0], 0)
      OBVIOUS
    <3> HIDE DEF Is
    <3> QED BY <2>1, <3>1
  <2>3. l \in 1 .. n /\ l - 1 \in 0 .. n /\ l - 1 \notin T
    <3>1. l \in 0 .. n
      OBVIOUS
    <3>2. l \in 1 .. n /\ l - 1 \in 0 .. n /\ ~(l <= l - 1)
      BY <1>1, <2>2, <3>1
    <3> QED BY <2>1, <3>2
  <2>4. PICK o : Is(o, l - 1)
    BY <2>3
  <2> DEFINE g == [k \in 0 .. l |-> IF k = l THEN o[l - 1] + Len(ss[l]) ELSE o[k]]
  <2>5. \A k \in 0 .. l : g[k] = IF k = l THEN o[l - 1] + Len(ss[l]) ELSE o[k]
    OBVIOUS
  <2>6. \A k \in 0 .. l - 1 : o[k] \in Nat
    BY <2>4
  <2>7. g \in [0 .. l -> Nat]
    <3>1. \A k \in 0 .. l : (IF k = l THEN o[l - 1] + Len(ss[l]) ELSE o[k]) \in Nat
      BY <1>1, <2>3, <2>6
    <3> QED BY <3>1
  <2> HIDE DEF g
  <2>8. g[0] = 0
    BY <2>3, <2>4, <2>5
  <2>9. ASSUME NEW k \in 1 .. l PROVE g[k] = g[k - 1] + Len(ss[k])
    <3>1. k - 1 \in 0 .. l /\ k \in 0 .. l /\ k - 1 # l
      BY <1>1, <2>3
    <3>2. g[k - 1] = o[k - 1]
      BY <2>5, <3>1
    <3>3. CASE k = l
      BY <2>5, <3>1, <3>2, <3>3
    <3>4. CASE k # l
      <4>1. k \in 1 .. l - 1
        BY <1>1, <2>3, <3>4
      <4>2. o[k] = o[k - 1] + Len(ss[k])
        BY <2>4, <4>1
      <4> QED BY <2>5, <3>1, <3>2, <3>4, <4>2
    <3> QED BY <3>3, <3>4
  <2>10. Is(g, l)
    BY <2>7, <2>8, <2>9
  <2> HIDE DEF Is
  <2> QED BY <2>1, <2>10
<1>3. n \in 0 .. n
  BY <1>1
<1>4. PICK o : Is(o, n)
  BY <1>2, <1>3
<1> QED BY <1>4 DEF IsOffsets, n

\* The parts are one behind the other.
LEMMA OffsetsGrow ==
    ASSUME NEW S, NEW ss \in Seq(Seq(S)), NEW o, IsOffsets(o, ss),
           NEW h \in 0 .. Len(ss), NEW j \in 0 .. Len(ss), h <= j
    PROVE  o[h] <= o[j]
<1> DEFINE T == {k \in h .. j : ~(o[h] <= o[k])}
<1>1. /\ Len(ss) \in Nat
      /\ \A k \in 0 .. Len(ss) : o[k] \in Nat
      /\ \A k \in 1 .. Len(ss) : o[k] = o[k - 1] + Len(ss[k]) /\ Len(ss[k]) \in Nat
  BY PartsAre DEF IsOffsets
<1>2. ASSUME T # {} PROVE FALSE
  <2>1. PICK k \in T : \A l \in T : k <= l
    <3>1. T \subseteq Nat
      BY <1>1
    <3> HIDE DEF T
    <3> QED BY <1>2, <3>1, LeastIndex
  <2>2. k \in h .. j /\ k # h /\ ~(o[h] <= o[k])
    BY <1>1, <2>1
  <2>3. k - 1 \in h .. j /\ ~(k <= k - 1) /\ k \in 1 .. Len(ss) /\ k - 1 \in 0 .. Len(ss)
    BY <1>1, <2>2
  <2>4. o[h] <= o[k - 1]
    BY <2>1, <2>3
  <2>5. o[k] = o[k - 1] + Len(ss[k]) /\ Len(ss[k]) \in Nat /\ o[k - 1] \in Nat /\ o[h] \in Nat
    BY <1>1, <2>3
  <2> HIDE DEF T
  <2> QED BY <2>2, <2>4, <2>5
<1>3. j \in h .. j
  BY <1>1
<1> QED BY <1>2, <1>3

\* Every place is in a part.
LEMMA OffsetsCover ==
    ASSUME NEW S, NEW ss \in Seq(Seq(S)), NEW o, IsOffsets(o, ss), NEW x \in 1 .. o[Len(ss)]
    PROVE  \E k \in 1 .. Len(ss) : \E y \in 1 .. Len(ss[k]) : x = o[k - 1] + y
<1> DEFINE T == {k \in 0 .. Len(ss) : x <= o[k]}
<1>1. /\ Len(ss) \in Nat /\ o[0] = 0
      /\ \A k \in 0 .. Len(ss) : o[k] \in Nat
      /\ \A k \in 1 .. Len(ss) : o[k] = o[k - 1] + Len(ss[k]) /\ Len(ss[k]) \in Nat
  BY PartsAre DEF IsOffsets
<1>2. Len(ss) \in 0 .. Len(ss) /\ o[Len(ss)] \in Nat /\ x \in Nat
  BY <1>1
<1>3. Len(ss) \in T
  BY <1>2
<1>4. PICK k \in T : \A l \in T : k <= l
  <2>1. T \subseteq Nat
    BY <1>1
  <2> HIDE DEF T
  <2> QED BY <1>3, <2>1, LeastIndex
<1>5. k # 0
  BY <1>1, <1>4
<1>6. k \in 1 .. Len(ss) /\ k - 1 \in 0 .. Len(ss) /\ ~(k <= k - 1)
  BY <1>1, <1>4, <1>5
<1>7. ~(x <= o[k - 1]) /\ x <= o[k]
  BY <1>4, <1>6
<1>8. o[k - 1] \in Nat /\ o[k] = o[k - 1] + Len(ss[k]) /\ Len(ss[k]) \in Nat
  BY <1>1, <1>6
<1>9. x - o[k - 1] \in 1 .. Len(ss[k]) /\ x = o[k - 1] + (x - o[k - 1])
  <2> DEFINE b == o[k - 1]
             w == Len(ss[k])
  <2>1. b \in Nat /\ w \in Nat /\ x \in Nat /\ ~(x <= b) /\ x <= b + w
    BY <1>2, <1>7, <1>8
  <2> HIDE DEF b, w, T
  <2>2. x - b \in 1 .. w /\ x = b + (x - b)
    BY <2>1
  <2> QED BY <2>2 DEF b, w
<1> QED BY <1>6, <1>9

\* The equation of FlattenSeq's function, for the first m parts.
IsFlat(ss, m, f) ==
    f = [k \in 1 .. m |-> IF k = 1 THEN ss[k] ELSE f[k - 1] \o ss[k]]

\* There is a function that solves it.
LEMMA FlatExists ==
    ASSUME NEW S, NEW ss \in Seq(Seq(S)), NEW m \in 1 .. Len(ss)
    PROVE  \E f : IsFlat(ss, m, f)
<1> DEFINE T == {k \in 1 .. Len(ss) : ~ \E f : IsFlat(ss, k, f)}
<1>1. Len(ss) \in Nat
  BY LenProperties
<1>2. ASSUME T # {} PROVE FALSE
  <2>1. PICK k \in T : \A j \in T : k <= j
    <3>1. T \subseteq Nat
      BY <1>1
    <3> HIDE DEF T
    <3> QED BY <1>2, <3>1, LeastIndex
  <2>2. k # 1
    <3> DEFINE g == [j \in 1 .. 1 |-> ss[j]]
    <3>1. IsFlat(ss, 1, g)
      <4>1. \A j \in 1 .. 1 : j = 1
        OBVIOUS
      <4>2. g = [j \in 1 .. 1 |-> IF j = 1 THEN ss[j] ELSE g[j - 1] \o ss[j]]
        BY <4>1
      <4> QED BY <4>2 DEF IsFlat
    <3> HIDE DEF g
    <3> QED BY <2>1, <3>1
  <2>3. k \in 1 .. Len(ss) /\ k - 1 \in 1 .. Len(ss) /\ k - 1 \notin T
    <3>1. k \in 1 .. Len(ss)
      OBVIOUS
    <3>2. k - 1 \in 1 .. Len(ss) /\ ~(k <= k - 1)
      BY <1>1, <2>2, <3>1
    <3> QED BY <2>1, <3>1, <3>2
  <2>4. PICK f : IsFlat(ss, k - 1, f)
    BY <2>3
  <2> DEFINE g == [j \in 1 .. k |-> IF j = k THEN f[k - 1] \o ss[k] ELSE f[j]]
  <2>5. ASSUME NEW j \in 1 .. k
        PROVE  g[j] = IF j = 1 THEN ss[j] ELSE g[j - 1] \o ss[j]
    <3>1. CASE j = k
      <4>1. j # 1 /\ j - 1 \in 1 .. k /\ j - 1 # k
        BY <2>3, <3>1
      <4> QED BY <3>1, <4>1
    <3>2. CASE j # k
      <4>1. j \in 1 .. k - 1 /\ (j # 1 => j - 1 \in 1 .. k /\ j - 1 # k)
        BY <2>3, <3>2
      <4>2. f[j] = IF j = 1 THEN ss[j] ELSE f[j - 1] \o ss[j]
        BY <2>4, <4>1 DEF IsFlat
      <4> QED BY <3>2, <4>1, <4>2
    <3> QED BY <3>1, <3>2
  <2>6. g = [j \in 1 .. k |-> g[j]]
    OBVIOUS
  <2> HIDE DEF g
  <2>7. IsFlat(ss, k, g)
    BY <2>5, <2>6 DEF IsFlat
  <2> QED BY <2>1, <2>7
<1> QED BY <1>2

\* FlattenSeq puts the parts one behind the other.
LEMMA FlattenAt ==
    ASSUME NEW S, NEW ss \in Seq(Seq(S)), NEW o, IsOffsets(o, ss)
    PROVE  /\ FlattenSeq(ss) \in Seq(S) /\ Len(FlattenSeq(ss)) = o[Len(ss)]
           /\ \A k \in 1 .. Len(ss) : \A y \in 1 .. Len(ss[k]) :
                FlattenSeq(ss)[o[k - 1] + y] = ss[k][y]
<1> DEFINE n == Len(ss)
           F(f) == [k \in 1 .. n |-> IF k = 1 THEN ss[k] ELSE f[k - 1] \o ss[k]]
<1>1. /\ n \in Nat /\ o[0] = 0
      /\ \A k \in 1 .. n : ss[k] \in Seq(S) /\ Len(ss[k]) \in Nat
      /\ \A k \in 0 .. n : o[k] \in Nat
      /\ \A k \in 1 .. n : o[k] = o[k - 1] + Len(ss[k])
  BY PartsAre DEF IsOffsets
<1>2. CASE n = 0
  <2>1. ss = <<>>
    BY <1>2, EmptySeq
  <2>2. FlattenSeq(ss) = ss
    BY <1>2 DEF FlattenSeq
  <2>3. Len(ss) = 0 /\ FlattenSeq(ss) \in Seq(S) /\ Len(FlattenSeq(ss)) = 0
    <3>1. Len(ss) = 0
      BY <1>2
    <3>2. FlattenSeq(ss) = <<>>
      BY <2>1, <2>2
    <3>3. <<>> \in Seq(S) /\ Len(<<>>) = 0
      OBVIOUS
    <3> QED BY <3>1, <3>2, <3>3
  <2>4. ~ \E k \in 1 .. Len(ss) : TRUE
    BY <2>3
  <2> QED BY <1>1, <2>3, <2>4
<1>3. CASE n # 0
  <2> DEFINE f == CHOOSE f : f = F(f)
  <2>1. FlattenSeq(ss) = f[n]
    BY <1>3 DEF FlattenSeq
  <2>2. n \in 1 .. n
    BY <1>1, <1>3
  <2>3. PICK g : IsFlat(ss, n, g)
    BY <2>2, FlatExists
  <2>4. g = F(g)
    BY <2>3 DEF IsFlat
  <2>5. f = F(f)
    <3> HIDE DEF F
    <3> QED BY <2>4
  <2> HIDE DEF f
  <2>6. \A k \in 1 .. n : f[k] = IF k = 1 THEN ss[k] ELSE f[k - 1] \o ss[k]
    BY <2>5
  <2> HIDE DEF n, F
  <2> DEFINE Good(m) == /\ f[m] \in Seq(S) /\ Len(f[m]) = o[m]
                        /\ \A k \in 1 .. m : \A y \in 1 .. Len(ss[k]) : f[m][o[k - 1] + y] = ss[k][y]
             T == {m \in 1 .. n : ~Good(m)}
  <2>7. ASSUME T # {} PROVE FALSE
    <3>1. PICK m \in T : \A j \in T : m <= j
      <4>1. T \subseteq Nat
        BY <1>1
      <4> HIDE DEF T
      <4> QED BY <2>7, <4>1, LeastIndex
    <3>2. m \in 1 .. n /\ ~Good(m)
      OBVIOUS
    <3>3. CASE m = 1
      <4>1. f[m] = ss[m] /\ o[m] = Len(ss[m]) /\ o[m - 1] = 0
        <5>1. f[1] = ss[1] /\ 1 - 1 = 0 /\ o[1] = o[1 - 1] + Len(ss[1]) /\ Len(ss[1]) \in Nat
          BY <1>1, <2>6, <3>2, <3>3
        <5>2. o[1] = 0 + Len(ss[1])
          BY <1>1, <5>1
        <5> QED BY <1>1, <3>3, <5>1, <5>2
      <4>2. f[m] \in Seq(S) /\ Len(f[m]) = o[m]
        BY <1>1, <3>2, <4>1
      <4>3. ASSUME NEW k \in 1 .. m, NEW y \in 1 .. Len(ss[k])
            PROVE  f[m][o[k - 1] + y] = ss[k][y]
        <5>1. k = m
          BY <3>3
        <5>2. 0 + y = y
          OBVIOUS
        <5>3. f[m][0 + y] = ss[m][y]
          BY <4>1, <5>2
        <5> QED BY <4>1, <5>1, <5>3
      <4>4. Good(m)
        BY <4>2, <4>3
      <4> HIDE DEF Good
      <4> QED BY <3>2, <4>4
    <3>4. CASE m # 1
      <4>1. m - 1 \in 1 .. n /\ ~(m <= m - 1) /\ m \in Nat
        BY <1>1, <3>2, <3>4
      <4>2. Good(m - 1)
        <5> HIDE DEF Good
        <5> QED BY <3>1, <4>1
      <4>3. f[m] = f[m - 1] \o ss[m] /\ ss[m] \in Seq(S) /\ f[m - 1] \in Seq(S)
        BY <1>1, <2>6, <3>2, <3>4, <4>2
      <4>4. /\ f[m] \in Seq(S) /\ Len(f[m]) = Len(f[m - 1]) + Len(ss[m])
            /\ \A x \in 1 .. Len(f[m - 1]) : f[m][x] = f[m - 1][x]
            /\ \A x \in 1 .. Len(ss[m]) : f[m][Len(f[m - 1]) + x] = ss[m][x]
        <5> DEFINE a == f[m - 1]
                   b == ss[m]
        <5>1. a \in Seq(S) /\ b \in Seq(S) /\ f[m] = a \o b
          BY <4>3
        <5> HIDE DEF a, b
        <5>2. /\ a \o b \in Seq(S) /\ Len(a \o b) = Len(a) + Len(b)
              /\ \A x \in 1 .. Len(a) : (a \o b)[x] = a[x]
              /\ \A x \in 1 .. Len(b) : (a \o b)[Len(a) + x] = b[x]
          BY <5>1, ConcatAt
        <5> QED BY <5>1, <5>2 DEF a, b
      <4>5. Len(f[m - 1]) = o[m - 1]
        BY <4>2
      <4>6. o[m] = o[m - 1] + Len(ss[m])
        BY <1>1, <3>2
      <4>7. ASSUME NEW k \in 1 .. m, NEW y \in 1 .. Len(ss[k])
            PROVE  f[m][o[k - 1] + y] = ss[k][y]
        <5>1. CASE k = m
          BY <4>4, <4>5, <5>1
        <5>2. CASE k # m
          <6>1. k \in 1 .. m - 1
            BY <4>1, <5>2
          <6>2. f[m - 1][o[k - 1] + y] = ss[k][y]
            BY <4>2, <6>1
          <6>3. k \in 0 .. n /\ m - 1 \in 0 .. n /\ k - 1 \in 0 .. n /\ k \in 1 .. n /\ k <= m - 1
            BY <1>1, <4>1, <6>1
          <6>4. o[k] <= o[m - 1]
            BY <6>3, OffsetsGrow DEF n
          <6>5. /\ o[k] = o[k - 1] + Len(ss[k]) /\ o[k - 1] \in Nat /\ Len(ss[k]) \in Nat
                /\ o[m - 1] \in Nat
            BY <1>1, <6>3
          <6>6. o[k - 1] + y \in 1 .. o[m - 1]
            <7> HIDE DEF T
            <7>1. y \in Nat /\ 1 <= y /\ y <= Len(ss[k])
              BY <6>5
            <7> QED BY <6>4, <6>5, <7>1
          <6> QED BY <4>4, <4>5, <6>2, <6>6
        <5> QED BY <5>1, <5>2
      <4>8. Good(m)
        BY <4>4, <4>5, <4>6, <4>7
      <4> HIDE DEF Good
      <4> QED BY <3>2, <4>8
    <3> QED BY <3>3, <3>4
  <2>8. Good(n)
    <3> HIDE DEF Good
    <3> QED BY <2>2, <2>7
  <2> QED BY <2>1, <2>8 DEF n
<1> QED BY <1>2, <1>3

-----------------------------------------------------------------------------
(* The lines of a data set.                                                *)

Levels == {best_severity(Record[c]) : c \in Cves}
Entry  == [id : Cves, affected : Seq(Conditions), severity : Levels]

LineType ==
    [kind : {"components", "name", "cves", "id", "affected", "severity", "description"},
     what : {None} \cup {PRODUCTS[p] : p \in Product} \cup Cves \cup Seq(Conditions) \cup Levels]

\* The four lines of an entry.
LEMMA EntryLinesAre ==
    ASSUME NEW e \in Entry
    PROVE  /\ EntryLines(e) \in Seq(LineType) /\ Len(EntryLines(e)) = 4
           /\ EntryLines(e)[1] = Line("id", e.id)
           /\ EntryLines(e)[2] = Line("affected", e.affected)
           /\ EntryLines(e)[3] = Line("severity", e.severity)
           /\ EntryLines(e)[4] = Line("description", e.id)
<1>1. e.id \in Cves /\ e.affected \in Seq(Conditions) /\ e.severity \in Levels
  BY DEF Entry
<1>2. /\ Line("id", e.id) \in LineType /\ Line("affected", e.affected) \in LineType
      /\ Line("severity", e.severity) \in LineType /\ Line("description", e.id) \in LineType
  BY <1>1 DEF Line, LineType
<1> DEFINE a == Line("id", e.id)
           b == Line("affected", e.affected)
           c == Line("severity", e.severity)
           d == Line("description", e.id)
<1>3. EntryLines(e) = <<a, b, c, d>>
  BY DEF EntryLines
<1> HIDE DEF a, b, c, d
<1>4. a \in LineType /\ b \in LineType /\ c \in LineType /\ d \in LineType
  BY <1>2 DEF a, b, c, d
<1>5. <<a, b, c, d>> \in Seq(LineType) /\ Len(<<a, b, c, d>>) = 4
  BY <1>4
<1> QED BY <1>3, <1>5 DEF a, b, c, d

\* The lines of an entry stand at x and behind it.
EntryStands(C, x, e) ==
    /\ C[x] = Line("id", e.id)
    /\ C[x + 1] = Line("affected", e.affected)
    /\ C[x + 2] = Line("severity", e.severity)
    /\ C[x + 3] = Line("description", e.id)

\* The lines of a component: its name, and four of each entry.
LEMMA ComponentLinesAre ==
    ASSUME NEW p \in Product, NEW es \in Seq(Entry)
    PROVE  LET C == ComponentLines(p, es)
           IN /\ C \in Seq(LineType) /\ Len(C) = 2 + 4 * Len(es)
              /\ C[1] = Line("name", PRODUCTS[p]) /\ C[2] = Line("cves", None)
              /\ \A j \in 1 .. Len(es) : EntryStands(C, 4 * j - 1, es[j])
<1> DEFINE n == Len(es)
           ss == [k \in DOMAIN es |-> EntryLines(es[k])]
           o == [k \in 0 .. n |-> 4 * k]
           h == <<Line("name", PRODUCTS[p]), Line("cves", None)>>
           t == FlattenSeq(ss)
           C == h \o t
<1>1. n \in Nat /\ DOMAIN es = 1 .. n /\ \A k \in 1 .. n : es[k] \in Entry
  BY LenProperties
<1>2. \A k \in 1 .. n : /\ ss[k] = EntryLines(es[k])
                        /\ ss[k] \in Seq(LineType) /\ Len(ss[k]) = 4
  BY <1>1, EntryLinesAre
<1>3. ss \in Seq(Seq(LineType)) /\ Len(ss) = n
  <2>1. ss = [k \in 1 .. n |-> EntryLines(es[k])]
    BY <1>1
  <2>2. \A k \in 1 .. n : EntryLines(es[k]) \in Seq(LineType)
    BY <1>2
  <2>3. ss \in [1 .. n -> Seq(LineType)]
    BY <2>1, <2>2
  <2>4. Len(ss) = n
    BY <1>1, <2>1
  <2> QED BY <1>1, <2>3, <2>4, IsASeq
<1>4. /\ h \in Seq(LineType) /\ Len(h) = 2
      /\ h[1] = Line("name", PRODUCTS[p]) /\ h[2] = Line("cves", None)
  <2>1. Line("name", PRODUCTS[p]) \in LineType /\ Line("cves", None) \in LineType
    BY DEF Line, LineType
  <2> QED BY <2>1
<1> HIDE DEF n, ss, h
<1>5. IsOffsets(o, ss)
  <2>1. o \in [0 .. n -> Nat] /\ o[0] = 0
    BY <1>1
  <2>2. ASSUME NEW k \in 1 .. n PROVE o[k] = o[k - 1] + Len(ss[k])
    <3>1. k \in 0 .. n /\ k - 1 \in 0 .. n /\ k \in Nat
      BY <1>1
    <3>2. o[k] = 4 * k /\ o[k - 1] = 4 * (k - 1) /\ Len(ss[k]) = 4
      BY <1>2, <3>1
    <3> QED BY <3>1, <3>2
  <2> QED BY <1>3, <2>1, <2>2 DEF IsOffsets
<1>6. /\ t \in Seq(LineType) /\ Len(t) = o[Len(ss)]
      /\ \A k \in 1 .. Len(ss) : \A y \in 1 .. Len(ss[k]) : t[o[k - 1] + y] = ss[k][y]
  <2> HIDE DEF o
  <2>1. ss \in Seq(Seq(LineType)) /\ IsOffsets(o, ss)
    BY <1>3, <1>5
  <2> QED BY <2>1, FlattenAt
<1>7. Len(t) = 4 * n
  BY <1>1, <1>3, <1>6
<1> HIDE DEF t
<1>8. /\ C \in Seq(LineType) /\ Len(C) = 2 + 4 * n
      /\ \A x \in 1 .. 2 : C[x] = h[x]
      /\ \A x \in 1 .. 4 * n : C[2 + x] = t[x]
  <2>1. /\ h \o t \in Seq(LineType) /\ Len(h \o t) = Len(h) + Len(t)
        /\ \A x \in 1 .. Len(h) : (h \o t)[x] = h[x]
        /\ \A x \in 1 .. Len(t) : (h \o t)[Len(h) + x] = t[x]
    <3>1. h \in Seq(LineType) /\ t \in Seq(LineType)
      BY <1>4, <1>6
    <3> QED BY <3>1, ConcatAt
  <2> QED BY <1>4, <1>7, <2>1
<1> HIDE DEF C
<1>9. ASSUME NEW k \in 1 .. n, NEW y \in 1 .. 4
      PROVE  C[4 * k - 2 + y] = EntryLines(es[k])[y]
  <2>0. Len(ss[k]) = 4 /\ Len(ss) = n
    BY <1>2, <1>3
  <2>1. k \in 1 .. Len(ss) /\ y \in 1 .. Len(ss[k]) /\ k - 1 \in 0 .. n
    BY <1>1, <2>0
  <2>2. o[k - 1] = 4 * (k - 1)
    BY <2>1
  <2>3. t[4 * (k - 1) + y] = ss[k][y]
    BY <1>6, <2>1, <2>2
  <2>4. 4 * (k - 1) + y \in 1 .. 4 * n /\ 2 + (4 * (k - 1) + y) = 4 * k - 2 + y
    BY <1>1
  <2>5. C[2 + (4 * (k - 1) + y)] = t[4 * (k - 1) + y]
    BY <1>8, <2>4
  <2> QED BY <1>2, <2>3, <2>4, <2>5
<1>10. ASSUME NEW k \in 1 .. n PROVE EntryStands(C, 4 * k - 1, es[k])
  <2>1. /\ 4 * k - 2 + 1 = 4 * k - 1 /\ 4 * k - 2 + 2 = 4 * k - 1 + 1
        /\ 4 * k - 2 + 3 = 4 * k - 1 + 2 /\ 4 * k - 2 + 4 = 4 * k - 1 + 3
    BY <1>1
  <2>2. 1 \in 1 .. 4 /\ 2 \in 1 .. 4 /\ 3 \in 1 .. 4 /\ 4 \in 1 .. 4
    OBVIOUS
  <2>3. /\ C[4 * k - 1] = EntryLines(es[k])[1] /\ C[4 * k - 1 + 1] = EntryLines(es[k])[2]
        /\ C[4 * k - 1 + 2] = EntryLines(es[k])[3] /\ C[4 * k - 1 + 3] = EntryLines(es[k])[4]
    <3>1. /\ C[4 * k - 2 + 1] = EntryLines(es[k])[1] /\ C[4 * k - 2 + 2] = EntryLines(es[k])[2]
          /\ C[4 * k - 2 + 3] = EntryLines(es[k])[3] /\ C[4 * k - 2 + 4] = EntryLines(es[k])[4]
      BY <1>9, <2>2
    <3> QED BY <2>1, <3>1
  <2>4. es[k] \in Entry
    BY <1>1
  <2> QED BY <2>3, <2>4, EntryLinesAre DEF EntryStands
<1>11. C = ComponentLines(p, es)
  BY DEF C, h, t, ss, ComponentLines
<1> QED BY <1>4, <1>8, <1>10, <1>11 DEF n

\* Components that were put together, in the order of the products.
IsDataset(comps) == comps \in Seq(Seq(Entry)) /\ Len(comps) <= Len(PRODUCTS)

\* Component p has the lines behind o[p - 1], up to o[p].
Ends(o, comps) ==
    /\ o \in [0 .. Len(comps) -> Nat] /\ o[0] = 1
    /\ \A p \in 1 .. Len(comps) : o[p] = o[p - 1] + 2 + 4 * Len(comps[p])
    /\ \A h, j \in 0 .. Len(comps) : h <= j => o[h] <= o[j]

IsLayout(o, comps, L) ==
    /\ Ends(o, comps)
    /\ L \in Seq(LineType) /\ Len(L) = o[Len(comps)]
    /\ L[1] = Line("components", None)
    /\ \A p \in 1 .. Len(comps) :
        /\ L[o[p - 1] + 1] = Line("name", PRODUCTS[p])
        /\ L[o[p - 1] + 2] = Line("cves", None)
        /\ \A j \in 1 .. Len(comps[p]) : EntryStands(L, o[p - 1] + 4 * j - 1, comps[p][j])
    /\ \A x \in 1 .. Len(L) :
        x = 1 \/ \E p \in 1 .. Len(comps) : \E y \in 1 .. 2 + 4 * Len(comps[p]) : x = o[p - 1] + y

\* The components of a data set.
LEMMA DatasetIs ==
    ASSUME NEW comps, IsDataset(comps)
    PROVE  /\ Len(comps) \in Nat /\ DOMAIN comps = 1 .. Len(comps)
           /\ \A p \in 1 .. Len(comps) :
                /\ p \in Product /\ p \in Nat /\ comps[p] \in Seq(Entry) /\ Len(comps[p]) \in Nat
                /\ \A j \in 1 .. Len(comps[p]) : comps[p][j] \in Entry
<1>1. comps \in Seq(Seq(Entry)) /\ Len(comps) <= Len(PRODUCTS)
  BY DEF IsDataset
<1>2. /\ Len(comps) \in Nat /\ DOMAIN comps = 1 .. Len(comps)
      /\ \A p \in 1 .. Len(comps) : comps[p] \in Seq(Entry)
  BY <1>1, LenProperties
<1>3. ASSUME NEW p \in 1 .. Len(comps)
      PROVE  p \in Product /\ p \in Nat
  BY <1>1, <1>2, SyncAssumption DEF Product
<1>4. ASSUME NEW p \in 1 .. Len(comps)
      PROVE  Len(comps[p]) \in Nat /\ \A j \in 1 .. Len(comps[p]) : comps[p][j] \in Entry
  BY <1>2, LenProperties
<1> QED BY <1>2, <1>3, <1>4

\* The lines of a data set, by its components.
LEMMA DatasetLinesAre ==
    ASSUME NEW comps, IsDataset(comps)
    PROVE  \E o : IsLayout(o, comps, DatasetLines(comps))
<1> DEFINE n == Len(comps)
           ss == [p \in DOMAIN comps |-> ComponentLines(p, comps[p])]
           h == <<Line("components", None)>>
           t == FlattenSeq(ss)
           L == h \o t
<1>1. /\ n \in Nat /\ DOMAIN comps = 1 .. n
      /\ \A p \in 1 .. n : p \in Product /\ comps[p] \in Seq(Entry) /\ Len(comps[p]) \in Nat
  BY DatasetIs
<1>2. \A p \in 1 .. n :
        /\ ss[p] \in Seq(LineType) /\ Len(ss[p]) = 2 + 4 * Len(comps[p])
        /\ ss[p][1] = Line("name", PRODUCTS[p]) /\ ss[p][2] = Line("cves", None)
        /\ \A j \in 1 .. Len(comps[p]) : EntryStands(ss[p], 4 * j - 1, comps[p][j])
  <2> SUFFICES ASSUME NEW p \in 1 .. n
               PROVE  /\ ss[p] \in Seq(LineType) /\ Len(ss[p]) = 2 + 4 * Len(comps[p])
                      /\ ss[p][1] = Line("name", PRODUCTS[p]) /\ ss[p][2] = Line("cves", None)
                      /\ \A j \in 1 .. Len(comps[p]) :
                            EntryStands(ss[p], 4 * j - 1, comps[p][j])
    OBVIOUS
  <2>1. p \in Product /\ comps[p] \in Seq(Entry) /\ ss[p] = ComponentLines(p, comps[p])
    BY <1>1
  <2> HIDE DEF ss
  <2> QED BY <2>1, ComponentLinesAre
<1>3. ss \in Seq(Seq(LineType)) /\ Len(ss) = n
  <2>1. ss = [p \in 1 .. n |-> ss[p]]
    BY <1>1
  <2> HIDE DEF ss
  <2>2. ss \in [1 .. n -> Seq(LineType)]
    BY <1>2, <2>1
  <2>3. Len(ss) = n
    BY <1>1, <2>1
  <2> QED BY <1>1, <2>2, <2>3, IsASeq
<1>4. h \in Seq(LineType) /\ Len(h) = 1 /\ h[1] = Line("components", None)
  <2>1. Line("components", None) \in LineType
    BY DEF Line, LineType
  <2> QED BY <2>1
<1>5. L = DatasetLines(comps)
  BY DEF DatasetLines
<1> HIDE DEF n, ss, h
<1>6. PICK b : IsOffsets(b, ss)
  BY <1>3, OffsetsExist
<1>7. /\ t \in Seq(LineType) /\ Len(t) = b[Len(ss)]
      /\ \A k \in 1 .. Len(ss) : \A y \in 1 .. Len(ss[k]) : t[b[k - 1] + y] = ss[k][y]
  <2>1. ss \in Seq(Seq(LineType)) /\ IsOffsets(b, ss)
    BY <1>3, <1>6
  <2> QED BY <2>1, FlattenAt
<1> HIDE DEF t
<1>8. /\ b \in [0 .. n -> Nat] /\ b[0] = 0
      /\ \A p \in 1 .. n : b[p] = b[p - 1] + Len(ss[p])
  BY <1>3, <1>6 DEF IsOffsets
<1>9. /\ L \in Seq(LineType) /\ Len(L) = 1 + Len(t) /\ L[1] = h[1]
      /\ \A x \in 1 .. Len(t) : L[1 + x] = t[x]
  <2>1. h \in Seq(LineType) /\ t \in Seq(LineType)
    BY <1>4, <1>7
  <2>2. /\ h \o t \in Seq(LineType) /\ Len(h \o t) = Len(h) + Len(t)
        /\ \A x \in 1 .. Len(h) : (h \o t)[x] = h[x]
        /\ \A x \in 1 .. Len(t) : (h \o t)[Len(h) + x] = t[x]
    BY <2>1, ConcatAt
  <2> QED BY <1>4, <2>2
<1> HIDE DEF L
<1> DEFINE o == [k \in 0 .. n |-> b[k] + 1]
<1>10. \A k \in 0 .. n : o[k] = b[k] + 1 /\ b[k] \in Nat
  BY <1>8
<1>11. o \in [0 .. n -> Nat] /\ o[0] = 1
  BY <1>1, <1>8, <1>10
<1> HIDE DEF o
<1>12. ASSUME NEW p \in 1 .. n
       PROVE  /\ p \in 0 .. n /\ p - 1 \in 0 .. n
              /\ o[p] = o[p - 1] + 2 + 4 * Len(comps[p])
              /\ \A y \in 1 .. 2 + 4 * Len(comps[p]) : L[o[p - 1] + y] = ss[p][y]
  <2>1. p \in 0 .. n /\ p - 1 \in 0 .. n
    BY <1>1
  <2>2. /\ b[p] = b[p - 1] + (2 + 4 * Len(comps[p])) /\ Len(comps[p]) \in Nat
        /\ b[p] \in Nat /\ b[p - 1] \in Nat /\ o[p] = b[p] + 1 /\ o[p - 1] = b[p - 1] + 1
    BY <1>1, <1>2, <1>8, <1>10, <2>1
  <2>3. ASSUME NEW y \in 1 .. 2 + 4 * Len(comps[p])
        PROVE  L[o[p - 1] + y] = ss[p][y]
    <3>1. Len(ss[p]) = 2 + 4 * Len(comps[p]) /\ p \in 1 .. Len(ss)
      BY <1>2, <1>3
    <3>2. t[b[p - 1] + y] = ss[p][y]
      BY <1>7, <3>1
    <3>3. b[p] <= b[Len(ss)]
      <4>1. p \in 0 .. Len(ss) /\ Len(ss) \in 0 .. Len(ss) /\ p <= Len(ss)
        BY <1>1, <1>3, <2>1
      <4> QED BY <1>3, <1>6, <4>1, OffsetsGrow
    <3>4. b[p - 1] + y \in 1 .. Len(t) /\ 1 + (b[p - 1] + y) = o[p - 1] + y
      <4>1. n \in 0 .. n /\ Len(t) = b[n]
        BY <1>1, <1>3, <1>7
      <4>2. b[n] \in Nat /\ b[p] <= b[n]
        BY <1>3, <1>8, <3>3, <4>1
      <4> DEFINE u == b[p - 1]
                 v == b[p]
                 w == b[n]
                 z == o[p - 1]
                 m == Len(comps[p])
      <4>3. /\ v = u + (2 + 4 * m) /\ u \in Nat /\ v \in Nat /\ w \in Nat /\ m \in Nat
            /\ z = u + 1 /\ v <= w /\ Len(t) = w /\ y \in 1 .. 2 + 4 * m
        BY <2>2, <4>1, <4>2
      <4> HIDE DEF u, v, w, z, m
      <4>4. u + y \in 1 .. w /\ 1 + (u + y) = z + y
        BY <4>3
      <4> QED BY <4>3, <4>4 DEF u, z
    <3> QED BY <1>9, <3>2, <3>4
  <2>4. o[p] = o[p - 1] + 2 + 4 * Len(comps[p])
    <3> DEFINE u == b[p - 1]
               v == b[p]
               m == Len(comps[p])
    <3>1. /\ v = u + (2 + 4 * m) /\ u \in Nat /\ v \in Nat /\ m \in Nat
          /\ o[p] = v + 1 /\ o[p - 1] = u + 1
      BY <2>2
    <3> HIDE DEF u, v, m
    <3>2. v + 1 = u + 1 + 2 + 4 * m
      BY <3>1
    <3> QED BY <3>1, <3>2 DEF m
  <2> QED BY <2>1, <2>3, <2>4
<1>13. ASSUME NEW g \in 0 .. n, NEW j \in 0 .. n, g <= j PROVE o[g] <= o[j]
  <2>1. b[g] <= b[j]
    BY <1>3, <1>6, <1>13, OffsetsGrow
  <2> QED BY <1>10, <2>1
<1>14. Ends(o, comps)
  BY <1>11, <1>12, <1>13 DEF Ends, n
<1>15. Len(L) = o[n]
  <2>1. n \in 0 .. n /\ Len(t) = b[n]
    BY <1>1, <1>3, <1>7
  <2> QED BY <1>9, <1>10, <2>1
<1>16. ASSUME NEW p \in 1 .. n
       PROVE  /\ L[o[p - 1] + 1] = Line("name", PRODUCTS[p])
              /\ L[o[p - 1] + 2] = Line("cves", None)
              /\ \A j \in 1 .. Len(comps[p]) : EntryStands(L, o[p - 1] + 4 * j - 1, comps[p][j])
  <2> DEFINE m == Len(comps[p])
             C == ss[p]
             a == o[p - 1]
  <2>1. m \in Nat /\ a \in Nat /\ \A y \in 1 .. 2 + 4 * m : L[a + y] = C[y]
    BY <1>1, <1>11, <1>12
  <2>2. /\ C[1] = Line("name", PRODUCTS[p]) /\ C[2] = Line("cves", None)
        /\ \A j \in 1 .. m : EntryStands(C, 4 * j - 1, comps[p][j])
    BY <1>2
  <2> HIDE DEF m, C, a
  <2>3. ASSUME NEW j \in 1 .. m
        PROVE  EntryStands(L, a + 4 * j - 1, comps[p][j])
    <3> DEFINE y == 4 * j - 1
    <3>1. y \in 1 .. 2 + 4 * m /\ y + 1 \in 1 .. 2 + 4 * m /\ y + 2 \in 1 .. 2 + 4 * m
          /\ y + 3 \in 1 .. 2 + 4 * m
      BY <2>1
    <3>2. a + 4 * j - 1 = a + y /\ a + 4 * j - 1 + 1 = a + (y + 1) /\ a + 4 * j - 1 + 2 = a + (y + 2)
          /\ a + 4 * j - 1 + 3 = a + (y + 3)
      BY <2>1
    <3>3. EntryStands(C, y, comps[p][j])
      BY <2>2
    <3> HIDE DEF y
    <3>4. L[a + y] = C[y] /\ L[a + (y + 1)] = C[y + 1] /\ L[a + (y + 2)] = C[y + 2]
          /\ L[a + (y + 3)] = C[y + 3]
      BY <2>1, <3>1
    <3> QED BY <3>2, <3>3, <3>4 DEF EntryStands
  <2>4. L[a + 1] = C[1] /\ L[a + 2] = C[2]
    <3>1. 1 \in 1 .. 2 + 4 * m /\ 2 \in 1 .. 2 + 4 * m
      BY <2>1
    <3> QED BY <2>1, <3>1
  <2> QED BY <2>2, <2>3, <2>4 DEF m, C, a
<1>17. ASSUME NEW x \in 1 .. Len(L), x # 1
       PROVE  \E p \in 1 .. n : \E y \in 1 .. 2 + 4 * Len(comps[p]) : x = o[p - 1] + y
  <2>1. Len(t) \in Nat /\ Len(t) = b[Len(ss)]
    BY <1>7, LenProperties
  <2>2. x - 1 \in 1 .. b[Len(ss)] /\ x \in Nat
    BY <1>9, <1>17, <2>1
  <2>3. PICK k \in 1 .. Len(ss) : \E y \in 1 .. Len(ss[k]) : x - 1 = b[k - 1] + y
    <3>1. ss \in Seq(Seq(LineType)) /\ IsOffsets(b, ss)
      BY <1>3, <1>6
    <3> QED BY <2>2, <3>1, OffsetsCover
  <2>4. PICK y \in 1 .. Len(ss[k]) : x - 1 = b[k - 1] + y
    BY <2>3
  <2>5. k \in 1 .. n /\ Len(ss[k]) = 2 + 4 * Len(comps[k])
    BY <1>2, <1>3
  <2>6. y \in 1 .. 2 + 4 * Len(comps[k]) /\ Len(comps[k]) \in Nat
    BY <1>1, <2>5
  <2>7. k - 1 \in 0 .. n
    BY <1>12, <2>5
  <2>8. b[k - 1] \in Nat /\ o[k - 1] = b[k - 1] + 1
    BY <1>10, <2>7
  <2>9. x = o[k - 1] + y
    <3>1. y \in Nat
      BY <2>6
    <3> DEFINE u == b[k - 1]
               z == o[k - 1]
    <3>2. x \in Nat /\ u \in Nat /\ x - 1 = u + y /\ z = u + 1
      BY <2>2, <2>4, <2>8
    <3> HIDE DEF u, z
    <3>3. x = z + y
      BY <3>1, <3>2
    <3> QED BY <3>3 DEF z
  <2> QED BY <2>5, <2>6, <2>9
<1>18. IsLayout(o, comps, L)
  BY <1>4, <1>9, <1>14, <1>15, <1>16, <1>17 DEF IsLayout, n
<1> QED BY <1>5, <1>18

\* Line y of component p: where it is, and whether it is the name of the
\* component or the first line of an entry.
KindAt(o, comps, L, p, y) ==
    LET x == o[p - 1] + y
    IN /\ x \in 1 .. Len(L) /\ o[p - 1] < x /\ x <= o[p]
       /\ L[x].kind = "name" <=> y = 1
       /\ y = 1 => L[x].what = PRODUCTS[p]
       /\ L[x].kind = "id" <=> \E j \in 1 .. Len(comps[p]) : y = 4 * j - 1

\* A line of a component is its name, its `cves:', or one of an entry's four.
LEMMA KindsAre ==
    ASSUME NEW comps, IsDataset(comps), NEW o, NEW L, IsLayout(o, comps, L),
           NEW p \in 1 .. Len(comps), NEW y \in 1 .. 2 + 4 * Len(comps[p])
    PROVE  KindAt(o, comps, L, p, y)
<1> DEFINE a == o[p - 1]
           m == Len(comps[p])
           es == comps[p]
<1>1. /\ Len(comps) \in Nat /\ m \in Nat /\ p - 1 \in 0 .. Len(comps) /\ p \in 0 .. Len(comps)
      /\ Len(comps) \in 0 .. Len(comps) /\ p <= Len(comps)
  BY DatasetIs
<1>2. /\ a \in Nat /\ o[p] = a + 2 + 4 * m /\ o[p] <= o[Len(comps)] /\ o[Len(comps)] \in Nat
      /\ Len(L) = o[Len(comps)]
  BY <1>1 DEF IsLayout, Ends
<1>3. /\ L[a + 1] = Line("name", PRODUCTS[p]) /\ L[a + 2] = Line("cves", None)
      /\ \A j \in 1 .. m : EntryStands(L, a + 4 * j - 1, es[j])
  BY DEF IsLayout
<1> HIDE DEF a, m, es
<1>4. a + y \in 1 .. Len(L) /\ a < a + y /\ a + y <= o[p]
  <2> DEFINE u == o[p]
             w == o[Len(comps)]
  <2>0. y \in 1 .. 2 + 4 * m
    BY DEF m
  <2>1. u = a + 2 + 4 * m /\ u <= w /\ u \in Nat /\ w \in Nat /\ Len(L) = w
    BY <1>1, <1>2
  <2> HIDE DEF u, w
  <2>2. a + y \in 1 .. w /\ a < a + y /\ a + y <= u
    BY <1>1, <1>2, <2>0, <2>1
  <2> QED BY <2>1, <2>2 DEF u
<1>5. CASE y = 1
  <2>1. L[a + y].kind = "name" /\ L[a + y].what = PRODUCTS[p]
    BY <1>3, <1>5 DEF Line
  <2>2. ~ \E j \in 1 .. m : y = 4 * j - 1
    BY <1>1, <1>5
  <2> QED BY <1>4, <1>5, <2>1, <2>2 DEF a, m, KindAt
<1>6. CASE y = 2
  <2>1. L[a + y].kind = "cves"
    BY <1>3, <1>6 DEF Line
  <2>2. ~ \E j \in 1 .. m : y = 4 * j - 1
    BY <1>1, <1>6
  <2> QED BY <1>4, <1>6, <2>1, <2>2 DEF a, m, KindAt
<1>7. CASE y # 1 /\ y # 2
  <2> DEFINE j == (y + 1) \div 4
             z == (y + 1) % 4
  <2>1. y \in Nat /\ y >= 3 /\ y <= 2 + 4 * m
    BY <1>1, <1>7 DEF m
  <2>2. j \in 1 .. m /\ z \in 0 .. 3 /\ y = 4 * j - 1 + z
    BY <1>1, <2>1
  <2> HIDE DEF j, z
  <2>3. EntryStands(L, a + 4 * j - 1, es[j])
    BY <1>3, <2>2
  <2>4. a + y = a + 4 * j - 1 + z /\ a + 4 * j - 1 + 0 = a + 4 * j - 1
    BY <1>1, <1>2, <2>1, <2>2
  <2>5. CASE z = 0
    <3>1. L[a + y].kind = "id"
      BY <2>3, <2>4, <2>5 DEF EntryStands, Line
    <3>2. y = 4 * j - 1
      BY <1>1, <2>2, <2>5
    <3>3. \E l \in 1 .. Len(comps[p]) : y = 4 * l - 1
      BY <2>2, <3>2 DEF m
    <3> QED BY <1>4, <1>7, <3>1, <3>3 DEF a, KindAt
  <2>6. CASE z # 0
    <3>1. z = 1 \/ z = 2 \/ z = 3
      BY <2>2, <2>6
    <3>2. L[a + y].kind \in {"affected", "severity", "description"}
      BY <2>3, <2>4, <3>1 DEF EntryStands, Line
    <3>3. ~ \E l \in 1 .. m : y = 4 * l - 1
      BY <1>1, <2>2, <3>1
    <3> QED BY <1>4, <1>7, <3>2, <3>3 DEF a, m, KindAt
  <2> QED BY <2>5, <2>6
<1> QED BY <1>5, <1>6, <1>7

\* The lines that have been written of a data set.
Begins(s, L) ==
    /\ Len(s) \in Nat /\ DOMAIN s = 1 .. Len(s) /\ Len(s) <= Len(L)
    /\ \A x \in 1 .. Len(s) : s[x] = L[x]

\* What the code reads of an entry.
ReadAs(e) == [id |-> e.id, affected |-> e.affected, severity |-> e.severity, description |-> e.id]

\* A field that is there, and what it is.
LEMMA FieldIs ==
    ASSUME NEW f, NEW x, NEW kind, NEW what
    PROVE  /\ Field(f, x, kind) # None => x \in DOMAIN f.lines
           /\ x \in DOMAIN f.lines /\ f.lines[x] = Line(kind, what) => Field(f, x, kind) = what
BY DEF Field, Line

\* In a data set that may end anywhere, every entry that is complete is one that
\* was put together, of the component below whose name it stands.
LEMMA OnlyEntries ==
    ASSUME NEW comps, IsDataset(comps), NEW f, Begins(f.lines, DatasetLines(comps)),
           NEW n \in DOMAIN f.lines, f.lines[n].kind = "name",
           NEW e \in ComponentAt(f, n).cves, Complete(e)
    PROVE  \E p \in 1 .. Len(comps) :
            /\ ComponentAt(f, n).name = PRODUCTS[p]
            /\ \E j \in 1 .. Len(comps[p]) : e = ReadAs(comps[p][j])
<1> DEFINE L == DatasetLines(comps)
           s == f.lines
<1>1. PICK o : IsLayout(o, comps, L)
  BY DatasetLinesAre
<1> HIDE DEF L, s
<1>2. /\ Len(s) \in Nat /\ DOMAIN s = 1 .. Len(s) /\ Len(s) <= Len(L) /\ Len(L) \in Nat
      /\ \A x \in 1 .. Len(s) : s[x] = L[x] /\ x \in 1 .. Len(L)
  <2>1. Begins(s, L)
    BY DEF s, L
  <2>2. Len(L) \in Nat
    BY <1>1, LenProperties DEF IsLayout
  <2> QED BY <2>1, <2>2 DEF Begins
<1>3. n \in 1 .. Len(s) /\ L[n].kind = "name"
  BY <1>2 DEF s
<1>4. Len(comps) \in Nat /\ \A p \in 1 .. Len(comps) : Len(comps[p]) \in Nat
  BY DatasetIs
<1>5. ASSUME NEW x \in 1 .. Len(s), L[x].kind \in {"name", "id"}
      PROVE  \E p \in 1 .. Len(comps) : \E y \in 1 .. 2 + 4 * Len(comps[p]) : x = o[p - 1] + y
  <2>1. L[1].kind = "components"
    BY <1>1 DEF IsLayout, Line
  <2>2. x # 1
    BY <1>5, <2>1
  <2> QED BY <1>1, <1>2, <2>2 DEF IsLayout
<1>6. PICK p \in 1 .. Len(comps) : \E y \in 1 .. 2 + 4 * Len(comps[p]) : n = o[p - 1] + y
  BY <1>3, <1>5
<1>7. n = o[p - 1] + 1 /\ L[n].what = PRODUCTS[p]
  <2>1. PICK y \in 1 .. 2 + 4 * Len(comps[p]) : n = o[p - 1] + y
    BY <1>6
  <2>2. KindAt(o, comps, L, p, y)
    BY <1>1, KindsAre
  <2> QED BY <1>3, <2>1, <2>2 DEF KindAt
<1>8. PICK k \in n + 2 .. Len(s) :
        /\ e = EntryAt(f, k) /\ s[k].kind = "id"
        /\ \A x \in n + 1 .. k : s[x].kind # "name"
  BY DEF ComponentAt, s
<1>9. k \in 1 .. Len(s) /\ L[k].kind = "id" /\ \A x \in n + 1 .. k : L[x].kind # "name"
  BY <1>2, <1>3, <1>8
<1>10. PICK q \in 1 .. Len(comps) : \E y \in 1 .. 2 + 4 * Len(comps[q]) : k = o[q - 1] + y
  BY <1>5, <1>9
<1>11. PICK y \in 1 .. 2 + 4 * Len(comps[q]) : k = o[q - 1] + y
  BY <1>10
<1>12. KindAt(o, comps, L, q, y)
  BY <1>1, KindsAre
<1>13. o[q - 1] < k /\ k <= o[q]
  BY <1>11, <1>12 DEF KindAt
<1>14. PICK j \in 1 .. Len(comps[q]) : y = 4 * j - 1
  BY <1>9, <1>11, <1>12 DEF KindAt
<1>15. /\ o[p - 1] \in Nat /\ o[p] \in Nat /\ o[q - 1] \in Nat /\ o[q] \in Nat
       /\ o[p] = o[p - 1] + 2 + 4 * Len(comps[p]) /\ Len(comps[p]) \in Nat /\ Len(comps[q]) \in Nat
       /\ p <= q - 1 => o[p] <= o[q - 1]
       /\ q <= p - 1 => o[q] <= o[p - 1]
  <2>1. /\ p \in 0 .. Len(comps) /\ p - 1 \in 0 .. Len(comps)
        /\ q \in 0 .. Len(comps) /\ q - 1 \in 0 .. Len(comps)
    BY <1>4
  <2> QED BY <1>1, <1>4, <2>1 DEF IsLayout, Ends
<1>16. q = p
  <2>1. ~(q <= p - 1)
    <3> DEFINE v == o[p - 1]
               w == o[q]
    <3>1. /\ v \in Nat /\ w \in Nat /\ n = v + 1 /\ k \in Nat /\ n + 2 <= k /\ k <= w
          /\ q <= p - 1 => w <= v
      BY <1>3, <1>7, <1>8, <1>9, <1>13, <1>15
    <3> HIDE DEF v, w
    <3> QED BY <3>1
  <2>2. ~(p <= q - 1)
    <3> SUFFICES ASSUME p <= q - 1 PROVE FALSE
      OBVIOUS
    <3>1. 1 \in 1 .. 2 + 4 * Len(comps[q])
      BY <1>15
    <3>2. L[o[q - 1] + 1].kind = "name"
      <4>1. KindAt(o, comps, L, q, 1)
        BY <1>1, <3>1, KindsAre
      <4> QED BY <4>1 DEF KindAt
    <3>3. o[q - 1] + 1 \in n + 1 .. k
      <4> DEFINE u == o[q - 1]
                 v == o[p - 1]
                 w == o[p]
                 r == Len(comps[p])
      <4>1. /\ u \in Nat /\ v \in Nat /\ w \in Nat /\ w = v + 2 + 4 * r /\ r \in Nat /\ w <= u
            /\ n = v + 1 /\ u < k /\ k \in Nat
        BY <1>7, <1>9, <1>13, <1>15
      <4> HIDE DEF u, v, w, r
      <4>2. u + 1 \in n + 1 .. k
        BY <4>1
      <4> QED BY <4>2 DEF u
    <3> QED BY <1>9, <3>2, <3>3
  <2> QED BY <1>4, <2>1, <2>2
<1>17. j \in 1 .. Len(comps[p]) /\ EntryStands(L, k, comps[p][j])
  <2>1. j \in 1 .. Len(comps[p]) /\ k = o[p - 1] + (4 * j - 1)
    BY <1>11, <1>16, <1>14
  <2>2. k = o[p - 1] + 4 * j - 1
    BY <1>4, <1>15, <2>1
  <2>3. EntryStands(L, o[p - 1] + 4 * j - 1, comps[p][j])
    BY <1>1, <2>1 DEF IsLayout
  <2> QED BY <2>1, <2>2, <2>3
<1>18. ComponentAt(f, n).name = PRODUCTS[p]
  <2>1. s[n].what = PRODUCTS[p]
    BY <1>2, <1>3, <1>7
  <2> QED BY <2>1 DEF ComponentAt, s
<1>19. e = ReadAs(comps[p][j])
  <2> DEFINE g == comps[p][j]
             a == Field(f, k + 1, "affected")
             b == Field(f, k + 2, "severity")
             d == Field(f, k + 3, "description")
  <2>1. /\ L[k] = Line("id", g.id) /\ L[k + 1] = Line("affected", g.affected)
        /\ L[k + 2] = Line("severity", g.severity) /\ L[k + 3] = Line("description", g.id)
    BY <1>17 DEF EntryStands
  <2>2. \A x \in DOMAIN s : s[x] = L[x]
    BY <1>2
  <2>3. a # None /\ b # None /\ d # None
    <3>1. e = EntryAt(f, k)
      BY <1>8
    <3>2. e.affected = a /\ e.severity = b /\ e.description = d
      BY <3>1 DEF EntryAt
    <3> QED BY <3>2 DEF Complete
  <2> HIDE DEF g, a, b, d
  <2>4. a = g.affected
    <3>1. k + 1 \in DOMAIN f.lines
      BY <2>3, FieldIs DEF a
    <3>2. f.lines[k + 1] = Line("affected", g.affected)
      BY <2>1, <2>2, <3>1 DEF s
    <3> QED BY <3>1, <3>2, FieldIs DEF a
  <2>5. b = g.severity
    <3>1. k + 2 \in DOMAIN f.lines
      BY <2>3, FieldIs DEF b
    <3>2. f.lines[k + 2] = Line("severity", g.severity)
      BY <2>1, <2>2, <3>1 DEF s
    <3> QED BY <3>1, <3>2, FieldIs DEF b
  <2>6. d = g.id
    <3>1. k + 3 \in DOMAIN f.lines
      BY <2>3, FieldIs DEF d
    <3>2. f.lines[k + 3] = Line("description", g.id)
      BY <2>1, <2>2, <3>1 DEF s
    <3> QED BY <3>1, <3>2, FieldIs DEF d
  <2>7. f.lines[k].what = g.id
    <3>1. s[k] = Line("id", g.id)
      BY <1>2, <1>9, <2>1
    <3> QED BY <3>1 DEF Line, s
  <2>8. e = [id |-> f.lines[k].what, affected |-> a, severity |-> b, description |-> d]
    BY <1>8 DEF EntryAt, a, b, d
  <2> QED BY <2>4, <2>5, <2>6, <2>7, <2>8 DEF ReadAs, g
<1> QED BY <1>17, <1>18, <1>19

\* In a data set that ends behind its last line every entry is found.
LEMMA AllEntries ==
    ASSUME NEW comps, IsDataset(comps), NEW f, f.lines = DatasetLines(comps),
           NEW p \in 1 .. Len(comps), NEW j \in 1 .. Len(comps[p])
    PROVE  \E n \in DOMAIN f.lines :
            /\ f.lines[n].kind = "name" /\ ComponentAt(f, n).name = PRODUCTS[p]
            /\ ReadAs(comps[p][j]) \in ComponentAt(f, n).cves
<1> DEFINE s == f.lines
           m == Len(comps[p])
<1>1. PICK o : IsLayout(o, comps, s)
  BY DatasetLinesAre
<1> DEFINE a == o[p - 1]
           n == a + 1
           k == a + 4 * j - 1
           g == comps[p][j]
<1> HIDE DEF s
<1>2. /\ Len(s) \in Nat /\ DOMAIN s = 1 .. Len(s) /\ m \in Nat /\ j \in 1 .. m
      /\ p - 1 \in 0 .. Len(comps)
  <2>1. s \in Seq(LineType)
    BY <1>1 DEF IsLayout
  <2> QED BY <2>1, LenProperties, DatasetIs
<1>3. a \in Nat
  BY <1>1, <1>2 DEF IsLayout, Ends
<1>4. ASSUME NEW y \in 1 .. 2 + 4 * m
      PROVE  /\ a + y \in 1 .. Len(s)
             /\ s[a + y].kind = "name" <=> y = 1
             /\ y = 1 => s[a + y].what = PRODUCTS[p]
  <2>1. KindAt(o, comps, s, p, y)
    BY <1>1, KindsAre
  <2> QED BY <2>1 DEF KindAt
<1>5. EntryStands(s, k, g)
  BY <1>1, <1>2 DEF IsLayout
<1> HIDE DEF m, a
<1>6. /\ 4 * j - 1 \in 1 .. 2 + 4 * m /\ 4 * j \in 1 .. 2 + 4 * m /\ 4 * j + 1 \in 1 .. 2 + 4 * m
      /\ 4 * j + 2 \in 1 .. 2 + 4 * m /\ 1 \in 1 .. 2 + 4 * m
      /\ k = a + (4 * j - 1) /\ k + 1 = a + 4 * j /\ k + 2 = a + (4 * j + 1)
      /\ k + 3 = a + (4 * j + 2)
  BY <1>2, <1>3
<1>7. /\ n \in 1 .. Len(s) /\ k \in 1 .. Len(s) /\ k + 1 \in 1 .. Len(s) /\ k + 2 \in 1 .. Len(s)
      /\ k + 3 \in 1 .. Len(s)
      /\ s[n].kind = "name" /\ s[n].what = PRODUCTS[p]
  BY <1>4, <1>6
<1>8. k \in n + 2 .. Len(s)
  <2>1. k \in Nat /\ k <= Len(s) /\ k = a + 4 * j - 1 /\ n = a + 1
    BY <1>7
  <2>2. j \in Nat /\ j >= 1 /\ Len(s) \in Nat
    BY <1>2
  <2> HIDE DEF k, n
  <2> QED BY <1>3, <2>1, <2>2
<1>9. ASSUME NEW x \in n + 1 .. k PROVE s[x].kind # "name"
  <2>1. x - a \in 1 .. 2 + 4 * m /\ x - a # 1 /\ x = a + (x - a)
    BY <1>2, <1>3, <1>6
  <2> QED BY <1>4, <2>1
<1>10. /\ s[k] = Line("id", g.id) /\ s[k + 1] = Line("affected", g.affected)
       /\ s[k + 2] = Line("severity", g.severity) /\ s[k + 3] = Line("description", g.id)
  BY <1>5 DEF EntryStands
<1> HIDE DEF g, k, n
<1>11. EntryAt(f, k) = ReadAs(g)
  <2> DEFINE u == k + 1
             v == k + 2
             w == k + 3
  <2>1. u \in DOMAIN f.lines /\ v \in DOMAIN f.lines /\ w \in DOMAIN f.lines
    BY <1>2, <1>7 DEF s
  <2>2. /\ f.lines[u] = Line("affected", g.affected) /\ f.lines[v] = Line("severity", g.severity)
        /\ f.lines[w] = Line("description", g.id)
    BY <1>10 DEF s
  <2>3. EntryAt(f, k) = [id |-> f.lines[k].what, affected |-> Field(f, u, "affected"),
                         severity |-> Field(f, v, "severity"),
                         description |-> Field(f, w, "description")]
    BY DEF EntryAt
  <2> HIDE DEF u, v, w
  <2>4. Field(f, u, "affected") = g.affected
    BY <2>1, <2>2, FieldIs
  <2>5. Field(f, v, "severity") = g.severity
    BY <2>1, <2>2, FieldIs
  <2>6. Field(f, w, "description") = g.id
    BY <2>1, <2>2, FieldIs
  <2>7. f.lines[k].what = g.id
    BY <1>10 DEF Line, s
  <2> QED BY <2>3, <2>4, <2>5, <2>6, <2>7 DEF ReadAs
<1>12. s[k].kind = "id"
  BY <1>10 DEF Line
<1>13. EntryAt(f, k) \in ComponentAt(f, n).cves
  BY <1>8, <1>9, <1>12 DEF ComponentAt, s
<1>14. ComponentAt(f, n).name = PRODUCTS[p]
  BY <1>7 DEF ComponentAt, s
<1> QED BY <1>2, <1>7, <1>11, <1>13, <1>14 DEF s, g

-----------------------------------------------------------------------------
(* What build_dataset puts together.                                       *)

\* FlattenSeq holds what its parts hold.
LEMMA FlattenHolds ==
    ASSUME NEW S, NEW ss \in Seq(Seq(S))
    PROVE  LET F == FlattenSeq(ss)
           IN /\ F \in Seq(S) /\ Len(F) \in Nat
              /\ \A x \in 1 .. Len(F) :
                    \E k \in 1 .. Len(ss) : \E y \in 1 .. Len(ss[k]) : F[x] = ss[k][y]
              /\ \A k \in 1 .. Len(ss) : \A y \in 1 .. Len(ss[k]) :
                    \E x \in 1 .. Len(F) : F[x] = ss[k][y]
<1> DEFINE F == FlattenSeq(ss)
<1>1. PICK o : IsOffsets(o, ss)
  BY OffsetsExist
<1>2. /\ F \in Seq(S) /\ Len(F) = o[Len(ss)]
      /\ \A k \in 1 .. Len(ss) : \A y \in 1 .. Len(ss[k]) : F[o[k - 1] + y] = ss[k][y]
  BY <1>1, FlattenAt
<1> HIDE DEF F
<1>3. Len(F) \in Nat
  BY <1>2, LenProperties
<1>4. ASSUME NEW x \in 1 .. Len(F)
      PROVE  \E k \in 1 .. Len(ss) : \E y \in 1 .. Len(ss[k]) : F[x] = ss[k][y]
  <2>1. x \in 1 .. o[Len(ss)]
    BY <1>2
  <2>2. PICK k \in 1 .. Len(ss) : \E y \in 1 .. Len(ss[k]) : x = o[k - 1] + y
    BY <1>1, <2>1, OffsetsCover
  <2>3. PICK y \in 1 .. Len(ss[k]) : x = o[k - 1] + y
    BY <2>2
  <2>4. F[o[k - 1] + y] = ss[k][y]
    BY <1>2
  <2> QED BY <2>3, <2>4
<1>5. ASSUME NEW k \in 1 .. Len(ss), NEW y \in 1 .. Len(ss[k])
      PROVE  \E x \in 1 .. Len(F) : F[x] = ss[k][y]
  <2>1. Len(ss) \in Nat /\ Len(ss[k]) \in Nat
    BY PartsAre
  <2>2. k \in 0 .. Len(ss) /\ k - 1 \in 0 .. Len(ss) /\ Len(ss) \in 0 .. Len(ss) /\ k <= Len(ss)
    BY <2>1
  <2>3. o[k] <= o[Len(ss)]
    BY <1>1, <2>2, OffsetsGrow
  <2>4. /\ o[k - 1] \in Nat /\ o[k] = o[k - 1] + Len(ss[k]) /\ o[Len(ss)] \in Nat
    BY <1>1, <2>2 DEF IsOffsets
  <2>5. o[k - 1] + y \in 1 .. o[Len(ss)]
    <3> DEFINE a == o[k - 1]
               b == o[k]
               d == o[Len(ss)]
               n == Len(ss[k])
    <3>1. a \in Nat /\ b = a + n /\ d \in Nat /\ n \in Nat /\ b <= d /\ y \in 1 .. n
      BY <2>1, <2>3, <2>4
    <3> HIDE DEF a, b, d, n
    <3>2. a + y \in 1 .. d
      BY <3>1
    <3> QED BY <3>2 DEF a, d
  <2> QED BY <1>2, <2>5
<1> QED BY <1>2, <1>3, <1>4, <1>5 DEF F

\* A record that has entries at all, and the entry of its k-th match.
Kept(c) == Record[c].described /\ best_severity(Record[c]) # None

EntryFrom(e, c, p, k) ==
    /\ e.id = c /\ e.severity = best_severity(Record[c])
    /\ k \in DOMAIN Record[c].matches /\ Taken(Record[c].matches[k], p)
    /\ e.affected = Condition(Record[c].matches[k])

\* The conditions of a match: a list that is not empty if the match is taken.
LEMMA ConditionIs ==
    ASSUME NEW c \in Cves, NEW k \in DOMAIN Record[c].matches
    PROVE  LET m == Record[c].matches[k]
           IN /\ Condition(m) \in Seq(Conditions)
              /\ \A p : Taken(m, p) => Condition(m) # <<>>
<1> DEFINE m == Record[c].matches[k]
<1>1. m.exact \in Conditions \cup {None} /\ m.range \in Seq(Conditions)
  BY SyncAssumption DEF RecordOK, MatchOK
<1> HIDE DEF m
<1>2. CASE m.exact # None
  <2>1. Condition(m) = <<m.exact>> /\ m.exact \in Conditions
    BY <1>1, <1>2 DEF Condition
  <2> DEFINE a == m.exact
  <2> HIDE DEF a
  <2>2. a \in Conditions => <<a>> \in Seq(Conditions) /\ <<a>> # <<>>
    OBVIOUS
  <2> QED BY <2>1, <2>2 DEF a, m
<1>3. CASE m.exact = None
  BY <1>1, <1>3 DEF Condition, Taken, m
<1> QED BY <1>2, <1>3

\* The entries of one CVE are those of the matches that are taken.
LEMMA EntriesAre ==
    ASSUME NEW c \in Cves, NEW p \in Product
    PROVE  LET E == EntriesOf(c, p)
           IN /\ E \in Seq(Entry)
              /\ \A x \in 1 .. Len(E) : Kept(c) /\ \E k : EntryFrom(E[x], c, p, k)
              /\ Kept(c) => \A k \in DOMAIN Record[c].matches :
                    Taken(Record[c].matches[k], p)
                        => \E x \in 1 .. Len(E) : EntryFrom(E[x], c, p, k)
<1> DEFINE r == Record[c]
           M == r.matches
           ss == [k \in DOMAIN M |-> IF Taken(M[k], p) THEN <<Condition(M[k])>> ELSE <<>>]
           F == FlattenSeq(ss)
           E == EntriesOf(c, p)
<1>1. Len(M) \in Nat /\ DOMAIN M = 1 .. Len(M)
  BY SyncAssumption DEF RecordOK
<1>2. \A k \in DOMAIN M : Condition(M[k]) \in Seq(Conditions)
  BY ConditionIs
<1> HIDE DEF M
<1>3. ASSUME NEW k \in DOMAIN M
      PROVE  /\ ss[k] \in Seq(Seq(Conditions))
             /\ Taken(M[k], p) => Len(ss[k]) = 1 /\ ss[k][1] = Condition(M[k])
             /\ ~Taken(M[k], p) => Len(ss[k]) = 0
  <2> DEFINE d == Condition(M[k])
  <2>1. d \in Seq(Conditions)
    BY <1>2
  <2> HIDE DEF d
  <2>2. /\ <<d>> \in Seq(Seq(Conditions)) /\ Len(<<d>>) = 1 /\ <<d>>[1] = d
        /\ <<>> \in Seq(Seq(Conditions)) /\ Len(<<>>) = 0
    BY <2>1
  <2>3. ss[k] = IF Taken(M[k], p) THEN <<d>> ELSE <<>>
    BY DEF d
  <2> HIDE DEF ss
  <2> QED BY <2>2, <2>3 DEF d
<1>4. ss \in Seq(Seq(Seq(Conditions))) /\ Len(ss) = Len(M)
  <2>1. ss \in [1 .. Len(M) -> Seq(Seq(Conditions))]
    BY <1>1, <1>3
  <2> HIDE DEF ss
  <2> QED BY <1>1, <2>1, LenProperties
<1>5. F = cpe_matches_for_product(r, p)
  BY DEF cpe_matches_for_product, M
<1> HIDE DEF ss
<1>6. /\ F \in Seq(Seq(Conditions)) /\ Len(F) \in Nat
      /\ \A x \in 1 .. Len(F) :
            \E k \in 1 .. Len(ss) : \E y \in 1 .. Len(ss[k]) : F[x] = ss[k][y]
      /\ \A k \in 1 .. Len(ss) : \A y \in 1 .. Len(ss[k]) :
            \E x \in 1 .. Len(F) : F[x] = ss[k][y]
  BY <1>4, FlattenHolds
<1> HIDE DEF F
<1>7. DOMAIN F = 1 .. Len(F) /\ \A x \in 1 .. Len(F) : F[x] \in Seq(Conditions)
  BY <1>6, LenProperties
<1>8. ASSUME NEW x \in 1 .. Len(F)
      PROVE  \E k \in DOMAIN M : Taken(M[k], p) /\ F[x] = Condition(M[k])
  <2>1. PICK k \in 1 .. Len(ss) : \E y \in 1 .. Len(ss[k]) : F[x] = ss[k][y]
    BY <1>6
  <2>2. k \in DOMAIN M
    BY <1>1, <1>4
  <2>3. PICK y \in 1 .. Len(ss[k]) : F[x] = ss[k][y]
    BY <2>1
  <2>4. Taken(M[k], p) /\ y = 1
    <3>1. Len(ss[k]) = 1 \/ Len(ss[k]) = 0
      BY <1>3, <2>2
    <3>2. Len(ss[k]) # 0
      <4>1. Len(ss[k]) = 0 => 1 .. Len(ss[k]) = {}
        OBVIOUS
      <4> QED BY <4>1
    <3>3. Taken(M[k], p) /\ Len(ss[k]) = 1
      BY <1>3, <2>2, <3>1, <3>2
    <3> QED BY <3>3
  <2> QED BY <1>3, <2>2, <2>3, <2>4
<1>9. ASSUME NEW k \in DOMAIN M, Taken(M[k], p)
      PROVE  \E x \in 1 .. Len(F) : F[x] = Condition(M[k])
  <2>1. k \in 1 .. Len(ss) /\ 1 \in 1 .. Len(ss[k]) /\ ss[k][1] = Condition(M[k])
    BY <1>1, <1>3, <1>4, <1>9
  <2> QED BY <1>6, <2>1
<1>10. CASE ~Kept(c)
  <2>1. E = <<>>
    BY <1>10 DEF EntriesOf, Kept
  <2>2. <<>> \in Seq(Entry) /\ Len(<<>>) = 0
    OBVIOUS
  <2> QED BY <1>10, <2>1, <2>2
<1>11. CASE Kept(c)
  <2> DEFINE en(d) == [id |-> c, affected |-> d, severity |-> best_severity(Record[c])]
  <2>1. E = [k \in 1 .. Len(F) |-> en(F[k])]
    BY <1>5, <1>7, <1>11 DEF EntriesOf, Kept
  <2>2. \A x \in 1 .. Len(F) : en(F[x]) \in Entry
    BY <1>7 DEF Entry, Levels
  <2>3. E \in [1 .. Len(F) -> Entry] /\ \A x \in 1 .. Len(F) : E[x] = en(F[x])
    BY <2>1, <2>2
  <2>4. E \in Seq(Entry) /\ Len(E) = Len(F)
    <3> DEFINE n == Len(F)
    <3>1. n \in Nat /\ E \in [1 .. n -> Entry]
      BY <1>6, <2>3
    <3> HIDE DEF E, en, n
    <3>2. E \in Seq(Entry)
      BY <3>1
    <3>3. DOMAIN E = 1 .. n
      BY <3>1
    <3>4. Len(E) = n
      BY <3>1, <3>2, <3>3, LenProperties
    <3> QED BY <3>2, <3>4 DEF n
  <2>5. \A x \in 1 .. Len(F), k \in DOMAIN M :
            Taken(M[k], p) /\ F[x] = Condition(M[k]) => EntryFrom(E[x], c, p, k)
    <3>1. \A x \in 1 .. Len(F) : E[x].id = c /\ E[x].affected = F[x]
                                 /\ E[x].severity = best_severity(Record[c])
      BY <2>3
    <3> HIDE DEF E
    <3> QED BY <3>1 DEF EntryFrom, M
  <2> HIDE DEF E, en
  <2>6. \A x \in 1 .. Len(E) : \E k : EntryFrom(E[x], c, p, k)
    BY <1>8, <2>4, <2>5
  <2>7. \A k \in DOMAIN M : Taken(M[k], p) => \E x \in 1 .. Len(E) : EntryFrom(E[x], c, p, k)
    BY <1>9, <2>4, <2>5
  <2> QED BY <1>11, <2>4, <2>6, <2>7 DEF E, M
<1> QED BY <1>10, <1>11

\* What is put together for a product from a list of CVEs.
LEMMA BuiltAre ==
    ASSUME NEW cs \in Seq(Cves), NEW p \in Product
    PROVE  LET B == Built(cs, p)
           IN /\ B \in Seq(Entry)
              /\ \A x \in 1 .. Len(B) : \E c \in Cves : Kept(c) /\ \E k : EntryFrom(B[x], c, p, k)
              /\ \A n \in 1 .. Len(cs) : Kept(cs[n]) =>
                    \A k \in DOMAIN Record[cs[n]].matches : Taken(Record[cs[n]].matches[k], p)
                        => \E x \in 1 .. Len(B) : EntryFrom(B[x], cs[n], p, k)
<1> DEFINE ss == [k \in DOMAIN cs |-> EntriesOf(cs[k], p)]
           B == FlattenSeq(ss)
<1>1. Len(cs) \in Nat /\ DOMAIN cs = 1 .. Len(cs) /\ \A n \in 1 .. Len(cs) : cs[n] \in Cves
  BY LenProperties
<1>2. \A n \in 1 .. Len(cs) : ss[n] = EntriesOf(cs[n], p)
  BY <1>1
<1>3. ASSUME NEW n \in 1 .. Len(cs)
      PROVE  /\ ss[n] \in Seq(Entry)
             /\ \A x \in 1 .. Len(ss[n]) : Kept(cs[n]) /\ \E k : EntryFrom(ss[n][x], cs[n], p, k)
             /\ Kept(cs[n]) => \A k \in DOMAIN Record[cs[n]].matches :
                    Taken(Record[cs[n]].matches[k], p)
                        => \E x \in 1 .. Len(ss[n]) : EntryFrom(ss[n][x], cs[n], p, k)
  <2>1. cs[n] \in Cves /\ ss[n] = EntriesOf(cs[n], p)
    BY <1>1, <1>2
  <2> HIDE DEF ss
  <2> QED BY <2>1, EntriesAre
<1>4. ss \in Seq(Seq(Entry)) /\ Len(ss) = Len(cs)
  <2>1. ss \in [1 .. Len(cs) -> Seq(Entry)]
    BY <1>1, <1>3
  <2> HIDE DEF ss
  <2> QED BY <1>1, <2>1, LenProperties
<1>5. B = Built(cs, p)
  BY DEF Built
<1> HIDE DEF ss
<1>6. /\ B \in Seq(Entry)
      /\ \A x \in 1 .. Len(B) :
            \E k \in 1 .. Len(ss) : \E y \in 1 .. Len(ss[k]) : B[x] = ss[k][y]
      /\ \A k \in 1 .. Len(ss) : \A y \in 1 .. Len(ss[k]) :
            \E x \in 1 .. Len(B) : B[x] = ss[k][y]
  BY <1>4, FlattenHolds
<1> HIDE DEF B
<1>7. ASSUME NEW x \in 1 .. Len(B)
      PROVE  \E c \in Cves : Kept(c) /\ \E k : EntryFrom(B[x], c, p, k)
  <2>1. PICK n \in 1 .. Len(ss) : \E y \in 1 .. Len(ss[n]) : B[x] = ss[n][y]
    BY <1>6
  <2>2. PICK y \in 1 .. Len(ss[n]) : B[x] = ss[n][y]
    BY <2>1
  <2>3. n \in 1 .. Len(cs) /\ cs[n] \in Cves
    BY <1>1, <1>4
  <2>4. Kept(cs[n]) /\ \E k : EntryFrom(ss[n][y], cs[n], p, k)
    BY <1>3, <2>3
  <2> QED BY <2>2, <2>3, <2>4
<1>8. ASSUME NEW n \in 1 .. Len(cs), Kept(cs[n]), NEW k \in DOMAIN Record[cs[n]].matches,
             Taken(Record[cs[n]].matches[k], p)
      PROVE  \E x \in 1 .. Len(B) : EntryFrom(B[x], cs[n], p, k)
  <2>1. PICK y \in 1 .. Len(ss[n]) : EntryFrom(ss[n][y], cs[n], p, k)
    BY <1>3, <1>8
  <2>2. PICK x \in 1 .. Len(B) : B[x] = ss[n][y]
    BY <1>4, <1>6
  <2> QED BY <2>1, <2>2
<1> QED BY <1>5, <1>6, <1>7, <1>8

-----------------------------------------------------------------------------
(* What crimp reports of a data set.                                       *)

\* The conditions of a match, read off the record.
MatchSays(m, version, doubt) ==
    IF m.exact # None THEN Says(m.exact, version, doubt)
    ELSE /\ m.range # <<>>
         /\ \A j \in DOMAIN m.range : Says(m.range[j], version, doubt)

\* A condition that holds for the code is one the record states, or in doubt;
\* and one the record states without doubt holds for the code.
LEMMA ConditionSays ==
    ASSUME NEW u \in Version, NEW d \in Conditions
    PROVE  LET held == op_holds(d.op, version_compare(u, d.version))
           IN (held => Says(d, u, TRUE)) /\ (Says(d, u, FALSE) => held)
<1>1. d.version \in Version
  BY DEF Conditions
<1>2. CASE Comparable(u, d.version)
  <2>1. op_holds(d.op, version_compare(u, d.version)) <=> Holds(d.op, u, d.version)
    BY <1>1, <1>2, ConditionsAreTrue DEF Comparable
  <2> QED BY <1>2, <2>1 DEF Says
<1>3. CASE ~Comparable(u, d.version)
  BY <1>3 DEF Says
<1> QED BY <1>2, <1>3

\* The same of all the conditions of a match that is taken.
LEMMA MatchIsJudged ==
    ASSUME NEW c \in Cves, NEW k \in DOMAIN Record[c].matches, NEW u \in Version
    PROVE  LET m == Record[c].matches[k]
           IN /\ (\E p : Taken(m, p)) /\ version_satisfies(u, Condition(m)) => MatchSays(m, u, TRUE)
              /\ MatchSays(m, u, FALSE) => version_satisfies(u, Condition(m))
<1> DEFINE m == Record[c].matches[k]
<1>1. m.exact \in Conditions \cup {None} /\ m.range \in Seq(Conditions)
  BY SyncAssumption DEF RecordOK, MatchOK
<1> HIDE DEF m
<1>2. CASE m.exact # None
  <2> DEFINE d == m.exact
             held == op_holds(d.op, version_compare(u, d.version))
  <2>1. d \in Conditions /\ Condition(m) = <<d>> /\ d # None
    BY <1>1, <1>2 DEF Condition
  <2>2. (held => Says(d, u, TRUE)) /\ (Says(d, u, FALSE) => held)
    BY <2>1, ConditionSays
  <2>3. version_satisfies(u, <<d>>) <=> held
    <3> HIDE DEF d
    <3>1. <<d>> # <<>> /\ DOMAIN <<d>> = {1} /\ <<d>>[1] = d
      OBVIOUS
    <3> QED BY <3>1 DEF version_satisfies
  <2>4. \A doubt : MatchSays(m, u, doubt) <=> Says(d, u, doubt)
    BY <1>2 DEF MatchSays
  <2> HIDE DEF d, held
  <2> QED BY <2>1, <2>2, <2>3, <2>4 DEF m
<1>3. CASE m.exact = None
  <2> DEFINE r == m.range
  <2>1. r \in Seq(Conditions) /\ Condition(m) = r
    BY <1>1, <1>3 DEF Condition
  <2> HIDE DEF r
  <2>2. ASSUME NEW j \in DOMAIN r
        PROVE  /\ op_holds(r[j].op, version_compare(u, r[j].version)) => Says(r[j], u, TRUE)
               /\ Says(r[j], u, FALSE) => op_holds(r[j].op, version_compare(u, r[j].version))
    <3>1. r[j] \in Conditions
      BY <2>1
    <3> QED BY <3>1, ConditionSays
  <2>3. version_satisfies(u, r) <=>
            /\ r # <<>>
            /\ \A j \in DOMAIN r : op_holds(r[j].op, version_compare(u, r[j].version))
    BY DEF version_satisfies
  <2>4. \A doubt : MatchSays(m, u, doubt) <=>
            /\ r # <<>>
            /\ \A j \in DOMAIN r : Says(r[j], u, doubt)
    BY <1>3 DEF MatchSays, r
  <2>5. /\ version_satisfies(u, r) => MatchSays(m, u, TRUE)
        /\ MatchSays(m, u, FALSE) => version_satisfies(u, r)
    BY <2>2, <2>3, <2>4
  <2> QED BY <2>1, <2>5 DEF m
<1> QED BY <1>2, <1>3

\* What a record says, by its matches.
LEMMA AffectsIs ==
    ASSUME NEW c, NEW comp, NEW doubt
    PROVE  Affects(c, comp, doubt) <=>
            /\ Kept(c)
            /\ \E k \in DOMAIN Record[c].matches :
                /\ Record[c].matches[k].vulnerable /\ Record[c].matches[k].product \in Product
                /\ PRODUCTS[Record[c].matches[k].product] = comp.component
                /\ MatchSays(Record[c].matches[k], comp.version, doubt)
BY DEF Affects, Kept, MatchSays

\* Components as build_dataset puts them together, each from a list of CVEs.
IsBuilt(comps) ==
    /\ IsDataset(comps)
    /\ \A p \in 1 .. Len(comps) : \E cs \in Seq(Cves) : comps[p] = Built(cs, p)

\* However much of a data set is there, no more is reported than the records
\* say, or leave in doubt.
LEMMA FoundIsTrue ==
    ASSUME NEW comps, IsBuilt(comps), NEW f, Begins(f.lines, DatasetLines(comps)),
           NEW g \in crimp_cve_match_components(Doc(f), Components).findings
    PROVE  \E x \in Vulnerable(TRUE) :
            /\ g.id = x[1] /\ g.path = x[2].path
            /\ best_severity(Record[g.id]) \in Severities => g.severity = best_severity(Record[g.id])
<1>1. PICK C \in Doc(f).components : g \in match_component_entry(C, Components)
  BY DEF crimp_cve_match_components
<1>2. PICK n \in DOMAIN f.lines : f.lines[n].kind = "name" /\ C = ComponentAt(f, n)
  BY <1>1 DEF Doc
<1>3. PICK e \in C.cves : g \in match_cve_entry(e, Components, C.name)
  BY <1>1 DEF match_component_entry
<1>4. PICK comp \in Components :
        /\ Complete(e) /\ comp.version # <<>> /\ comp.component = C.name
        /\ version_satisfies(comp.version, e.affected)
        /\ g = Finding(e, comp)
  BY <1>3 DEF match_cve_entry
<1>5. IsDataset(comps)
  BY DEF IsBuilt
<1>6. PICK p \in 1 .. Len(comps) :
        /\ ComponentAt(f, n).name = PRODUCTS[p]
        /\ \E j \in 1 .. Len(comps[p]) : e = ReadAs(comps[p][j])
  <2>1. e \in ComponentAt(f, n).cves
    BY <1>2
  <2> QED BY <1>2, <1>4, <1>5, <2>1, OnlyEntries
<1>7. PICK j \in 1 .. Len(comps[p]) : e = ReadAs(comps[p][j])
  BY <1>6
<1>8. p \in Product
  BY <1>5, DatasetIs
<1>9. PICK cs \in Seq(Cves) : comps[p] = Built(cs, p)
  BY DEF IsBuilt
<1>10. PICK c \in Cves : Kept(c) /\ \E k : EntryFrom(comps[p][j], c, p, k)
  <2>1. \A y \in 1 .. Len(Built(cs, p)) :
            \E c \in Cves : Kept(c) /\ \E k : EntryFrom(Built(cs, p)[y], c, p, k)
    BY <1>8, BuiltAre
  <2> QED BY <1>9, <2>1
<1>11. PICK k : EntryFrom(comps[p][j], c, p, k)
  BY <1>10
<1> DEFINE m == Record[c].matches[k]
           q == comps[p][j]
<1>12. /\ q.id = c /\ q.severity = best_severity(Record[c]) /\ k \in DOMAIN Record[c].matches
       /\ Taken(m, p) /\ q.affected = Condition(m)
  BY <1>11 DEF EntryFrom
<1>13. e.id = c /\ e.severity = best_severity(Record[c]) /\ e.affected = Condition(m)
  <2>1. e.id = q.id /\ e.severity = q.severity /\ e.affected = q.affected
    BY <1>7 DEF ReadAs
  <2> QED BY <1>12, <2>1
<1>14. comp.version \in Version
  BY SyncAssumption
<1>15. MatchSays(m, comp.version, TRUE)
  <2>1. version_satisfies(comp.version, Condition(m)) /\ Taken(m, p)
    BY <1>4, <1>12, <1>13
  <2> QED BY <1>12, <1>14, <2>1, MatchIsJudged
<1>16. m.vulnerable /\ m.product = p
  BY <1>12 DEF Taken
<1>17. Affects(c, comp, TRUE)
  <2>1. PRODUCTS[p] = comp.component
    BY <1>2, <1>4, <1>6
  <2> QED BY <1>8, <1>10, <1>12, <1>15, <1>16, <2>1, AffectsIs
<1>18. <<c, comp>> \in Vulnerable(TRUE)
  BY <1>4, <1>17 DEF Vulnerable
<1>19. /\ g.id = e.id /\ g.path = comp.path
       /\ e.severity \in Severities => g.severity = e.severity
  BY <1>4 DEF Finding
<1> DEFINE x == <<c, comp>>
<1>20. x[1] = c /\ x[2] = comp
  OBVIOUS
<1> HIDE DEF x, m, q
<1> QED BY <1>13, <1>18, <1>19, <1>20 DEF x

\* The products of x's component were built from lists that hold x's CVE.
BuiltFrom(comps, x) ==
    \A p \in Product : PRODUCTS[p] = x[2].component =>
        /\ p \in 1 .. Len(comps)
        /\ \E cs \in Seq(Cves) : /\ comps[p] = Built(cs, p)
                                 /\ \E n \in 1 .. Len(cs) : cs[n] = x[1]

\* Of a data set that is complete everything is reported that a record says
\* without doubt, if the record is in the list its component was built from.
LEMMA AllAreFound ==
    ASSUME NEW comps, IsBuilt(comps), NEW f, f.lines = DatasetLines(comps), ~f.broken,
           NEW x \in Vulnerable(FALSE), BuiltFrom(comps, x)
    PROVE  \E g \in crimp_cve_match_components(Doc(f), Components).findings :
                g.id = x[1] /\ g.path = x[2].path
<1> DEFINE c == x[1]
           comp == x[2]
<1>1. c \in Cves /\ comp \in Components /\ comp.version # <<>> /\ Affects(c, comp, FALSE)
  BY DEF Vulnerable
<1> HIDE DEF c, comp
<1>2. Kept(c)
  BY <1>1, AffectsIs
<1>3. PICK k \in DOMAIN Record[c].matches :
        /\ Record[c].matches[k].vulnerable /\ Record[c].matches[k].product \in Product
        /\ PRODUCTS[Record[c].matches[k].product] = comp.component
        /\ MatchSays(Record[c].matches[k], comp.version, FALSE)
  BY <1>1, AffectsIs
<1> DEFINE m == Record[c].matches[k]
           p == m.product
<1>4. p \in Product /\ PRODUCTS[p] = comp.component /\ MatchSays(m, comp.version, FALSE)
  BY <1>3
<1>5. Taken(m, p)
  BY <1>3 DEF Taken, MatchSays
<1>6. comp.version \in Version
  BY <1>1, SyncAssumption
<1>7. version_satisfies(comp.version, Condition(m))
  BY <1>1, <1>4, <1>6, MatchIsJudged
<1>8. Condition(m) \in Seq(Conditions) /\ Condition(m) # <<>>
  BY <1>1, <1>5, ConditionIs
<1> HIDE DEF m, p
<1>9. p \in 1 .. Len(comps)
  BY <1>4 DEF comp, BuiltFrom
<1>10. PICK cs \in Seq(Cves) : comps[p] = Built(cs, p) /\ \E n \in 1 .. Len(cs) : cs[n] = c
  BY <1>4 DEF comp, c, BuiltFrom
<1>11. PICK n \in 1 .. Len(cs) : cs[n] = c
  BY <1>10
<1>12. PICK j \in 1 .. Len(comps[p]) : EntryFrom(comps[p][j], c, p, k)
  <2>1. Kept(cs[n]) /\ k \in DOMAIN Record[cs[n]].matches /\ Taken(Record[cs[n]].matches[k], p)
    BY <1>2, <1>5, <1>11 DEF m
  <2>2. \E j \in 1 .. Len(Built(cs, p)) : EntryFrom(Built(cs, p)[j], cs[n], p, k)
    BY <1>4, <2>1, BuiltAre
  <2> QED BY <1>10, <1>11, <2>2
<1> DEFINE e == ReadAs(comps[p][j])
<1>13. PICK l \in DOMAIN f.lines :
        /\ f.lines[l].kind = "name" /\ ComponentAt(f, l).name = PRODUCTS[p]
        /\ e \in ComponentAt(f, l).cves
  <2>1. IsDataset(comps)
    BY DEF IsBuilt
  <2> QED BY <1>9, <2>1, AllEntries
<1>14. /\ e.id = c /\ e.affected = Condition(m) /\ e.severity = best_severity(Record[c])
       /\ e.description = c
  BY <1>12 DEF EntryFrom, ReadAs, m
<1>15. Complete(e)
  <2>1. c # None /\ Condition(m) # None
    BY <1>1, <1>8, SyncAssumption
  <2>2. best_severity(Record[c]) # None
    BY <1>2 DEF Kept
  <2> HIDE DEF e
  <2> QED BY <1>8, <1>14, <2>1, <2>2 DEF Complete
<1> HIDE DEF e
<1> DEFINE C == ComponentAt(f, l)
<1>16. Doc(f).parses /\ C \in Doc(f).components
  BY <1>13 DEF Doc
<1>17. C.name # None /\ C.name = comp.component /\ e \in C.cves
  BY <1>4, <1>13, SyncAssumption
<1> HIDE DEF C
<1>18. Finding(e, comp) \in match_cve_entry(e, Components, C.name)
  BY <1>1, <1>7, <1>14, <1>15, <1>17 DEF match_cve_entry
<1>19. Finding(e, comp) \in match_component_entry(C, Components)
  BY <1>17, <1>18 DEF match_component_entry
<1>20. Finding(e, comp) \in crimp_cve_match_components(Doc(f), Components).findings
  BY <1>16, <1>19 DEF crimp_cve_match_components
<1>21. Finding(e, comp).id = c /\ Finding(e, comp).path = comp.path
  BY <1>14 DEF Finding
<1> QED BY <1>20, <1>21 DEF c, comp

-----------------------------------------------------------------------------
(* The run of the script: what it has put together, what it has written    *)
(* and what a scan reports.                                                *)

\* Every product fetched so far has its component, from a list that holds what
\* is owed to it.
IBuilds ==
    /\ IsDataset(components)
    /\ \A p \in 1 .. Len(components) : \E cs \in Seq(Cves) :
            /\ components[p] = Built(cs, p)
            /\ \A c : <<p, c>> \in owed => \E n \in 1 .. Len(cs) : cs[n] = c
    /\ \A p, c : <<p, c>> \in owed => p \in 1 .. Len(components)
    /\ pc \in {"request", "fetched"} => Len(components) = i - 1

\* lines have been written of L, todo is left.
Unwritten(lines, left, L) ==
    /\ lines \in Seq(LineType) /\ left \in Seq(LineType)
    /\ Len(lines) + Len(left) = Len(L)
    /\ \A x \in 1 .. Len(lines) : lines[x] = L[x]
    /\ \A x \in 1 .. Len(left) : left[x] = L[Len(lines) + x]

\* The file is the old one or begins as a data set does.
IFile ==
    /\ pc = "write" =>
        /\ file \in [lines : Seq(LineType), broken : {FALSE}]
        /\ Unwritten(file.lines, todo, DatasetLines(components))
    /\ pc = "done" => file.lines = DatasetLines(components) /\ ~file.broken
    /\ \/ file = OldFile /\ pc \notin {"write", "done", "killed"}
       \/ \E comps : IsBuilt(comps) /\ Begins(file.lines, DatasetLines(comps))

\* A report is that of the file as it is.
IReport ==
    report # NoReport =>
        ~Running /\ report = crimp_cve_match_components(Doc(file), Components)

\* The components of a run so far are built.
LEMMA BuildsAreBuilt == IBuilds => IsBuilt(components)
BY DEF IBuilds, IsBuilt

\* What has been written of a sequence is its beginning.
LEMMA WrittenBegins ==
    ASSUME NEW s, NEW t, NEW L, Unwritten(s, t, L)
    PROVE  Begins(s, L)
<1>1. Len(s) \in Nat /\ Len(t) \in Nat /\ DOMAIN s = 1 .. Len(s)
  BY LenProperties DEF Unwritten
<1>2. Len(s) <= Len(L)
  BY <1>1 DEF Unwritten
<1> QED BY <1>1, <1>2 DEF Begins, Unwritten

\* One line more.
LEMMA WritesOne ==
    ASSUME NEW s, NEW t, NEW L, Unwritten(s, t, L), t # <<>>
    PROVE  Unwritten(Append(s, Head(t)), Tail(t), L)
<1> DEFINE a == Append(s, Head(t))
           b == Tail(t)
<1>1. s \in Seq(LineType) /\ t \in Seq(LineType) /\ Len(s) \in Nat /\ Len(t) \in Nat /\ Len(t) > 0
  BY EmptySeq, LenProperties DEF Unwritten
<1>2. Head(t) = t[1] /\ Head(t) \in LineType
  BY <1>1, HeadTailProperties
<1>3. /\ b \in Seq(LineType) /\ Len(b) = Len(t) - 1
      /\ \A x \in 1 .. Len(b) : b[x] = t[x + 1]
  BY <1>1, HeadTailProperties
<1>4. /\ a \in Seq(LineType) /\ Len(a) = Len(s) + 1
      /\ \A x \in 1 .. Len(s) : a[x] = s[x]
      /\ a[Len(s) + 1] = t[1]
  BY <1>1, <1>2, AppendProperties
<1> HIDE DEF a, b
<1>5. Len(a) + Len(b) = Len(L)
  <2>1. Len(s) + Len(t) = Len(L)
    BY DEF Unwritten
  <2>2. Len(a) + Len(b) = Len(s) + Len(t)
    BY <1>1, <1>3, <1>4
  <2> QED BY <2>1, <2>2
<1>6. ASSUME NEW x \in 1 .. Len(a) PROVE a[x] = L[x]
  <2>1. x \in 1 .. Len(s) \/ x = Len(s) + 1
    BY <1>1, <1>4
  <2>2. 1 \in 1 .. Len(t)
    BY <1>1
  <2> QED BY <1>4, <2>1, <2>2 DEF Unwritten
<1>7. ASSUME NEW x \in 1 .. Len(b) PROVE b[x] = L[Len(a) + x]
  <2>1. x + 1 \in 1 .. Len(t) /\ Len(s) + (x + 1) = Len(a) + x
    BY <1>1, <1>3, <1>4
  <2>2. t[x + 1] = L[Len(s) + (x + 1)]
    BY <2>1 DEF Unwritten
  <2> QED BY <1>3, <2>1, <2>2
<1>8. Unwritten(a, b, L)
  BY <1>3, <1>4, <1>5, <1>6, <1>7 DEF Unwritten
<1> QED BY <1>8 DEF a, b

\* When nothing is left, everything is there.
LEMMA WritesAll ==
    ASSUME NEW s, NEW L \in Seq(LineType), Unwritten(s, <<>>, L)
    PROVE  s = L
<1>1. s \in Seq(LineType) /\ Len(s) \in Nat /\ Len(L) \in Nat /\ Len(<<>>) = 0
  BY LenProperties DEF Unwritten
<1>2. Len(s) = Len(L)
  BY <1>1 DEF Unwritten
<1>3. \A x \in 1 .. Len(s) : s[x] = L[x]
  BY DEF Unwritten
<1> QED BY <1>1, <1>2, <1>3, SeqEqual

\* The components are built in the order of the products, each from what was
\* fetched.
LEMMA BuildsStep == IType /\ IPaging /\ IBuilds /\ [Next]_vars => IBuilds'
<1> SUFFICES ASSUME IType, IPaging, IBuilds, [Next]_vars PROVE IBuilds'
  OBVIOUS
<1>1. CASE StartSync
  <2>1. components' = <<>> /\ owed' = {} /\ i' = 1
    BY <1>1 DEF StartSync, StartFetch
  <2>2. IsDataset(<<>>) /\ Len(<<>>) = 0
    <3>1. <<>> \in Seq(Seq(Entry)) /\ Len(<<>>) = 0
      OBVIOUS
    <3> QED BY <3>1, SyncAssumption DEF IsDataset
  <2> QED BY <2>1, <2>2 DEF IBuilds
<1>2. CASE ProductDone
  <2> DEFINE b == Built(out, i)
             l == Len(components)
  <2>1. /\ pc = "fetched" /\ components' = Append(components, b)
        /\ owed' = owed \cup {<<i, c>> : c \in IF removed THEN {} ELSE throughout}
        /\ pc' \in {"request", "open"} /\ (pc' = "request" => i' = i + 1)
    BY <1>2 DEF ProductDone, StartFetch
  <2>2. i \in Product /\ out \in Seq(Cves) /\ i \in Nat /\ Len(PRODUCTS) \in Nat /\ i <= Len(PRODUCTS)
    BY SyncAssumption DEF IType, TypeOK, Product
  <2>3. b \in Seq(Entry)
    BY <2>2, BuiltAre
  <2>4. /\ l = i - 1 /\ components \in Seq(Seq(Entry)) /\ l \in Nat
    BY <2>1, LenProperties DEF IBuilds, IsDataset
  <2>5. /\ components' \in Seq(Seq(Entry)) /\ Len(components') = i
        /\ \A p \in 1 .. l : components'[p] = components[p]
        /\ components'[i] = b
    <3> HIDE DEF b, l
    <3>1. /\ Append(components, b) \in Seq(Seq(Entry)) /\ Len(Append(components, b)) = l + 1
          /\ \A p \in 1 .. l : Append(components, b)[p] = components[p]
          /\ Append(components, b)[l + 1] = b
      BY <2>3, <2>4, AppendProperties DEF l
    <3>2. l + 1 = i
      BY <2>2, <2>4
    <3> QED BY <2>1, <3>1, <3>2
  <2>6. IsDataset(components')
    BY <2>2, <2>5 DEF IsDataset
  <2>7. \A p \in 1 .. i : p \in 1 .. l \/ p = i
    BY <2>2, <2>4
  <2>8. /\ ~(i \in 1 .. l) /\ i \in 1 .. i /\ \A p \in 1 .. l : p \in 1 .. i
    BY <2>2, <2>4
  <2> HIDE DEF b, l
  <2>9. \A c : <<i, c>> \notin owed
    BY <2>8 DEF IBuilds, l
  <2>10. \A p, c : <<p, c>> \in owed' => <<p, c>> \in owed \/ (p = i /\ ~removed /\ c \in throughout)
    BY <2>1
  <2>11. ASSUME NEW p \in 1 .. Len(components')
         PROVE  \E cs \in Seq(Cves) :
                    /\ components'[p] = Built(cs, p)
                    /\ \A c : <<p, c>> \in owed' => \E n \in 1 .. Len(cs) : cs[n] = c
    <3>1. CASE p = i
      <4>1. \A c : <<i, c>> \in owed' => \E n \in 1 .. Len(out) : out[n] = c
        <5> SUFFICES ASSUME NEW c, <<i, c>> \in owed' PROVE \E n \in 1 .. Len(out) : out[n] = c
          OBVIOUS
        <5>1. ~removed /\ c \in throughout
          BY <2>9, <2>10
        <5>2. Fetched(c)
          BY <2>1, <5>1 DEF IPaging
        <5> QED BY <5>2 DEF Fetched
      <4> QED BY <2>2, <2>5, <3>1, <4>1 DEF b
    <3>2. CASE p # i
      <4>1. p \in 1 .. l /\ components'[p] = components[p]
        BY <2>5, <2>7, <3>2
      <4>2. \A c : <<p, c>> \in owed' => <<p, c>> \in owed
        BY <2>10, <3>2
      <4>3. PICK cs \in Seq(Cves) :
                /\ components[p] = Built(cs, p)
                /\ \A c : <<p, c>> \in owed => \E n \in 1 .. Len(cs) : cs[n] = c
        BY <4>1 DEF IBuilds, l
      <4> QED BY <4>1, <4>2, <4>3
    <3> QED BY <3>1, <3>2
  <2>12. \A p, c : <<p, c>> \in owed' => p \in 1 .. Len(components')
    BY <2>5, <2>8, <2>10 DEF IBuilds, l
  <2>13. pc' \in {"request", "fetched"} => Len(components') = i' - 1
    BY <2>1, <2>2, <2>5
  <2> QED BY <2>6, <2>11, <2>12, <2>13 DEF IBuilds
<1>3. CASE /\ UNCHANGED <<components, owed, i>>
           /\ pc' \in {"request", "fetched"} => pc \in {"request", "fetched"}
  BY <1>3 DEF IBuilds
<1>4. CASE Reply \/ RequestFails \/ OpenFile \/ WriteLine \/ WriteDone \/ Die \/ DieWriting
  <2>1. UNCHANGED <<components, owed, i>>
    BY <1>4 DEF Reply, RequestFails, OpenFile, WriteLine, WriteDone, Die, DieWriting, ghosts
  <2>2. pc' \in {"request", "fetched"} => pc \in {"request", "fetched"}
    BY <1>4 DEF Reply, RequestFails, OpenFile, WriteLine, WriteDone, Die, DieWriting
  <2> QED BY <1>3, <2>1, <2>2
<1>5. CASE \E p \in Product :
                \/ \E c \in Cves, k \in 1 .. Len(server[p]) + 1 : Publish(p, c, k)
                \/ \E k \in DOMAIN server[p] : Withdraw(p, k)
  <2>1. UNCHANGED <<components, owed, i, pc>>
    BY <1>5 DEF Publish, Withdraw, script, ghosts
  <2> QED BY <1>3, <2>1
<1>6. CASE Scan \/ UNCHANGED vars
  <2>1. UNCHANGED <<components, owed, i, pc>>
    BY <1>6 DEF Scan, vars, script, ghosts
  <2> QED BY <1>3, <2>1
<1> QED BY <1>1, <1>2, <1>4, <1>5, <1>6 DEF Next, ScriptStep

\* The file is written line by line, and only that.
LEMMA FileStep == IBuilds /\ IFile /\ [Next]_vars => IFile'
<1> SUFFICES ASSUME IBuilds, IFile, [Next]_vars PROVE IFile'
  OBVIOUS
<1> DEFINE L == DatasetLines(components)
<1>1. IsBuilt(components)
  BY BuildsAreBuilt
<1>2. L \in Seq(LineType)
  BY <1>1, DatasetLinesAre DEF IsBuilt, IsLayout
<1> HIDE DEF L
<1>3. CASE file' = file /\ pc' \notin {"write", "done", "killed"}
  BY <1>3 DEF IFile
<1>4. CASE StartSync \/ Reply \/ RequestFails \/ ProductDone \/ Die
  <2>1. file' = file /\ pc' \notin {"write", "done", "killed"}
    BY <1>4 DEF StartSync, StartFetch, Reply, RequestFails, ProductDone, Die
  <2> QED BY <1>3, <2>1
<1>5. CASE OpenFile
  <2>1. /\ file' = [lines |-> <<>>, broken |-> FALSE] /\ todo' = L
        /\ pc' = "write" /\ components' = components
    BY <1>5 DEF OpenFile, L
  <2>2. <<>> \in Seq(LineType) /\ Len(<<>>) = 0
    OBVIOUS
  <2>3. Unwritten(<<>>, L, L)
    <3>1. Len(L) \in Nat
      BY <1>2, LenProperties
    <3>2. \A x \in 1 .. Len(L) : 0 + x = x
      OBVIOUS
    <3> QED BY <1>2, <2>2, <3>1, <3>2 DEF Unwritten
  <2>4. Begins(<<>>, L)
    BY <2>3, WrittenBegins
  <2>5. file'.lines = <<>> /\ file' \in [lines : Seq(LineType), broken : {FALSE}]
    BY <2>1, <2>2
  <2> QED BY <1>1, <2>1, <2>3, <2>4, <2>5 DEF IFile, L
<1>6. CASE WriteLine
  <2> DEFINE s == file.lines
  <2>1. /\ pc = "write" /\ todo # <<>> /\ UNCHANGED <<pc, components>>
        /\ file' = [file EXCEPT !.lines = Append(@, Head(todo))] /\ todo' = Tail(todo)
    BY <1>6 DEF WriteLine
  <2>2. file \in [lines : Seq(LineType), broken : {FALSE}] /\ Unwritten(s, todo, L)
    BY <2>1 DEF IFile, L
  <2>3. /\ file'.lines = Append(s, Head(todo))
        /\ file' = [lines |-> Append(s, Head(todo)), broken |-> FALSE]
    BY <2>1, <2>2
  <2>4. Unwritten(file'.lines, todo', L)
    BY <2>1, <2>2, <2>3, WritesOne
  <2>5. file'.lines \in Seq(LineType)
    BY <2>4 DEF Unwritten
  <2>6. file' \in [lines : Seq(LineType), broken : {FALSE}]
    BY <2>3, <2>5
  <2>7. Begins(file'.lines, L)
    BY <2>4, WrittenBegins
  <2> QED BY <1>1, <2>1, <2>4, <2>6, <2>7 DEF IFile, L
<1>7. CASE WriteDone
  <2>1. pc = "write" /\ todo = <<>> /\ pc' = "done" /\ UNCHANGED <<file, components>>
    BY <1>7 DEF WriteDone
  <2>2. file \in [lines : Seq(LineType), broken : {FALSE}] /\ Unwritten(file.lines, todo, L)
    BY <2>1 DEF IFile, L
  <2>3. file.lines = L
    BY <1>2, <2>1, <2>2, WritesAll
  <2>4. Begins(file.lines, L)
    BY <2>2, WrittenBegins
  <2> QED BY <1>1, <2>1, <2>2, <2>3, <2>4 DEF IFile, L
<1>8. CASE DieWriting
  <2>1. PICK b : pc = "write" /\ pc' = "killed" /\ file' = [file EXCEPT !.broken = b]
    BY <1>8 DEF DieWriting
  <2>2. file \in [lines : Seq(LineType), broken : {FALSE}] /\ Unwritten(file.lines, todo, L)
    BY <2>1 DEF IFile, L
  <2>3. file'.lines = file.lines
    BY <2>1, <2>2
  <2>4. Begins(file.lines, L)
    BY <2>2, WrittenBegins
  <2> QED BY <1>1, <2>1, <2>3, <2>4 DEF IFile, L
<1>9. CASE \E p \in Product :
                \/ \E c \in Cves, k \in 1 .. Len(server[p]) + 1 : Publish(p, c, k)
                \/ \E k \in DOMAIN server[p] : Withdraw(p, k)
  <2>1. UNCHANGED <<components, file, todo, pc>>
    BY <1>9 DEF Publish, Withdraw, script
  <2> QED BY <2>1 DEF IFile
<1>10. CASE Scan \/ UNCHANGED vars
  <2>1. UNCHANGED <<components, file, todo, pc>>
    BY <1>10 DEF Scan, vars, script
  <2> QED BY <2>1 DEF IFile
<1> QED BY <1>4, <1>5, <1>6, <1>7, <1>8, <1>9, <1>10 DEF Next, ScriptStep

\* The file does not change under a report.
LEMMA ReportStep == IReport /\ [Next]_vars => IReport'
<1> SUFFICES ASSUME IReport, [Next]_vars PROVE IReport'
  OBVIOUS
<1>1. CASE StartSync
  BY <1>1 DEF StartSync, IReport
<1>2. CASE ScriptStep
  <2>1. Running
    BY <1>2 DEF ScriptStep, Reply, RequestFails, ProductDone, OpenFile, WriteLine, WriteDone,
                Die, DieWriting, Running
  <2>2. report' = report
    BY <1>2 DEF ScriptStep, Reply, RequestFails, ProductDone, OpenFile, WriteLine, WriteDone,
                Die, DieWriting
  <2> QED BY <2>1, <2>2 DEF IReport, NoReport
<1>3. CASE \E p \in Product :
                \/ \E c \in Cves, k \in 1 .. Len(server[p]) + 1 : Publish(p, c, k)
                \/ \E k \in DOMAIN server[p] : Withdraw(p, k)
  <2>1. Running /\ report' = report
    BY <1>3 DEF Publish, Withdraw, Running
  <2> QED BY <2>1 DEF IReport, NoReport
<1>4. CASE Scan
  <2>1. ~Running /\ report' = crimp_cve_match_components(Doc(file), Components)
        /\ UNCHANGED <<pc, file>>
    BY <1>4 DEF Scan, script
  <2> QED BY <2>1 DEF IReport, Running
<1>5. CASE UNCHANGED vars
  BY <1>5 DEF vars, script, IReport, Running
<1> QED BY <1>1, <1>2, <1>3, <1>4, <1>5 DEF Next

\* The report follows from the file, and the file from what was fetched.
LEMMA ReportIsTrue == IBuilds /\ IFile /\ IReport => ReportFollowsServer
<1> SUFFICES ASSUME IBuilds, IFile, IReport PROVE ReportFollowsServer
  OBVIOUS
<1>1. ASSUME pc \in {"done", "killed"} \/ file # OldFile, NEW f \in report.findings
      PROVE  \E x \in Vulnerable(TRUE) :
                /\ f.id = x[1] /\ f.path = x[2].path
                /\ best_severity(Record[f.id]) \in Severities =>
                        f.severity = best_severity(Record[f.id])
  <2>1. report # NoReport
    BY <1>1 DEF NoReport
  <2>2. f \in crimp_cve_match_components(Doc(file), Components).findings
    BY <1>1, <2>1 DEF IReport
  <2>3. PICK comps : IsBuilt(comps) /\ Begins(file.lines, DatasetLines(comps))
    BY <1>1 DEF IFile
  <2> QED BY <2>2, <2>3, FoundIsTrue
<1>2. ASSUME pc = "done", report # NoReport, NEW x \in Vulnerable(FALSE),
             \A p \in Product : PRODUCTS[p] = x[2].component => <<p, x[1]>> \in owed
      PROVE  \E f \in report.findings : f.id = x[1] /\ f.path = x[2].path
  <2>1. report = crimp_cve_match_components(Doc(file), Components)
    BY <1>2 DEF IReport
  <2>2. file.lines = DatasetLines(components) /\ ~file.broken
    BY <1>2 DEF IFile
  <2>3. IsBuilt(components)
    BY BuildsAreBuilt
  <2>4. ASSUME NEW p \in Product, PRODUCTS[p] = x[2].component
        PROVE  /\ p \in 1 .. Len(components)
               /\ \E cs \in Seq(Cves) : /\ components[p] = Built(cs, p)
                                        /\ \E n \in 1 .. Len(cs) : cs[n] = x[1]
    <3>1. <<p, x[1]>> \in owed
      BY <1>2, <2>4
    <3>2. p \in 1 .. Len(components)
      BY <3>1 DEF IBuilds
    <3>3. PICK cs \in Seq(Cves) :
            /\ components[p] = Built(cs, p)
            /\ \A c : <<p, c>> \in owed => \E n \in 1 .. Len(cs) : cs[n] = c
      BY <3>2 DEF IBuilds
    <3> QED BY <3>1, <3>2, <3>3
  <2>5. BuiltFrom(components, x)
    BY <2>4 DEF BuiltFrom
  <2>6. \E g \in crimp_cve_match_components(Doc(file), Components).findings :
            g.id = x[1] /\ g.path = x[2].path
    BY <2>2, <2>3, <2>5, AllAreFound
  <2> QED BY <2>1, <2>6
<1> QED BY <1>1, <1>2 DEF ReportFollowsServer

\* What crimp reports is what the records say, through the file and whatever a
\* killed script has left in it, for every page size, every server, every
\* record and every set of components (build_dataset and write_yaml in
\* sync_cve_dataset.py, crimp_cve_match_components in cve_match.c).
THEOREM ReportFollowsServerHolds == Spec => []ReportFollowsServer
<1>1. Init => IPaging /\ IBuilds /\ IFile /\ IReport
  <2> SUFFICES ASSUME Init PROVE IPaging /\ IBuilds /\ IFile /\ IReport
    OBVIOUS
  <2>1. IPaging /\ IFile /\ IReport
    BY DEF Init, IPaging, IFile, IReport
  <2>2. IsDataset(<<>>) /\ Len(<<>>) = 0
    <3>1. <<>> \in Seq(Seq(Entry)) /\ Len(<<>>) = 0
      OBVIOUS
    <3> QED BY <3>1, SyncAssumption DEF IsDataset
  <2>3. components = <<>> /\ owed = {} /\ pc = "idle"
    BY DEF Init
  <2> QED BY <2>1, <2>2, <2>3 DEF IBuilds
<1> QED BY <1>1, InitTyped, NextTyped, PagingStep, BuildsStep, FileStep, ReportStep, ReportIsTrue,
           PTL DEF Spec
=============================================================================

--------------------------- MODULE Jffs2ScanProofs ---------------------------
(***************************************************************************)
(* The log scan of jffs2, for every image and every chunk size: what it    *)
(* records can be read again, no node is taken from inside another, and    *)
(* none of the log is missed.                                              *)
(***************************************************************************)
EXTENDS Jffs2Scan, WellFoundedInduction, TLAPS

\* Align gives a multiple of 4 at or behind its argument.
LEMMA AlignBounds ==
    \A x \in Nat : Align(x) \in Nat /\ Align(x) >= x /\ Align(x) % 4 = 0
  BY DEF Align

\* What stands at a magic number is a well-typed node.
LEMMA NodeTyped ==
    ASSUME TypeOK, NEW x, IsNode(x)
    PROVE  x \in Nat /\ NodeOK(im.node[x]) /\ Fixed(im.node[x]) \in Nat
<1>1. x \in Nat /\ NodeOK(im.node[x])
  BY DEF TypeOK, ImageOK, IsNode
<1> QED BY <1>1 DEF Fixed, NodeOK, DIRENT_FIXED_SIZE, INODE_FIXED_SIZE

\* A node that is accepted ends in the image, with its payload inside it.
LEMMA AcceptedNode ==
    ASSUME TypeOK, IsNode(pos), NodeAccepted(im.node[pos])
    PROVE  /\ im.node[pos].totlen \in Nat
           /\ pos + im.node[pos].totlen <= im.len
           /\ im.node[pos].type # "other" =>
                PayloadEnd(pos) <= pos + im.node[pos].totlen
<1> DEFINE n == im.node[pos]
<1>1. n.totlen \in Nat /\ n.payload \in Nat /\ Fixed(n) \in Nat /\ pos \in Nat
  BY NodeTyped DEF NodeOK
<1>2. n.type # "other" => n.payload <= n.totlen - HEADER_SIZE - Fixed(n)
  BY DEF NodeAccepted
<1>3. n.type # "other" => pos + HEADER_SIZE + Fixed(n) + n.payload <= pos + n.totlen
  BY <1>1, <1>2 DEF HEADER_SIZE
<1> QED BY <1>1, <1>3 DEF NodeAccepted, PayloadEnd

-----------------------------------------------------------------------------
\* Every step keeps the types.
LEMMA TypeStep == TypeOK /\ [Next]_vars => TypeOK'
<1> SUFFICES ASSUME TypeOK, [Next]_vars PROVE TypeOK'
  OBVIOUS
<1>1. CASE ReadNode
  <2> DEFINE next == pos + im.node[pos].totlen
  <2>1. pos \in Nat /\ next \in Nat
    BY <1>1, NodeTyped DEF ReadNode, NodeOK
  <2> HIDE DEF next
  <2>2. Align(next) \in Nat /\ Align(next) % 4 = 0
    BY <2>1, AlignBounds
  <2>3. pos' = Align(next)
    BY <1>1 DEF ReadNode, next
  <2>4. found' \in Seq(Nat)
    BY <1>1, <2>1 DEF ReadNode, TypeOK
  <2> QED BY <1>1, <2>2, <2>3, <2>4 DEF ReadNode, TypeOK
<1>2. CASE \E x \in DOMAIN im.node : FoundNode(x)
  <2>1. PICK x \in DOMAIN im.node : FoundNode(x)
    BY <1>2
  <2>2. PICK i \in Int : i % 4 = 0 /\ x = pos + i /\ i >= 0
    BY <2>1 DEF FoundNode, Candidates
  <2>3. x \in Nat /\ x % 4 = 0
    BY <2>2 DEF TypeOK
  <2> QED BY <2>1, <2>3 DEF FoundNode, TypeOK
<1>3. CASE NextChunk
  <2>1. im.len \in Nat /\ pos \in Nat /\ pos % 4 = 0
    BY DEF TypeOK, ImageOK
  <2>2. Got \in Nat
    BY <1>3, <2>1, Jffs2ScanAssumption DEF Got, NextChunk
  <2>3. \A g \in Nat : pos + (g \div 4) * 4 \in Nat /\ (pos + (g \div 4) * 4) % 4 = 0
    BY <2>1
  <2>4. pos' = pos \/ pos' = pos + (Got \div 4) * 4
    BY <1>3 DEF NextChunk
  <2>5. pos' \in Nat /\ pos' % 4 = 0
    BY <2>1, <2>2, <2>3, <2>4
  <2>6. im' = im /\ rc' = rc /\ found' = found /\ pc' \in {"gap", "done"}
    BY <1>3 DEF NextChunk
  <2> QED BY <2>5, <2>6 DEF TypeOK
<1>4. CASE RejectNode \/ EnterGap \/ EndOfLog \/ NoMoreNodes
  BY <1>4 DEF RejectNode, EnterGap, EndOfLog, NoMoreNodes, TypeOK
<1>5. CASE Returned \/ UNCHANGED vars
  BY <1>5 DEF Returned, vars, TypeOK
<1> QED BY <1>1, <1>2, <1>3, <1>4, <1>5 DEF Next, scan_log, find_next_node

\* The cursor only ever stands on a 4-byte boundary, in scan_log and in
\* find_next_node.
THEOREM TypeCorrect == Spec => []TypeOK
<1>1. Init => TypeOK
  BY Jffs2ScanAssumption DEF Init, TypeOK
<1> QED BY <1>1, TypeStep, PTL DEF Spec

-----------------------------------------------------------------------------
\* Every step keeps each recorded payload inside its node.
LEMMA ReadableStep ==
    ASSUME TypeOK, TypeOK', PayloadsReadable, [Next]_vars
    PROVE  PayloadsReadable'
<1>1. CASE ReadNode /\ im.node[pos].type # "other"
  <2>1. found \in Seq(Nat) /\ pos \in Nat
    BY DEF TypeOK
  <2>2. im' = im /\ found' = Append(found, pos) /\ IsNode(pos)
    BY <1>1 DEF ReadNode
  <2>3. /\ PayloadEnd(pos) <= pos + im.node[pos].totlen
        /\ pos + im.node[pos].totlen <= im.len
    BY <1>1, AcceptedNode DEF ReadNode
  <2>4. ASSUME NEW i \in 1 .. Len(found')
        PROVE  /\ IsNode(found'[i])
               /\ PayloadEnd(found'[i]) <= found'[i] + im.node[found'[i]].totlen
               /\ found'[i] + im.node[found'[i]].totlen <= im.len
    <3>1. CASE i <= Len(found)
      <4>1. i \in 1 .. Len(found) /\ found'[i] = found[i]
        BY <2>1, <2>2, <3>1
      <4> QED BY <4>1 DEF PayloadsReadable
    <3>2. CASE i = Len(found) + 1
      <4>1. found'[i] = pos
        BY <2>1, <2>2, <3>2
      <4> QED BY <2>2, <2>3, <4>1
    <3> QED BY <2>1, <2>2, <3>1, <3>2
  <2> QED BY <2>2, <2>4 DEF PayloadsReadable, IsNode, PayloadEnd
<1>2. CASE found' = found /\ im' = im
  BY <1>2 DEF PayloadsReadable, IsNode, PayloadEnd
<1>3. CASE ReadNode /\ im.node[pos].type = "other"
  BY <1>2, <1>3 DEF ReadNode
<1>4. CASE \/ RejectNode \/ EnterGap \/ EndOfLog \/ NextChunk \/ NoMoreNodes
           \/ (\E x \in DOMAIN im.node : FoundNode(x))
           \/ Returned \/ UNCHANGED vars
  BY <1>2, <1>4
  DEF RejectNode, EnterGap, EndOfLog, NextChunk, NoMoreNodes, FoundNode, Returned, vars
<1> QED BY <1>1, <1>3, <1>4 DEF Next, scan_log, find_next_node

\* Every recorded name and fragment lies in its node, and its node in the
\* image, whatever lengths the image declares.
THEOREM PayloadsReadableHolds == Spec => []PayloadsReadable
<1>1. Init => PayloadsReadable
  BY DEF Init, PayloadsReadable
<1>2. TypeOK /\ TypeOK' /\ PayloadsReadable /\ [Next]_vars => PayloadsReadable'
  BY ReadableStep
<1> QED BY <1>1, <1>2, TypeCorrect, PTL DEF Spec

-----------------------------------------------------------------------------
\* The cursor never goes back.
LEMMA CursorAdvances ==
    ASSUME TypeOK, [Next]_vars
    PROVE  pos' >= pos
<1>1. pos \in Nat /\ im.len \in Nat
  BY DEF TypeOK, ImageOK
<1>2. CASE ReadNode
  <2> DEFINE next == pos + im.node[pos].totlen
  <2>1. next \in Nat /\ next >= pos
    BY <1>1, <1>2, NodeTyped DEF ReadNode, NodeOK
  <2> HIDE DEF next
  <2>2. Align(next) \in Nat /\ Align(next) >= next
    BY <2>1, AlignBounds
  <2>3. pos' = Align(next)
    BY <1>2 DEF ReadNode, next
  <2> QED BY <1>1, <2>1, <2>2, <2>3
<1>3. CASE \E x \in DOMAIN im.node : FoundNode(x)
  BY <1>1, <1>3 DEF FoundNode, Candidates
<1>4. CASE NextChunk
  <2>1. Got \in Nat
    BY <1>1, <1>4, Jffs2ScanAssumption DEF Got, NextChunk
  <2>2. \A g \in Nat : pos + (g \div 4) * 4 >= pos
    BY <1>1
  <2>3. pos' = pos \/ pos' = pos + (Got \div 4) * 4
    BY <1>4 DEF NextChunk
  <2> QED BY <1>1, <2>1, <2>2, <2>3
<1>5. CASE \/ RejectNode \/ EnterGap \/ EndOfLog \/ NoMoreNodes
           \/ Returned \/ UNCHANGED vars
  BY <1>1, <1>5 DEF RejectNode, EnterGap, EndOfLog, NoMoreNodes, Returned, vars
<1> QED BY <1>2, <1>3, <1>4, <1>5 DEF Next, scan_log, find_next_node

\* Every step keeps the recorded nodes apart, and the cursor behind them.
LEMMA ApartStep ==
    ASSUME TypeOK, TypeOK', PayloadsReadable, NodesApart, [Next]_vars
    PROVE  NodesApart'
<1>1. /\ pos \in Nat /\ pos' \in Nat /\ found \in Seq(Nat)
      /\ \A i \in 1 .. Len(found) : im.node[found[i]].totlen \in Nat
  BY NodeTyped DEF TypeOK, PayloadsReadable, NodeOK
<1>2. pos' >= pos
  BY CursorAdvances
<1>3. CASE found' = found /\ im' = im
  <2>1. ASSUME NEW i \in 1 .. Len(found)
        PROVE  found[i] + im.node[found[i]].totlen <= pos'
    <3>1. found[i] \in Nat /\ found[i] + im.node[found[i]].totlen <= pos
      BY <1>1 DEF NodesApart
    <3> QED BY <1>1, <1>2, <3>1
  <2> QED BY <1>3, <2>1 DEF NodesApart
<1>4. CASE ReadNode /\ im.node[pos].type # "other"
  <2>1. im' = im /\ found' = Append(found, pos)
    BY <1>4 DEF ReadNode
  <2>2. im.node[pos].totlen \in Nat
    BY <1>4, NodeTyped DEF ReadNode, NodeOK
  <2> DEFINE next == pos + im.node[pos].totlen
  <2>3. next \in Nat /\ next >= pos
    BY <1>1, <2>2
  <2>4. next <= pos'
    <3> HIDE DEF next
    <3>1. pos' = Align(next)
      BY <1>4 DEF ReadNode, next
    <3> QED BY <2>3, <3>1, AlignBounds
  <2>5. ASSUME NEW i \in 1 .. Len(found')
        PROVE  found'[i] + im.node[found'[i]].totlen <= pos'
    <3>1. CASE i <= Len(found)
      <4>1. i \in 1 .. Len(found) /\ found'[i] = found[i] /\ found[i] \in Nat
        BY <1>1, <2>1, <3>1
      <4>2. found[i] + im.node[found[i]].totlen <= pos
        BY <4>1 DEF NodesApart
      <4> QED BY <1>1, <1>2, <4>1, <4>2
    <3>2. CASE i = Len(found) + 1
      <4>1. found'[i] = pos
        BY <1>1, <2>1, <3>2
      <4> QED BY <2>4, <4>1
    <3> QED BY <1>1, <2>1, <3>1, <3>2
  <2>6. ASSUME NEW i \in 1 .. Len(found'), NEW j \in 1 .. Len(found'), i < j
        PROVE  found'[i] + im.node[found'[i]].totlen <= found'[j]
    <3>1. i \in 1 .. Len(found) /\ found'[i] = found[i]
      BY <1>1, <2>1, <2>6
    <3>2. CASE j <= Len(found)
      <4>1. j \in 1 .. Len(found) /\ found'[j] = found[j]
        BY <1>1, <2>1, <3>2
      <4> QED BY <2>6, <3>1, <4>1 DEF NodesApart
    <3>3. CASE j = Len(found) + 1
      <4>1. found'[j] = pos
        BY <1>1, <2>1, <3>3
      <4> QED BY <3>1, <4>1 DEF NodesApart
    <3> QED BY <1>1, <2>1, <3>2, <3>3
  <2> QED BY <2>1, <2>5, <2>6 DEF NodesApart
<1>5. CASE ReadNode /\ im.node[pos].type = "other"
  BY <1>3, <1>5 DEF ReadNode
<1>6. CASE \/ RejectNode \/ EnterGap \/ EndOfLog \/ NextChunk \/ NoMoreNodes
           \/ (\E x \in DOMAIN im.node : FoundNode(x))
           \/ Returned \/ UNCHANGED vars
  BY <1>3, <1>6
  DEF RejectNode, EnterGap, EndOfLog, NextChunk, NoMoreNodes, FoundNode, Returned, vars
<1> QED BY <1>4, <1>5, <1>6 DEF Next, scan_log, find_next_node

\* Magic numbers inside a name or inside file data are never taken for nodes.
THEOREM NodesApartHolds == Spec => []NodesApart
<1>1. Init => NodesApart
  BY DEF Init, NodesApart
<1>2. TypeOK /\ TypeOK' /\ PayloadsReadable /\ NodesApart /\ [Next]_vars => NodesApart'
  BY ApartStep
<1> QED BY <1>1, <1>2, TypeCorrect, PayloadsReadableHolds, PTL DEF Spec

\* What the scan hands to the walk is a sequence of whole nodes that do not
\* overlap, for every image and also when reads fail.
THEOREM NodesInLogHolds == Spec => []NodesInLog
<1>1. PayloadsReadable /\ NodesApart => NodesInLog
  BY DEF NodesInLog
<1> QED BY <1>1, PayloadsReadableHolds, NodesApartHolds, PTL

-----------------------------------------------------------------------------
(* The log.  It is defined by itself, the nodes before a header deciding   *)
(* whether it counts: that there is such a set is shown by the least       *)
(* offset up to which there were none.                                     *)

\* Every non-empty set of natural numbers has a least element.
LEMMA LeastNatural ==
    ASSUME NEW T, T \subseteq Nat, T # {}
    PROVE  \E x \in T : \A y \in T : x <= y
<1>1. IsWellFoundedOn(OpToRel(<, Nat), Nat)
  BY NatLessThanWellFounded
<1> DEFINE R == {ss \in Nat \X Nat : ss[1] < ss[2]}
<1>2. OpToRel(<, Nat) = R
  BY DEF OpToRel
<1>3. IsWellFoundedOn(R, Nat)
  BY <1>1, <1>2
<1>4. \A x, y \in Nat : x < y => <<x, y>> \in R
  OBVIOUS
<1> HIDE DEF R
<1>5. PICK x \in T : \A y \in T : ~ (<<y, x>> \in R)
  BY <1>3, WFMin
<1>6. ASSUME NEW y \in T PROVE x <= y
  <2>1. x \in Nat /\ y \in Nat
    OBVIOUS
  <2>2. ~ (y < x)
    BY <1>4, <1>5, <2>1
  <2> QED BY <2>1, <2>2
<1> QED BY <1>6

\* The log of what lies before offset m.
IsLogBelow(m, N) ==
    N = {x \in Headers : x < m /\ \A y \in N : y < x => NodeEnd(y) <= x}

\* One more offset: it is added unless a node before it covers it.
LEMMA LogBelowNext ==
    ASSUME TypeOK, NEW m \in Nat, NEW N, N \subseteq Headers, IsLogBelow(m, N)
    PROVE  \E M : M \subseteq Headers /\ IsLogBelow(m + 1, M)
<1>1. Headers \subseteq Nat
  BY DEF TypeOK, ImageOK, Headers
<1>2. \A x \in N : x < m
  BY DEF IsLogBelow
<1> DEFINE Counts(K, x) == \A y \in K : y < x => NodeEnd(y) <= x
           M == IF m \in Headers /\ Counts(N, m) THEN N \cup {m} ELSE N
<1>3. M \subseteq Headers
  OBVIOUS
<1>4. \A x \in Nat : x < m + 1 <=> x < m \/ x = m
  OBVIOUS
<1>5. ASSUME NEW x \in Headers, x < m + 1
      PROVE  Counts(M, x) <=> Counts(N, x)
  <2>1. x \in Nat /\ ~ (m < x)
    BY <1>1, <1>5
  <2> QED BY <2>1
<1>6. ASSUME NEW x
      PROVE  x \in M <=> x \in Headers /\ x < m + 1 /\ Counts(M, x)
  <2>1. CASE x \in Headers /\ x < m
    <3>1. x \in Nat /\ x < m + 1 /\ x # m
      BY <1>1, <1>4, <2>1
    <3>2. x \in N <=> Counts(N, x)
      BY <2>1 DEF IsLogBelow
    <3>3. x \in M <=> x \in N
      BY <3>1
    <3>4. Counts(M, x) <=> Counts(N, x)
      BY <1>5, <2>1, <3>1
    <3> HIDE DEF M, Counts
    <3> QED BY <2>1, <3>1, <3>2, <3>3, <3>4
  <2>2. CASE x = m /\ x \in Headers
    <3>1. x \in Nat /\ x < m + 1 /\ x \notin N
      BY <1>1, <1>2, <1>4, <2>2
    <3>2. x \in M <=> Counts(N, x)
      BY <2>2, <3>1
    <3>3. Counts(M, x) <=> Counts(N, x)
      BY <1>5, <2>2, <3>1
    <3> HIDE DEF M, Counts
    <3> QED BY <2>2, <3>1, <3>2, <3>3
  <2>3. CASE x \notin Headers
    BY <1>3, <2>3
  <2>4. CASE x \in Headers /\ ~ (x < m) /\ x # m
    <3>1. x \in Nat /\ ~ (x < m + 1) /\ x \notin N
      BY <1>1, <1>2, <1>4, <2>4
    <3> QED BY <2>4, <3>1
  <2> QED BY <2>1, <2>2, <2>3, <2>4
<1> HIDE DEF M
<1>7. IsLogBelow(m + 1, M)
  BY <1>6 DEF IsLogBelow
<1> QED BY <1>3, <1>7

\* Every image has a log, and LogNodes is one.
LEMMA LogExists ==
    ASSUME TypeOK
    PROVE  LogNodes \subseteq Headers /\ IsLog(LogNodes)
<1> DEFINE T == {m \in Nat : ~ \E N : N \subseteq Headers /\ IsLogBelow(m, N)}
<1>1. T \subseteq Nat
  OBVIOUS
<1>2. Headers \subseteq Nat
  BY DEF TypeOK, ImageOK, Headers
<1>3. ASSUME T # {} PROVE FALSE
  <2>1. PICK m \in T : \A k \in T : m <= k
    <3> HIDE DEF T
    <3> QED BY <1>1, <1>3, LeastNatural
  <2>2. m # 0
    <3>1. \A x \in Headers : ~ (x < 0)
      BY <1>2
    <3>2. IsLogBelow(0, {})
      BY <3>1 DEF IsLogBelow
    <3> QED BY <2>1, <3>2
  <2>3. m - 1 \in Nat /\ ~ (m <= m - 1) /\ (m - 1) + 1 = m
    BY <2>1, <2>2
  <2>4. m - 1 \notin T
    BY <2>1, <2>3
  <2>5. PICK N : N \subseteq Headers /\ IsLogBelow(m - 1, N)
    BY <2>3, <2>4
  <2>6. \E M : M \subseteq Headers /\ IsLogBelow((m - 1) + 1, M)
    BY <2>3, <2>5, LogBelowNext
  <2> QED BY <2>1, <2>3, <2>6
<1>4. im.len \in Nat /\ im.len \notin T
  BY <1>3 DEF TypeOK, ImageOK
<1>5. PICK N : N \subseteq Headers /\ IsLogBelow(im.len, N)
  BY <1>4
<1>6. \A x \in Headers : x < im.len
  BY <1>2, <1>4 DEF Headers, HEADER_SIZE
<1>7. IsLog(N)
  BY <1>5, <1>6 DEF IsLog, IsLogBelow
<1>8. \E K \in SUBSET Headers : IsLog(K)
  BY <1>5, <1>7
<1>9. LogNodes \in SUBSET Headers /\ IsLog(LogNodes)
  BY <1>8 DEF LogNodes
<1> QED BY <1>9

\* What the steps need to know of the log.
LEMMA LogFacts ==
    ASSUME TypeOK
    PROVE  /\ \A x \in LogNodes :
                /\ x \in Headers /\ x \in Nat /\ IsNode(x) /\ x % 4 = 0
                /\ x + HEADER_SIZE <= im.len
                /\ im.node[x].totlen \in Nat /\ NodeEnd(x) \in Nat
                /\ \A y \in LogNodes : y < x => NodeEnd(y) <= x
           /\ \A x \in Headers :
                (\A y \in LogNodes : y < x => NodeEnd(y) <= x) => x \in LogNodes
<1>1. LogNodes \subseteq Headers /\ IsLog(LogNodes)
  BY LogExists
<1>2. \A x \in LogNodes : \A y \in LogNodes : y < x => NodeEnd(y) <= x
  BY <1>1 DEF IsLog
<1>3. \A x \in Headers :
        (\A y \in LogNodes : y < x => NodeEnd(y) <= x) => x \in LogNodes
  BY <1>1 DEF IsLog
<1>4. ASSUME NEW x \in LogNodes
      PROVE  /\ x \in Headers /\ x \in Nat /\ IsNode(x) /\ x % 4 = 0
             /\ x + HEADER_SIZE <= im.len
             /\ im.node[x].totlen \in Nat /\ NodeEnd(x) \in Nat
  <2>1. x \in Headers /\ IsNode(x) /\ x % 4 = 0 /\ x + HEADER_SIZE <= im.len
    BY <1>1 DEF Headers, IsNode
  <2>2. x \in Nat /\ im.node[x].totlen \in Nat
    BY <2>1, NodeTyped DEF NodeOK
  <2>3. x + im.node[x].totlen \in Nat
    BY <2>2
  <2>4. NodeEnd(x) \in Nat
    BY <2>3, AlignBounds DEF NodeEnd
  <2> QED BY <2>1, <2>2, <2>4
<1> QED BY <1>2, <1>3, <1>4

\* Inductive: the nodes of the log before the cursor are behind it as a whole,
\* well-formed, and those that count have been collected.
LogInv ==
    /\ FoundInOrder
    /\ \A i \in 1 .. Len(found) : found[i] < pos
    /\ \A x \in LogNodes : x < pos => WellFormed(x) /\ NodeEnd(x) <= pos
    /\ pc # "done" => rc = 0
    /\ pc = "done" /\ ~IOFaults =>
         \/ rc = 0 /\ \A x \in LogNodes : x < pos
         \/ rc = -1 /\ \E x \in LogNodes : ~WellFormed(x)

\* A header at which the cursor stands begins a node of the log.
LEMMA CursorInLog ==
    ASSUME TypeOK, LogInv, MoreLog, IsNode(pos)
    PROVE  pos \in LogNodes /\ (WellFormed(pos) <=> NodeAccepted(im.node[pos]))
<1>1. pos \in Headers
  BY DEF TypeOK, MoreLog, IsNode, Headers
<1>2. pos \in LogNodes
  BY <1>1, LogFacts DEF LogInv
<1> DEFINE n == im.node[pos]
<1>3. pos \in Nat /\ n.totlen \in Nat /\ n.payload \in Nat /\ Fixed(n) \in Nat
  BY NodeTyped DEF NodeOK
<1>4. PayloadEnd(pos) <= pos + n.totlen
        <=> /\ n.totlen >= HEADER_SIZE + Fixed(n)
            /\ n.payload <= n.totlen - HEADER_SIZE - Fixed(n)
  BY <1>3 DEF PayloadEnd, HEADER_SIZE
<1>5. WellFormed(pos) <=> NodeAccepted(im.node[pos])
  BY <1>4 DEF WellFormed, NodeAccepted
<1> QED BY <1>2, <1>5

\* Where the cursor jumps over no header, nothing of the log is lost.
LEMMA JumpKeepsLog ==
    ASSUME TypeOK, LogInv, NEW p \in Nat, pos <= p,
           \A x \in LogNodes : pos <= x => p <= x
    PROVE  /\ \A i \in 1 .. Len(found) : found[i] < p
           /\ \A x \in LogNodes : x < p <=> x < pos
           /\ \A x \in LogNodes : x < p => WellFormed(x) /\ NodeEnd(x) <= p
<1>1. pos \in Nat /\ found \in Seq(Nat)
  BY DEF TypeOK
<1>2. ASSUME NEW i \in 1 .. Len(found)
      PROVE  found[i] < p
  <2>1. found[i] \in Nat /\ found[i] < pos
    BY <1>1 DEF LogInv
  <2> QED BY <1>1, <2>1
<1>3. ASSUME NEW x \in LogNodes
      PROVE  /\ x < p <=> x < pos
             /\ x < p => WellFormed(x) /\ NodeEnd(x) <= p
  <2>1. x \in Nat /\ NodeEnd(x) \in Nat
    BY LogFacts
  <2>2. x < p <=> x < pos
    BY <1>1, <2>1
  <2>3. x < pos => WellFormed(x) /\ NodeEnd(x) <= pos
    BY DEF LogInv
  <2> QED BY <1>1, <2>1, <2>2, <2>3
<1> QED BY <1>2, <1>3

\* The image does not change, and with it the log.
LEMMA SameLog ==
    ASSUME im' = im
    PROVE  /\ LogNodes' = LogNodes /\ Headers' = Headers
           /\ \A x : /\ WellFormed(x)' <=> WellFormed(x)
                     /\ NodeEnd(x)' = NodeEnd(x)
<1>1. Headers' = Headers /\ \A x : NodeEnd(x)' = NodeEnd(x)
  BY DEF Headers, NodeEnd
<1>2. \A x : WellFormed(x)' <=> WellFormed(x)
  BY DEF WellFormed, PayloadEnd
<1>3. LogNodes' = LogNodes
  BY DEF LogNodes, IsLog, Headers, NodeEnd
<1> QED BY <1>1, <1>2, <1>3

\* In a gap: the aligned headers of a chunk are its candidates.
LEMMA HeadersAreCandidates ==
    ASSUME TypeOK, NEW x \in LogNodes, pos <= x, x + 2 <= pos + Got
    PROVE  x \in Candidates /\ IsNode(x)
<1>1. x \in Nat /\ IsNode(x) /\ x % 4 = 0 /\ pos \in Nat /\ pos % 4 = 0
  BY LogFacts DEF TypeOK
<1>2. Got \in Int
  BY Jffs2ScanAssumption DEF TypeOK, ImageOK, Got
<1> DEFINE j == x - pos
<1>3. j \in 0 .. Got - 2 /\ x = pos + j
  BY <1>1, <1>2
<1>4. j % 4 = 0
  BY <1>1
<1> QED BY <1>1, <1>3, <1>4 DEF Candidates

\* A step that moves the cursor over filler, or ends the scan, and adds nothing.
LEMMA LogJump ==
    ASSUME TypeOK, LogInv, im' = im, found' = found,
           pos' \in Nat, pos <= pos', \A x \in LogNodes : pos <= x => pos' <= x,
           pc' # "done" => rc' = 0,
           pc' = "done" /\ ~IOFaults =>
             \/ rc' = 0 /\ \A x \in LogNodes : x < pos'
             \/ rc' = -1 /\ \E x \in LogNodes : ~WellFormed(x)
    PROVE  LogInv'
<1>1. /\ \A i \in 1 .. Len(found) : found[i] < pos'
      /\ \A x \in LogNodes : x < pos' <=> x < pos
      /\ \A x \in LogNodes : x < pos' => WellFormed(x) /\ NodeEnd(x) <= pos'
  BY JumpKeepsLog
<1>2. /\ LogNodes' = LogNodes /\ Headers' = Headers
      /\ \A x : /\ WellFormed(x)' <=> WellFormed(x)
                /\ NodeEnd(x)' = NodeEnd(x)
  BY SameLog
<1>3. FoundInOrder'
  <2>1. ASSUME NEW x \in Headers
        PROVE  (\E i \in 1 .. Len(found) : found[i] = x)
                 <=> x \in LogNodes /\ x < pos' /\ im.node[x].type # "other"
    BY <1>1 DEF LogInv, FoundInOrder
  <2>2. \A i, j \in 1 .. Len(found) : i < j => found[i] < found[j]
    BY DEF LogInv, FoundInOrder
  <2> QED BY <1>2, <2>1, <2>2 DEF FoundInOrder
<1> QED BY <1>1, <1>2, <1>3 DEF LogInv

\* A node is read: the log before the new cursor is what was before the old
\* one, and the node.
LEMMA LogRead ==
    ASSUME TypeOK, TypeOK', LogInv, ReadNode
    PROVE  LogInv'
<1>1. /\ pc = "scan" /\ pc' = pc /\ rc' = rc /\ im' = im /\ rc = 0
      /\ MoreLog /\ IsNode(pos) /\ NodeAccepted(im.node[pos])
      /\ pos' = NodeEnd(pos)
      /\ found' = IF im.node[pos].type = "other" THEN found ELSE Append(found, pos)
  BY DEF ReadNode, LogInv, NodeEnd
<1>2. pos \in LogNodes /\ WellFormed(pos)
  BY <1>1, CursorInLog
<1>3. pos \in Nat /\ pos' \in Nat /\ found \in Seq(Nat)
  BY DEF TypeOK
<1>4. pos < pos'
  <2>1. im.node[pos].totlen \in Nat /\ im.node[pos].totlen >= HEADER_SIZE
    BY <1>1, NodeTyped DEF NodeAccepted, NodeOK
  <2>2. pos + im.node[pos].totlen \in Nat /\ pos + im.node[pos].totlen > pos
    BY <1>3, <2>1 DEF HEADER_SIZE
  <2>3. pos + im.node[pos].totlen <= NodeEnd(pos) /\ NodeEnd(pos) \in Nat
    BY <2>2, AlignBounds DEF NodeEnd
  <2> QED BY <1>1, <1>3, <2>2, <2>3
<1>5. ASSUME NEW x \in LogNodes
      PROVE  /\ x \in Nat /\ (x < pos' <=> x < pos \/ x = pos)
             /\ x < pos' => WellFormed(x) /\ NodeEnd(x) <= pos'
  <2>1. x \in Nat /\ NodeEnd(x) \in Nat
    BY LogFacts
  <2>2. pos < x => pos' <= x
    BY <1>1, <1>2, LogFacts
  <2>3. x < pos' <=> x < pos \/ x = pos
    BY <1>3, <1>4, <2>1, <2>2
  <2>4. CASE x < pos
    <3>1. WellFormed(x) /\ NodeEnd(x) <= pos
      BY <2>4 DEF LogInv
    <3> QED BY <1>3, <1>4, <2>1, <2>3, <3>1
  <2>5. CASE x = pos
    BY <1>1, <1>2, <1>3, <2>1, <2>3, <2>5
  <2> QED BY <2>1, <2>3, <2>4, <2>5
<1>6. /\ LogNodes' = LogNodes /\ Headers' = Headers
      /\ \A x : /\ WellFormed(x)' <=> WellFormed(x)
                /\ NodeEnd(x)' = NodeEnd(x)
  BY <1>1, SameLog
<1>7. \A i \in 1 .. Len(found) : found[i] \in Nat /\ found[i] < pos
  BY <1>3 DEF LogInv
<1>8. /\ \A i, j \in 1 .. Len(found) : i < j => found[i] < found[j]
      /\ \A x \in Headers :
           (\E i \in 1 .. Len(found) : found[i] = x)
              <=> x \in LogNodes /\ x < pos /\ im.node[x].type # "other"
  BY DEF LogInv, FoundInOrder
<1>9. CASE im.node[pos].type = "other"
  <2>1. found' = found
    BY <1>1, <1>9
  <2>2. \A i \in 1 .. Len(found) : found[i] < pos'
    BY <1>3, <1>4, <1>7
  <2>3. ASSUME NEW x \in Headers
        PROVE  (\E i \in 1 .. Len(found) : found[i] = x)
                 <=> x \in LogNodes /\ x < pos' /\ im.node[x].type # "other"
    BY <1>5, <1>8, <1>9
  <2>4. FoundInOrder'
    BY <1>1, <1>6, <1>8, <2>1, <2>3 DEF FoundInOrder
  <2> QED BY <1>1, <1>5, <1>6, <2>1, <2>2, <2>4 DEF LogInv
<1>10. CASE im.node[pos].type # "other"
  <2> DEFINE n == Len(found)
  <2>1. /\ n \in Nat /\ Len(found') = n + 1 /\ found'[n + 1] = pos
        /\ \A i \in 1 .. n : found'[i] = found[i]
    BY <1>1, <1>3, <1>10
  <2> HIDE DEF n
  <2>2. ASSUME NEW i \in 1 .. n + 1
        PROVE  i \in 1 .. n \/ i = n + 1
    BY <2>1
  <2>3. \A i \in 1 .. n : i \in 1 .. n + 1
    BY <2>1
  <2>4. n + 1 \in 1 .. n + 1
    BY <2>1
  <2>5. ASSUME NEW i \in 1 .. n + 1
        PROVE  found'[i] < pos'
    <3>1. CASE i \in 1 .. n
      BY <1>3, <1>4, <1>7, <2>1, <3>1 DEF n
    <3>2. CASE i = n + 1
      BY <1>4, <2>1, <3>2
    <3> QED BY <2>2, <3>1, <3>2
  <2>6. ASSUME NEW i \in 1 .. n + 1, NEW j \in 1 .. n + 1, i < j
        PROVE  found'[i] < found'[j]
    <3>1. i \in 1 .. n
      BY <2>1, <2>6
    <3>2. CASE j \in 1 .. n
      BY <1>8, <2>1, <2>6, <3>1, <3>2 DEF n
    <3>3. CASE j = n + 1
      BY <1>7, <2>1, <3>1, <3>3 DEF n
    <3> QED BY <2>2, <3>2, <3>3
  <2>7. ASSUME NEW x \in Headers
        PROVE  (\E i \in 1 .. n + 1 : found'[i] = x)
                 <=> x \in LogNodes /\ x < pos' /\ im.node[x].type # "other"
    <3>1. (\E i \in 1 .. n + 1 : found'[i] = x)
             <=> (\E i \in 1 .. n : found[i] = x) \/ x = pos
      BY <2>1, <2>2, <2>3, <2>4
    <3>2. (\E i \in 1 .. n : found[i] = x)
             <=> x \in LogNodes /\ x < pos /\ im.node[x].type # "other"
      BY <1>8 DEF n
    <3> QED BY <1>2, <1>5, <1>10, <3>1, <3>2
  <2>8. FoundInOrder'
    BY <1>1, <1>6, <2>1, <2>6, <2>7 DEF FoundInOrder
  <2> QED BY <1>1, <1>5, <1>6, <2>1, <2>5, <2>8 DEF LogInv
<1> QED BY <1>9, <1>10

\* Every step keeps what has been collected the log before the cursor.
LEMMA LogStep ==
    ASSUME TypeOK, TypeOK', LogInv, [Next]_vars
    PROVE  LogInv'
<1>0. /\ pos \in Nat /\ pos' \in Nat /\ im.len \in Nat
      /\ \A x \in LogNodes : x \in Nat /\ x + HEADER_SIZE <= im.len
  BY LogFacts DEF TypeOK, ImageOK
<1>1. CASE ReadNode
  BY <1>1, LogRead
<1>2. CASE RejectNode
  <2>1. /\ im' = im /\ found' = found /\ pos' = pos /\ pc' = "done" /\ rc' = -1
        /\ MoreLog /\ ((IsNode(pos) /\ ~NodeAccepted(im.node[pos])) \/ IOFaults)
    BY <1>2 DEF RejectNode
  <2>2. ~IOFaults => pos \in LogNodes /\ ~WellFormed(pos)
    BY <2>1, CursorInLog
  <2>3. \A x \in LogNodes : pos <= x => pos' <= x
    BY <2>1
  <2> QED BY <1>0, <2>1, <2>2, <2>3, LogJump
<1>3. CASE EnterGap
  <2>1. /\ im' = im /\ found' = found /\ pos' = pos /\ pc' = "gap" /\ rc' = rc
        /\ rc = 0 /\ \A x \in LogNodes : pos <= x => pos' <= x
    BY <1>3 DEF EnterGap, LogInv
  <2> QED BY <1>0, <2>1, LogJump
<1>4. CASE EndOfLog \/ NoMoreNodes
  <2>1. /\ im' = im /\ found' = found /\ pos' = pos /\ pc' = "done" /\ rc' = rc
        /\ rc = 0 /\ \A x \in LogNodes : pos <= x => pos' <= x
    BY <1>4 DEF EndOfLog, NoMoreNodes, LogInv
  <2>2. ~IOFaults => pos + HEADER_SIZE > im.len
    BY <1>0, <1>4 DEF EndOfLog, NoMoreNodes, MoreLog, HEADER_SIZE
  <2>3. ~IOFaults => \A x \in LogNodes : x < pos'
    BY <1>0, <2>1, <2>2 DEF HEADER_SIZE
  <2> QED BY <1>0, <2>1, <2>3, LogJump
<1>5. CASE \E y \in DOMAIN im.node : FoundNode(y)
  <2>1. PICK y \in DOMAIN im.node : FoundNode(y)
    BY <1>5
  <2>2. /\ im' = im /\ found' = found /\ pos' = y /\ pc' = "scan" /\ rc' = rc
        /\ rc = 0 /\ y \in Candidates
        /\ \A z \in Candidates : IsNode(z) => y <= z
    BY <2>1 DEF FoundNode, LogInv
  <2>3. Got \in Int
    BY <1>0, Jffs2ScanAssumption DEF Got
  <2>4. pos <= y /\ y + 2 <= pos + Got
    BY <1>0, <2>2, <2>3 DEF Candidates
  <2>5. ASSUME NEW x \in LogNodes, pos <= x
        PROVE  y <= x
    <3>1. x \in Nat /\ y \in Nat
      BY <1>0, <2>2
    <3>2. CASE x + 2 <= pos + Got
      BY <2>2, <2>5, <3>2, HeadersAreCandidates
    <3>3. CASE ~ (x + 2 <= pos + Got)
      BY <1>0, <2>3, <2>4, <3>1, <3>3
    <3> QED BY <3>2, <3>3
  <2> QED BY <1>0, <2>2, <2>4, <2>5, LogJump
<1>6. CASE NextChunk
  <2>1. /\ im' = im /\ found' = found /\ rc' = rc /\ rc = 0
        /\ \A z \in Candidates : ~IsNode(z)
        /\ IF Got < 4 THEN pc' = "done" /\ pos' = pos
                      ELSE pos' = pos + (Got \div 4) * 4 /\ pc' = pc
        /\ pc = "gap" /\ pos + 2 <= im.len
    BY <1>6 DEF NextChunk, LogInv
  <2>2. /\ Got \in Nat /\ pos + Got <= im.len
        /\ Got < 4 => Got = im.len - pos
    <3>1. GAP_SCAN_CHUNK \in Nat /\ ~ (GAP_SCAN_CHUNK < 4)
      BY Jffs2ScanAssumption
    <3> QED BY <1>0, <2>1, <3>1 DEF Got
  <2>3. ASSUME NEW x \in LogNodes, pos <= x
        PROVE  x + 2 > pos + Got
    BY <2>1, <2>3, HeadersAreCandidates, <1>0, <2>2
  <2>4. CASE Got < 4
    <3>1. \A x \in LogNodes : x < pos
      BY <1>0, <2>2, <2>4 DEF HEADER_SIZE
    <3>2. /\ pos' = pos /\ pc' = "done" /\ \A x \in LogNodes : pos <= x => pos' <= x
      BY <2>1, <2>4
    <3> QED BY <1>0, <2>1, <3>1, <3>2, LogJump
  <2>5. CASE ~ (Got < 4)
    <3> DEFINE p == pos + (Got \div 4) * 4
    <3>1. p \in Nat /\ pos <= p /\ p <= pos + Got /\ p % 4 = 0
      <4>1. pos % 4 = 0
        BY DEF TypeOK
      <4> QED BY <1>0, <2>2, <4>1
    <3> HIDE DEF p
    <3>2. ASSUME NEW x \in LogNodes, pos <= x
          PROVE  p <= x
      <4>1. x % 4 = 0 /\ x \in Nat
        BY LogFacts
      <4>2. x + 2 > p
        BY <1>0, <2>2, <2>3, <3>1, <3>2, <4>1
      <4> QED BY <3>1, <4>1, <4>2
    <3>3. pos' = p /\ pc' = "gap"
      BY <2>1, <2>5 DEF p
    <3> QED BY <1>0, <2>1, <3>1, <3>2, <3>3, LogJump
  <2> QED BY <2>4, <2>5
<1>7. CASE Returned \/ UNCHANGED vars
  <2>1. /\ im' = im /\ found' = found /\ pos' = pos /\ pc' = pc /\ rc' = rc
        /\ \A x \in LogNodes : pos <= x => pos' <= x
    BY <1>7 DEF Returned, vars
  <2>2. /\ pc' # "done" => rc' = 0
        /\ pc' = "done" /\ ~IOFaults =>
             \/ rc' = 0 /\ \A x \in LogNodes : x < pos'
             \/ rc' = -1 /\ \E x \in LogNodes : ~WellFormed(x)
    BY <2>1 DEF LogInv
  <2> QED BY <1>0, <2>1, <2>2, LogJump
<1> QED BY <1>1, <1>2, <1>3, <1>4, <1>5, <1>6, <1>7 DEF Next, scan_log, find_next_node

\* For every image and every chunk size, the scan collects the nodes of the log
\* and no others, in order, and refuses exactly the logs with a malformed node;
\* with failing calls it may end early, but never skips a node.
THEOREM ScanFindsTheLogHolds == Spec => []ScanFindsTheLog
<1>1. Init => LogInv
  <2> SUFFICES ASSUME Init PROVE LogInv
    OBVIOUS
  <2>1. TypeOK
    BY Jffs2ScanAssumption DEF Init, TypeOK
  <2>2. \A x \in LogNodes : x \in Nat /\ ~ (x < 0)
    BY <2>1, LogFacts
  <2>3. FoundInOrder
    BY <2>2 DEF Init, FoundInOrder
  <2> QED BY <2>2, <2>3 DEF Init, LogInv
<1>2. TypeOK /\ TypeOK' /\ LogInv /\ [Next]_vars => LogInv'
  BY LogStep
<1>3. TypeOK /\ LogInv => ScanFindsTheLog
  <2> SUFFICES ASSUME TypeOK, LogInv, pc = "done" PROVE
        /\ FoundInOrder
        /\ ~IOFaults => IF \E x \in LogNodes : ~WellFormed(x) THEN rc = -1
                        ELSE rc = 0 /\ \A x \in LogNodes : x < pos
    BY DEF ScanFindsTheLog
  <2> QED BY DEF LogInv
<1> QED BY <1>1, <1>2, <1>3, TypeCorrect, PTL DEF Spec
=============================================================================

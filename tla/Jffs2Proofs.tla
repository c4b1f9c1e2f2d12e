----------------------------- MODULE Jffs2Proofs -----------------------------
(***************************************************************************)
(* The JFFS2 walk, for every log: after the sort, whose order of equal     *)
(* elements is open, what is listed is live and what is put on disk comes  *)
(* from the newest fragments, inside a buffer of the declared size; the    *)
(* binary searches find the bound they are taken for; and the list is the  *)
(* live tree of the log.                                                   *)
(***************************************************************************)
EXTENDS Jffs2, SequenceTheorems, FiniteSetTheorems, WellFoundedInduction, TLAPS

(***************************************************************************)
(* Searching a sorted sequence: what a CHOOSE below names exists, because  *)
(* a nonempty set of natural numbers has a least element.                  *)
(***************************************************************************)
LEMMA LeastNatural ==
    ASSUME NEW T, T \subseteq Nat, T # {}
    PROVE  \E x \in T : \A y \in T : x <= y
<1>1. IsWellFoundedOn(OpToRel(<, Nat), Nat)
  BY NatLessThanWellFounded
<1> DEFINE R == {ss \in Nat \X Nat : ss[1] < ss[2]}
<1>2. OpToRel(<, Nat) = R
  BY DEF OpToRel
<1>3. IsWellFoundedOn(R, Nat)
  BY <1>1, <1>2
<1>4. \A x, y \in Nat : x < y => <<x, y>> \in R
  OBVIOUS
<1> HIDE DEF R
<1>5. PICK x \in T : \A y \in T : ~ (<<y, x>> \in R)
  BY <1>3, WFMin
<1>6. ASSUME NEW y \in T PROVE x <= y
  <2>1. x \in Nat /\ y \in Nat
    OBVIOUS
  <2>2. ~ (y < x)
    BY <1>4, <1>5, <2>1
  <2> QED BY <2>1, <2>2
<1> QED BY <1>6

\* A bounded nonempty set of naturals has a greatest element.
LEMMA GreatestNatural ==
    ASSUME NEW n \in Nat, NEW T, T \subseteq 0 .. n, T # {}
    PROVE  \E x \in T : \A y \in T : y <= x
<1> DEFINE U == {k \in 0 .. n : n - k \in T}
<1>1. U \subseteq Nat /\ U # {}
  <2>1. PICK t \in T : t \in 0 .. n
    OBVIOUS
  <2>2. n - t \in 0 .. n /\ n - (n - t) = t
    BY <2>1
  <2> QED BY <2>1, <2>2
<1>2. PICK u \in U : \A k \in U : u <= k
  BY <1>1, LeastNatural
<1>3. ASSUME NEW y \in T PROVE y <= n - u
  <2>1. n - y \in 0 .. n /\ n - (n - y) = y
    OBVIOUS
  <2>2. n - y \in U
    BY <2>1
  <2> QED BY <1>2, <2>1, <2>2
<1> QED BY <1>2, <1>3

\* In a sorted sequence the place LowerBound chooses exists.
LEMMA LowerBoundFound ==
    ASSUME NEW keys, NEW n \in Nat, n = Len(keys),
           \A i \in 1 .. n : keys[i] \in Nat,
           \A i, j \in 1 .. n : i < j => keys[i] <= keys[j],
           NEW k \in Nat
    PROVE  /\ LowerBound(keys, k) \in 1 .. n + 1
           /\ \A i \in 1 .. LowerBound(keys, k) - 1 : keys[i] < k
           /\ \A i \in LowerBound(keys, k) .. n : keys[i] >= k
<1> DEFINE T == {i \in 1 .. n + 1 : i = n + 1 \/ keys[i] >= k}
<1>1. T \subseteq Nat /\ n + 1 \in T
  OBVIOUS
<1>2. PICK lo \in T : \A y \in T : lo <= y
  BY <1>1, LeastNatural
<1>3. \A i \in 1 .. lo - 1 : keys[i] < k
  <2> SUFFICES ASSUME NEW i \in 1 .. lo - 1 PROVE keys[i] < k
    OBVIOUS
  <2>1. i \in 1 .. n /\ i < lo
    OBVIOUS
  <2>2. i \notin T
    BY <1>2, <2>1
  <2> QED BY <2>1, <2>2
<1>4. \A i \in lo .. n : keys[i] >= k
  <2> SUFFICES ASSUME NEW i \in lo .. n PROVE keys[i] >= k
    OBVIOUS
  <2>1. i \in 1 .. n /\ lo \in 1 .. n /\ keys[lo] >= k
    BY <1>2
  <2>2. i = lo \/ keys[lo] <= keys[i]
    BY <2>1
  <2> QED BY <2>1, <2>2
<1>5. \E l \in 1 .. Len(keys) + 1 :
         /\ \A i \in 1 .. l - 1 : keys[i] < k
         /\ \A i \in l .. Len(keys) : keys[i] >= k
  BY <1>2, <1>3, <1>4
<1> QED BY <1>5 DEF LowerBound

\* A permutation keeps the elements and adds none.
LEMMA ReorderingOf ==
    ASSUME NEW S, NEW s \in Seq(S), NEW t \in Reorderings(s)
    PROVE  /\ t \in Seq(S) /\ Len(t) = Len(s)
           /\ \A i \in 1 .. Len(t) : \E j \in 1 .. Len(s) : t[i] = s[j]
           /\ \A j \in 1 .. Len(s) : \E i \in 1 .. Len(t) : t[i] = s[j]
<1> DEFINE n == Len(s)
<1>1. PICK p \in [1 .. n -> 1 .. n] :
        /\ \A j \in 1 .. n : \E i \in 1 .. n : p[i] = j
        /\ t = [i \in 1 .. n |-> s[p[i]]]
  BY DEF Reorderings
<1>2. n \in Nat /\ \A i \in 1 .. n : p[i] \in 1 .. n /\ s[p[i]] \in S
  OBVIOUS
<1>3. t \in [1 .. n -> S]
  BY <1>1, <1>2
<1>4. t \in Seq(S) /\ Len(t) = n
  BY <1>2, <1>3
<1> QED BY <1>1, <1>2, <1>4

-----------------------------------------------------------------------------
(* The order that every search relies on.                                  *)

Sorted ==
    /\ DirentsSorted(dirents) /\ InodesSorted(inodes)
    /\ pc \in {"walk", "file"} =>
         /\ \A i \in 1 .. Len(dirents) : \E j \in 1 .. Len(log.dirents) :
              dirents[i] = log.dirents[j]
         /\ \A j \in 1 .. Len(log.dirents) : \E i \in 1 .. Len(dirents) :
              dirents[i] = log.dirents[j]

\* The fields of a node are natural numbers.
LEMMA WordsAreNat == U32 \in Nat /\ Word \subseteq Nat /\ 0 \in Word /\ 1 \in Word
  BY Jffs2Assumption DEF Word

\* A sorted dirent is a dirent.
LEMMA DirentTyped ==
    ASSUME NEW s \in Seq(Dirents), NEW i \in 1 .. Len(s)
    PROVE  /\ s[i] \in Dirents
           /\ s[i].pino \in Nat /\ s[i].pino \in Word /\ s[i].ino \in Word
           /\ s[i].name \in Names \cup {Unsafe} /\ s[i].name \in Nat
           /\ s[i].version \in Nat
<1>1. s[i] \in Dirents
  OBVIOUS
<1> QED BY <1>1, WordsAreNat, Jffs2Assumption DEF Dirents

\* A sorted inode node is an inode node.
LEMMA InodeTyped ==
    ASSUME NEW s \in Seq(Inodes), NEW i \in 1 .. Len(s)
    PROVE  /\ s[i] \in Inodes
           /\ s[i].ino \in Nat /\ s[i].version \in Nat
           /\ s[i].isize \in Word /\ s[i].isize \in Nat
           /\ s[i].frag_offset \in Nat /\ s[i].dsize \in Nat
<1>1. s[i] \in Inodes
  OBVIOUS
<1> QED BY <1>1, WordsAreNat DEF Inodes

\* The search for a directory's first dirent.
LEMMA PinoSearch ==
    ASSUME NEW s \in Seq(Dirents), DirentsSorted(s), NEW k \in Word
    PROVE  LowerBound([i \in 1 .. Len(s) |-> s[i].pino], k) \in Nat \ {0}
<1> DEFINE keys == [i \in 1 .. Len(s) |-> s[i].pino]
           n == Len(s)
<1>1. n \in Nat /\ k \in Nat
  BY WordsAreNat
<1>2. Len(keys) = n /\ \A i \in 1 .. n : keys[i] = s[i].pino
  BY <1>1
<1>3. \A i \in 1 .. n : keys[i] \in Nat
  BY <1>2, DirentTyped
<1>4. ASSUME NEW i \in 1 .. n, NEW j \in 1 .. n, i < j
      PROVE  keys[i] <= keys[j]
  <2>1. dirent_le(s[i], s[j])
    BY <1>4 DEF DirentsSorted
  <2> QED BY <1>2, <1>3, <2>1 DEF dirent_le
<1> HIDE DEF keys, n
<1>5. LowerBound(keys, k) \in 1 .. n + 1
  BY <1>1, <1>2, <1>3, <1>4, LowerBoundFound
<1> QED BY <1>1, <1>5 DEF keys

\* The search for an inode's first node.
LEMMA InoSearch ==
    ASSUME inodes \in Seq(Inodes), InodesSorted(inodes), NEW k \in Word
    PROVE  /\ LowerBound(Inos, k) \in 1 .. Len(inodes) + 1
           /\ \A i \in 1 .. LowerBound(Inos, k) - 1 : inodes[i].ino < k
           /\ \A i \in LowerBound(Inos, k) .. Len(inodes) : inodes[i].ino >= k
<1> DEFINE n == Len(inodes)
<1>1. n \in Nat /\ k \in Nat
  BY WordsAreNat
<1>2. Len(Inos) = n /\ \A i \in 1 .. n : Inos[i] = inodes[i].ino
  BY <1>1 DEF Inos
<1>3. \A i \in 1 .. n : Inos[i] \in Nat
  BY <1>2, InodeTyped
<1>4. ASSUME NEW i \in 1 .. n, NEW j \in 1 .. n, i < j
      PROVE  Inos[i] <= Inos[j]
  <2>1. inode_le(inodes[i], inodes[j])
    BY <1>4 DEF InodesSorted
  <2> QED BY <1>2, <1>3, <2>1 DEF inode_le
<1>5. /\ LowerBound(Inos, k) \in 1 .. n + 1
      /\ \A i \in 1 .. LowerBound(Inos, k) - 1 : Inos[i] < k
      /\ \A i \in LowerBound(Inos, k) .. n : Inos[i] >= k
  BY <1>1, <1>2, <1>3, <1>4, LowerBoundFound
<1>6. \A i \in 1 .. LowerBound(Inos, k) - 1 : i \in 1 .. n
  BY <1>1, <1>5
<1>7. \A i \in LowerBound(Inos, k) .. n : i \in 1 .. n
  BY <1>1, <1>5
<1> QED BY <1>2, <1>5, <1>6, <1>7

-----------------------------------------------------------------------------
(* One name: the run of its dirents, and the last one of the run.          *)

\* The run of equal names that starts at the cursor has a last element.
LEMMA RunFound ==
    ASSUME TypeOK, AtChild
    PROVE  /\ Top \in Frames /\ Len(stack) \in Nat \ {0}
           /\ Top.next \in 1 .. Len(dirents)
           /\ RunEnd(Top.next) \in Top.next .. Len(dirents)
           /\ \A k \in Top.next .. RunEnd(Top.next) : SameName(Top.next, k)
           /\ RunEnd(Top.next) < Len(dirents)
                => ~SameName(Top.next, RunEnd(Top.next) + 1)
<1> DEFINE n == Len(dirents)
           i == Top.next
           T == {j \in i .. n : j < n => ~SameName(i, j + 1)}
<1>1. Top \in Frames /\ Len(stack) \in Nat \ {0}
  BY DEF TypeOK, AtChild, Top
<1>2. n \in Nat /\ i \in 1 .. n
  BY <1>1 DEF TypeOK, AtChild, Frames
<1> HIDE DEF n, i
<1>3. T \subseteq Nat /\ n \in T
  BY <1>2
<1>4. PICK j \in T : \A y \in T : j <= y
  BY <1>3, LeastNatural
<1>5. j \in i .. n /\ (j < n => ~SameName(i, j + 1))
  BY <1>4
<1>6. ASSUME NEW k \in i .. j PROVE SameName(i, k)
  <2>1. CASE k = i
    BY <2>1 DEF SameName
  <2>2. CASE k # i
    <3>1. k - 1 \in i .. n /\ k - 1 < j /\ (k - 1) + 1 = k
      BY <1>2, <1>5, <2>2
    <3>2. k - 1 \notin T
      BY <1>2, <1>4, <1>5, <3>1
    <3> QED BY <3>1, <3>2
  <2> QED BY <2>1, <2>2
<1>7. \E l \in i .. Len(dirents) :
        /\ \A k \in i .. l : SameName(i, k)
        /\ l < Len(dirents) => ~SameName(i, l + 1)
  BY <1>5, <1>6 DEF n
<1>8. /\ RunEnd(i) \in i .. Len(dirents)
      /\ \A k \in i .. RunEnd(i) : SameName(i, k)
      /\ RunEnd(i) < Len(dirents) => ~SameName(i, RunEnd(i) + 1)
  BY <1>7 DEF RunEnd
<1> QED BY <1>1, <1>2, <1>8 DEF n, i

\* The dirent taken for a name is one of the sorted dirents.
LEMMA WinnerTyped ==
    ASSUME TypeOK, AtChild
    PROVE  /\ Winner \in Dirents /\ Winner.pino = Top.pino
           /\ Winner.ino \in Word /\ Winner.name \in Names \cup {Unsafe}
           /\ Advanced \in Seq(Frames) /\ Len(Advanced) = Len(stack)
<1> DEFINE j == RunEnd(Top.next)
<1>1. j \in 1 .. Len(dirents) /\ SameName(Top.next, j) /\ j + 1 \in Nat \ {0}
  BY RunFound DEF TypeOK
<1>2. dirents \in Seq(Dirents) /\ dirents[j] \in Dirents
  BY <1>1 DEF TypeOK
<1>3. Winner \in Dirents /\ Winner.pino = Top.pino
  BY <1>1, <1>2 DEF Winner, SameName, AtChild
<1> HIDE DEF j
<1>4. [Top EXCEPT !.next = j + 1] \in Frames
  BY <1>1, RunFound DEF Frames
<1>5. Advanced = [stack EXCEPT ![Len(stack)] = [Top EXCEPT !.next = j + 1]]
  BY DEF Advanced, j
<1>6. Advanced \in Seq(Frames) /\ Len(Advanced) = Len(stack)
  BY <1>4, <1>5, RunFound DEF TypeOK
<1>7. Winner.ino \in Word /\ Winner.name \in Names \cup {Unsafe}
  BY <1>3 DEF Dirents
<1> QED BY <1>3, <1>6, <1>7

\* The last dirent of the run is the live one, or the name is deleted: a
\* newer one of the same name would stand behind it and so be in the run.
LEMMA WinnerIsNewest ==
    ASSUME TypeOK, Sorted, AtChild
    PROVE  /\ \E i \in 1 .. Len(log.dirents) : log.dirents[i] = Winner
           /\ \A i \in 1 .. Len(log.dirents) :
                log.dirents[i].pino = Winner.pino /\ log.dirents[i].name = Winner.name
                  => log.dirents[i].version <= Winner.version
<1> DEFINE j == RunEnd(Top.next)
<1>1. /\ Top.next \in 1 .. Len(dirents) /\ j \in Top.next .. Len(dirents)
      /\ SameName(Top.next, j) /\ (j < Len(dirents) => ~SameName(Top.next, j + 1))
  BY RunFound
<1>2. dirents \in Seq(Dirents) /\ Len(dirents) \in Nat /\ j \in 1 .. Len(dirents)
      /\ pc = "walk" /\ Winner = dirents[j]
  BY <1>1 DEF TypeOK, AtChild, Winner
<1> HIDE DEF j
<1>3. \E i \in 1 .. Len(log.dirents) : log.dirents[i] = Winner
  BY <1>2 DEF Sorted
<1>4. ASSUME NEW p \in 1 .. Len(dirents),
             dirents[p].pino = Winner.pino, dirents[p].name = Winner.name
      PROVE  dirents[p].version <= Winner.version
  <2>1. /\ dirents[p].version \in Nat /\ dirents[j].version \in Nat
        /\ dirents[p].name \in Nat /\ dirents[j].name \in Nat
        /\ dirents[p].pino \in Nat /\ dirents[j].pino \in Nat
    BY <1>2, DirentTyped
  <2>2. CASE p < j
    <3>1. dirent_le(dirents[p], dirents[j])
      BY <1>2, <2>2 DEF Sorted, DirentsSorted
    <3> QED BY <1>2, <1>4, <2>1, <3>1 DEF dirent_le
  <2>3. CASE p = j
    BY <1>2, <2>1, <2>3
  <2>4. CASE p > j
    <3>1. j < Len(dirents) /\ j + 1 \in 1 .. Len(dirents) /\ j < j + 1
      BY <1>2, <2>4
    <3>2. dirent_le(dirents[j], dirents[j + 1])
      BY <1>2, <3>1 DEF Sorted, DirentsSorted
    <3>3. dirents[j + 1].pino \in Nat /\ dirents[j + 1].name \in Nat
      BY <1>2, <3>1, DirentTyped
    <3>4. p = j + 1 \/ dirent_le(dirents[j + 1], dirents[p])
      BY <1>2, <2>4, <3>1 DEF Sorted, DirentsSorted
    <3>5. /\ dirents[j + 1].pino = dirents[j].pino
          /\ dirents[j + 1].name = dirents[j].name
      BY <1>2, <1>4, <2>1, <3>2, <3>3, <3>4 DEF dirent_le
    <3>6. SameName(Top.next, j + 1)
      BY <1>1, <3>5 DEF SameName
    <3> QED BY <1>1, <3>1, <3>6
  <2> QED BY <1>2, <2>2, <2>3, <2>4
<1>5. \A i \in 1 .. Len(log.dirents) : \E p \in 1 .. Len(dirents) :
        dirents[p] = log.dirents[i]
  BY <1>2 DEF Sorted
<1> QED BY <1>3, <1>4, <1>5

-----------------------------------------------------------------------------
(* One inode: the run of its nodes, and the last one of the run.           *)

NodesOf(ino) == {k \in 1 .. Len(inodes) : inodes[k].ino = ino}

\* The run of an inode is all of its nodes.
LEMMA RunOfInode ==
    ASSUME TypeOK, Sorted, NEW ino \in Word
    PROVE  Run(ino) = NodesOf(ino)
<1> DEFINE n == Len(inodes)
           lo == LowerBound(Inos, ino)
<1>1. /\ lo \in 1 .. n + 1 /\ n \in Nat /\ ino \in Nat
      /\ \A i \in 1 .. lo - 1 : inodes[i].ino < ino
      /\ \A i \in lo .. n : inodes[i].ino >= ino
  <2>1. inodes \in Seq(Inodes) /\ InodesSorted(inodes)
    BY DEF TypeOK, Sorted
  <2>2. n \in Nat /\ ino \in Nat
    BY <2>1, WordsAreNat
  <2> QED BY <2>1, <2>2, InoSearch
<1> HIDE DEF lo, n
<1>2. ASSUME NEW i \in Run(ino) PROVE i \in NodesOf(ino)
  <2>1. i \in lo .. n /\ \A k \in lo .. i : inodes[k].ino = ino
    BY DEF Run, lo, n
  <2> QED BY <1>1, <2>1 DEF NodesOf, n
<1>3. ASSUME NEW i \in NodesOf(ino) PROVE i \in Run(ino)
  <2>1. i \in 1 .. n /\ inodes[i].ino = ino
    BY DEF NodesOf, n
  <2>2. i \in lo .. n
    <3>1. i < lo => i \in 1 .. lo - 1
      BY <1>1, <2>1
    <3>2. ~ (inodes[i].ino < ino)
      BY <1>1, <2>1
    <3> QED BY <1>1, <2>1, <3>1, <3>2
  <2>3. ASSUME NEW k \in lo .. i PROVE inodes[k].ino = ino
    <3>1. k \in lo .. n /\ k \in 1 .. n /\ k <= i
      BY <1>1, <2>1
    <3>2. inodes[k].ino >= ino /\ inodes[k].ino \in Nat
      BY <1>1, <3>1, InodeTyped DEF TypeOK, n
    <3>3. k = i \/ inode_le(inodes[k], inodes[i])
      BY <1>1, <2>1, <3>1 DEF Sorted, InodesSorted, n
    <3>4. inodes[k].ino <= ino
      BY <1>1, <2>1, <3>2, <3>3 DEF inode_le
    <3> QED BY <1>1, <3>2, <3>4
  <2> QED BY <2>2, <2>3 DEF Run, lo, n
<1> QED BY <1>2, <1>3

\* The later of two nodes of one inode is the newer one.
LEMMA LaterIsNewer ==
    ASSUME TypeOK, Sorted, NEW ino, NEW i \in NodesOf(ino), NEW k \in NodesOf(ino),
           k <= i
    PROVE  inodes[k].version <= inodes[i].version
<1>1. /\ i \in 1 .. Len(inodes) /\ k \in 1 .. Len(inodes)
      /\ inodes[i].ino = inodes[k].ino
  BY DEF NodesOf
<1>2. /\ inodes[i].version \in Nat /\ inodes[k].version \in Nat
      /\ inodes[i].ino \in Nat /\ inodes[k].ino \in Nat
  BY <1>1, InodeTyped DEF TypeOK
<1>3. k = i \/ inode_le(inodes[k], inodes[i])
  BY <1>1 DEF Sorted, InodesSorted
<1> QED BY <1>1, <1>2, <1>3 DEF inode_le

\* The node taken for an inode is the newest it has.
LEMMA MetaIsNewest ==
    ASSUME TypeOK, Sorted, NEW ino \in Word, HasMeta(ino)
    PROVE  \E i \in 1 .. Len(inodes) :
             /\ Meta(ino) = inodes[i]
             /\ IsNewest(i, NodesOf(ino))
<1>1. Run(ino) = NodesOf(ino) /\ NodesOf(ino) # {}
  BY RunOfInode DEF HasMeta
<1>2. Len(inodes) \in Nat /\ NodesOf(ino) \subseteq 0 .. Len(inodes)
  BY DEF TypeOK, NodesOf
<1>3. \E x \in NodesOf(ino) : \A y \in NodesOf(ino) : y <= x
  BY <1>1, <1>2, GreatestNatural
<1>4. PICK i \in NodesOf(ino) :
        (\A k \in NodesOf(ino) : k <= i) /\ Meta(ino) = inodes[i]
  BY <1>1, <1>3 DEF Meta
<1>5. IsNewest(i, NodesOf(ino))
  BY <1>4, LaterIsNewer DEF IsNewest
<1>6. i \in 1 .. Len(inodes)
  BY <1>4 DEF NodesOf
<1> QED BY <1>4, <1>5, <1>6

\* The entry being visited is well typed.
LEMMA ChildTyped ==
    ASSUME TypeOK, Sorted, ChildAccepted
    PROVE  /\ ChildPath \in Seq(Names) /\ ChildLen \in Nat
           /\ ChildMeta \in Inodes /\ ChildMeta.isize \in Word
           /\ Listed \in Seq(Entries)
           /\ \E i \in 1 .. Len(inodes) :
                /\ ChildMeta = inodes[i]
                /\ IsNewest(i, NodesOf(Winner.ino))
<1>1. /\ AtChild /\ Winner.ino \in Word /\ HasMeta(Winner.ino)
      /\ Winner.name \in Names
  BY WinnerTyped DEF ChildAccepted
<1>2. Top.path \in Seq(Names) /\ Top.plen \in Nat
  BY <1>1, RunFound DEF Frames
<1>3. NameLen[Winner.name] \in Nat
  BY <1>1, FsTreeAssumption
<1>4. ChildPath \in Seq(Names) /\ ChildLen \in Nat
  BY <1>1, <1>2, <1>3 DEF ChildPath, ChildLen, JoinedLen
<1>5. PICK i \in 1 .. Len(inodes) :
        ChildMeta = inodes[i] /\ IsNewest(i, NodesOf(Winner.ino))
  BY <1>1, MetaIsNewest DEF ChildMeta
<1>6. inodes[i] \in Inodes /\ inodes[i].isize \in Word
  BY InodeTyped DEF TypeOK
<1>7. ListEntry(ChildPath, ChildMeta.kind, ChildMeta.isize) \in Entries
  <2>1. ChildMeta.kind \in {"dir", "reg", "other"}
    BY <1>5, <1>6 DEF Inodes
  <2> QED BY <1>4, <1>5, <1>6, <2>1, WordsAreNat DEF ListEntry, Entries
<1>8. Listed \in Seq(Entries)
  BY <1>7 DEF Listed, TypeOK
<1> QED BY <1>4, <1>5, <1>6, <1>8

-----------------------------------------------------------------------------
\* The initial state has the types, and nothing to be sorted.
LEMMA TypeInit == Init => TypeOK /\ Sorted
<1>1. \A l \in Logs : l.dirents \in Seq(Dirents) /\ l.inodes \in Seq(Inodes)
  BY Jffs2Assumption
<1>2. NoFile \in [path : Seq(Names), ino : Word, isize : {z \in Word : z <= MAX_SIZE},
                  next : Nat \ {0}, content : {NoFile.content}]
  BY WordsAreNat, Jffs2Assumption DEF NoFile
<1> QED BY <1>1, <1>2 DEF Init, TypeOK, Sorted, DirentsSorted, InodesSorted

\* Every step keeps the types and the order of the sorted nodes.
LEMMA TypeStep == TypeOK /\ Sorted /\ [Next]_vars => TypeOK' /\ Sorted'
<1> SUFFICES ASSUME TypeOK, Sorted, [Next]_vars PROVE TypeOK' /\ Sorted'
  OBVIOUS
<1>0. /\ <<>> \in Seq(Frames) /\ <<>> \in Seq(Entries)
      /\ NoFile \in [path : Seq(Names), ino : Word, isize : {z \in Word : z <= MAX_SIZE},
                     next : Nat \ {0}, content : {NoFile.content}]
  BY WordsAreNat, Jffs2Assumption DEF NoFile
<1> DEFINE FileOK(f) ==
      f \in [path : Seq(Names), ino : Word, isize : {z \in Word : z <= MAX_SIZE},
             next : Nat \ {0}, content : {f.content}]
<1>a. FileOK(file) /\ FileOK(NoFile)
  BY <1>0 DEF TypeOK
<1>b. ASSUME UNCHANGED <<log, mode, dirents, inodes>>,
             pc' \in {"walk", "file", "done"}, pc \in {"walk", "file"} \/ pc' = "done",
             rc' \in {0, -1}, stack' \in Seq(Frames), out' \in Seq(Entries), FileOK(file')
      PROVE  TypeOK' /\ Sorted'
  <2>1. Sorted'
    BY <1>b DEF Sorted, DirentsSorted, InodesSorted
  <2> QED BY <1>b, <2>1 DEF TypeOK
<1> HIDE DEF FileOK
<1>1. CASE UNCHANGED vars
  BY <1>1 DEF vars, TypeOK, Sorted, DirentsSorted, InodesSorted
<1>2. CASE Start
  <2>1. CASE /\ dirents' \in Reorderings(log.dirents) /\ DirentsSorted(dirents')
             /\ inodes' \in Reorderings(log.inodes) /\ InodesSorted(inodes')
             /\ stack' = <<[pino |-> ROOT_INO, next |-> LowerBound(Pinos', ROOT_INO),
                            path |-> <<>>, plen |-> 0]>>
             /\ pc' = "walk" /\ UNCHANGED <<rc, out>>
    <3>1. log.dirents \in Seq(Dirents) /\ log.inodes \in Seq(Inodes)
      BY DEF TypeOK
    <3>2. /\ dirents' \in Seq(Dirents) /\ inodes' \in Seq(Inodes)
          /\ \A i \in 1 .. Len(dirents') : \E j \in 1 .. Len(log.dirents) :
               dirents'[i] = log.dirents[j]
          /\ \A j \in 1 .. Len(log.dirents) : \E i \in 1 .. Len(dirents') :
               dirents'[i] = log.dirents[j]
      <4>1. inodes' \in Seq(Inodes)
        BY <2>1, <3>1, ReorderingOf
      <4> DEFINE s == log.dirents
                 t == dirents'
      <4>2. s \in Seq(Dirents) /\ t \in Reorderings(s)
        BY <2>1, <3>1
      <4> HIDE DEF s, t
      <4>3. /\ t \in Seq(Dirents)
            /\ \A i \in 1 .. Len(t) : \E j \in 1 .. Len(s) : t[i] = s[j]
            /\ \A j \in 1 .. Len(s) : \E i \in 1 .. Len(t) : t[i] = s[j]
        BY <4>2, ReorderingOf
      <4> QED BY <4>1, <4>3 DEF s, t
    <3>3. LowerBound([i \in 1 .. Len(dirents') |-> dirents'[i].pino], ROOT_INO)
            \in Nat \ {0}
      BY <2>1, <3>2, PinoSearch, WordsAreNat DEF ROOT_INO
    <3>4. LowerBound(Pinos', ROOT_INO) \in Nat \ {0}
      BY <3>3 DEF Pinos
    <3>5. stack' \in Seq(Frames)
      BY <2>1, <3>4, WordsAreNat DEF ROOT_INO, Frames
    <3>6. log' = log /\ mode' = mode /\ file' = file
      BY <1>2 DEF Start
    <3>7. Sorted'
      BY <2>1, <3>2, <3>6 DEF Sorted, DirentsSorted, InodesSorted
    <3> QED BY <2>1, <3>2, <3>5, <3>6, <3>7 DEF TypeOK
  <2>2. CASE Fail /\ UNCHANGED <<dirents, inodes>>
    BY <1>0, <1>2, <1>a, <1>b, <2>2 DEF Start, Fail
  <2> QED BY <1>2, <2>1, <2>2 DEF Start
<1>3. CASE SkipDeleted
  BY <1>3, <1>a, <1>b, WinnerTyped DEF SkipDeleted, AtChild, TypeOK
<1>4. CASE RejectChild \/ RejectDirectory \/ RejectRegular
  BY <1>0, <1>4, <1>a, <1>b DEF RejectChild, RejectDirectory, RejectRegular, Fail,
     ChildAccepted, AtChild
<1>5. CASE EnterDirectory
  <2>1. /\ AtChild /\ ChildPath \in Seq(Names) /\ ChildLen \in Nat
        /\ Advanced \in Seq(Frames) /\ Winner.ino \in Word
        /\ Listed \in Seq(Entries)
    BY <1>5, ChildTyped, WinnerTyped DEF EnterDirectory, ChildAccepted
  <2>2. LowerBound(Pinos, Winner.ino) \in Nat \ {0}
    BY <2>1, PinoSearch DEF Pinos, TypeOK, Sorted
  <2>3. Frame(Winner.ino, ChildPath, ChildLen) \in Frames
    BY <2>1, <2>2 DEF Frame, Frames
  <2>4. Append(Advanced, Frame(Winner.ino, ChildPath, ChildLen)) \in Seq(Frames)
    BY <2>1, <2>3
  <2> QED BY <1>5, <1>a, <1>b, <2>1, <2>4 DEF EnterDirectory, AtChild, TypeOK
<1>6. CASE VisitOther
  BY <1>6, <1>a, <1>b, WinnerTyped, ChildTyped DEF VisitOther, ChildAccepted, AtChild, TypeOK
<1>7. CASE VisitRegular
  <2>1. /\ AtChild /\ ChildPath \in Seq(Names) /\ ChildMeta.isize \in Word
        /\ Advanced \in Seq(Frames) /\ Winner.ino \in Word
        /\ ChildMeta.isize <= MAX_SIZE /\ Listed \in Seq(Entries)
    BY <1>7, ChildTyped, WinnerTyped DEF VisitRegular, ChildAccepted
  <2>2. LowerBound(Inos, Winner.ino) \in Nat \ {0}
    BY <2>1, InoSearch DEF TypeOK, Sorted
  <2>3. FileOK(file')
    BY <1>7, <2>1, <2>2 DEF VisitRegular, FileOK
  <2> QED BY <1>7, <1>b, <2>1, <2>3 DEF VisitRegular, AtChild, TypeOK
<1>8. CASE LeaveDirectory
  <2>1. stack' \in Seq(Frames)
    BY <1>8 DEF LeaveDirectory, Front, TypeOK
  <2>2. /\ pc' \in {"walk", "done"} /\ rc' = rc /\ pc = "walk" /\ file' = file
        /\ UNCHANGED <<log, mode, dirents, inodes, out>>
    BY <1>8 DEF LeaveDirectory
  <2>3. rc \in {0, -1} /\ out \in Seq(Entries)
    BY DEF TypeOK
  <2> QED BY <1>a, <1>b, <2>1, <2>2, <2>3
<1>9. CASE ReplayFragment
  <2>1. file.next + 1 \in Nat \ {0}
    BY <1>a DEF FileOK
  <2>2. \/ file' = [file EXCEPT !.next = file.next + 1]
        \/ file' = [file EXCEPT !.next = file.next + 1,
                                !.content = Written(file.content, inodes[file.next], file.next)]
    BY <1>9 DEF ReplayFragment
  <2>3. FileOK(file')
    BY <1>a, <2>1, <2>2 DEF FileOK
  <2> QED BY <1>9, <1>b, <2>3 DEF ReplayFragment, TypeOK
<1>10. CASE RejectFragment \/ RejectWrite
  BY <1>0, <1>10, <1>a, <1>b DEF RejectFragment, RejectWrite, Fail
<1>11. CASE WriteFile
  BY <1>11, <1>a, <1>b DEF WriteFile, TypeOK
<1>12. CASE Returned
  BY <1>1, <1>12 DEF Returned
<1> QED
  BY <1>1, <1>2, <1>3, <1>4, <1>5, <1>6, <1>7, <1>8, <1>9, <1>10, <1>11, <1>12
  DEF Next, walk_directory, extract_regular_file

\* The nodes walked are those of the log, in order.
LEMMA SortedHolds == Spec => [](TypeOK /\ Sorted)
  BY TypeInit, TypeStep, PTL DEF Spec

\* The types hold for every log; in particular the searches always find a
\* place, and no file larger than the cap is ever put together.
THEOREM TypeCorrect == Spec => []TypeOK
  BY SortedHolds, PTL

-----------------------------------------------------------------------------
(* The walk.                                                               *)

\* Every step keeps the recursion within its bound.
LEMMA StackStep ==
    ASSUME TypeOK, Sorted, StackBounded, [Next]_vars
    PROVE  StackBounded'
<1> USE DEF StackBounded
<1>0. MAX_DIR_DEPTH \in Nat /\ stack \in Seq(Frames) /\ Len(<<>>) = 0
  BY FsTreeAssumption DEF TypeOK
<1>1. CASE stack' = stack
  BY <1>1
<1>2. CASE stack' = <<>>
  BY <1>0, <1>2
<1>3. CASE Start
  <2>1. stack' = <<>> \/ \E frame : stack' = <<frame>>
    BY <1>3 DEF Start, Fail
  <2>2. ASSUME NEW frame, stack' = <<frame>> PROVE StackBounded'
    BY <1>0, <2>2
  <2> QED BY <1>2, <2>1, <2>2
<1>4. ASSUME AtChild, stack' = Advanced PROVE StackBounded'
  BY <1>4, WinnerTyped
<1>5. CASE EnterDirectory
  <2>1. /\ AtChild /\ Len(stack) <= MAX_DIR_DEPTH
        /\ stack' = Append(Advanced, Frame(Winner.ino, ChildPath, ChildLen))
    BY <1>5 DEF EnterDirectory, ChildAccepted, Enterable
  <2>2. Len(stack') = Len(stack) + 1
    BY <2>1, WinnerTyped
  <2> QED BY <1>0, <2>1, <2>2
<1>6. CASE LeaveDirectory
  <2>1. /\ stack' = SubSeq(stack, 1, Len(stack) - 1)
        /\ Len(stack) \in Nat \ {0} /\ stack \in Seq(Frames)
    BY <1>0, <1>6 DEF LeaveDirectory, Front
  <2>2. PICK n \in Nat \ {0} : n = Len(stack)
    BY <2>1
  <2>3. n - 1 \in Int /\ \A i \in 1 .. n - 1 : stack[i] \in Frames
    BY <1>0, <2>2
  <2>4. Len(SubSeq(stack, 1, n - 1)) = IF 1 <= n - 1 THEN (n - 1) - 1 + 1 ELSE 0
    BY <2>3, SubSeqProperties
  <2>5. Len(stack') = n - 1
    BY <2>1, <2>2, <2>4
  <2> QED BY <1>0, <2>2, <2>5
<1>7. CASE SkipDeleted \/ VisitOther \/ VisitRegular
  BY <1>4, <1>7 DEF SkipDeleted, VisitOther, VisitRegular, ChildAccepted
<1>8. CASE RejectChild \/ RejectDirectory \/ RejectRegular \/ RejectFragment
           \/ RejectWrite
  BY <1>2, <1>8 DEF RejectChild, RejectDirectory, RejectRegular, RejectFragment,
     RejectWrite, Fail
<1>9. CASE ReplayFragment \/ WriteFile \/ Returned \/ UNCHANGED vars
  BY <1>1, <1>9 DEF ReplayFragment, WriteFile, Returned, vars
<1> QED
  BY <1>3, <1>5, <1>6, <1>7, <1>8, <1>9
  DEF Next, walk_directory, extract_regular_file

\* Whatever the log holds, a directory that contains itself among it, the
\* recursion stays within MAX_DIR_DEPTH + 1 frames.
THEOREM StackBoundedHolds == Spec => []StackBounded
<1>1. Init => StackBounded
  BY FsTreeAssumption DEF Init, StackBounded
<1>2. (TypeOK /\ Sorted) /\ StackBounded /\ [Next]_vars => StackBounded'
  BY StackStep
<1> QED BY <1>1, <1>2, SortedHolds, PTL DEF Spec

\* Every step that lists an entry lists a live one.
LEMMA LiveStep ==
    ASSUME TypeOK, Sorted, [Next]_vars, Len(out') > Len(out)
    PROVE  \E i \in 1 .. Len(log.dirents) : ListsLive(log.dirents[i])
<1>0. Len(<<>>) = 0 /\ out \in Seq(Entries) /\ Len(out) \in Nat
  BY DEF TypeOK
<1>1. out' # out /\ out' # <<>>
  BY <1>0
<1>2. CASE EnterDirectory \/ VisitOther \/ VisitRegular
  <2>1. AtChild /\ ChildAccepted /\ Winner.ino # 0 /\ out' = Listed
    BY <1>2 DEF EnterDirectory, VisitOther, VisitRegular, ChildAccepted
  <2>2. Live(Winner) /\ Winner.pino = Top.pino
    BY <2>1, WinnerIsNewest, WinnerTyped DEF Live
  <2> DEFINE entry == ListEntry(ChildPath, ChildMeta.kind, ChildMeta.isize)
  <2>3. out' = Append(out, entry) /\ entry.path = Append(Top.path, Winner.name)
    BY <2>1 DEF Listed, ListEntry, ChildPath
  <2> HIDE DEF entry
  <2>4. out'[Len(out) + 1] = entry
    BY <1>0, <2>3
  <2>5. Len(stack') > Len(stack) => stack'[Len(stack) + 1].pino = Winner.ino
    <3>1. Advanced \in Seq(Frames) /\ Len(Advanced) = Len(stack) /\ Len(stack) \in Nat
      BY <2>1, WinnerTyped, RunFound
    <3>2. CASE EnterDirectory
      <4> DEFINE sub == Frame(Winner.ino, ChildPath, ChildLen)
      <4>1. stack' = Append(Advanced, sub) /\ sub.pino = Winner.ino
        BY <3>2 DEF EnterDirectory, Frame
      <4> HIDE DEF sub
      <4>2. stack'[Len(stack) + 1] = sub
        BY <3>1, <4>1
      <4> QED BY <4>1, <4>2
    <3>3. CASE VisitOther \/ VisitRegular
      BY <3>1, <3>3 DEF VisitOther, VisitRegular
    <3> QED BY <1>2, <3>2, <3>3
  <2>6. ListsLive(Winner)
    BY <2>2, <2>3, <2>4, <2>5 DEF ListsLive
  <2>7. PICK i \in 1 .. Len(log.dirents) : log.dirents[i] = Winner
    BY <2>1, WinnerIsNewest
  <2> QED BY <2>6, <2>7
<1>3. CASE out' = out \/ out' = <<>>
  BY <1>1, <1>3
<1>4. CASE Start \/ SkipDeleted \/ RejectChild \/ RejectDirectory \/ RejectRegular
           \/ LeaveDirectory \/ extract_regular_file \/ Returned \/ UNCHANGED vars
  BY <1>3, <1>4 DEF Start, SkipDeleted, RejectChild, RejectDirectory, RejectRegular,
     LeaveDirectory, extract_regular_file, ReplayFragment, RejectFragment,
     WriteFile, RejectWrite, Returned, vars, Fail
<1> QED BY <1>2, <1>4 DEF Next, walk_directory

\* Only live names are listed and entered, in whatever order the log holds
\* the dirents and whatever order qsort leaves equal ones in.
THEOREM OnlyLiveEntriesHolds == Spec => OnlyLiveEntries
<1>1. (TypeOK /\ Sorted) /\ [Next]_vars
        => [Len(out') > Len(out) =>
              \E i \in 1 .. Len(log.dirents) : ListsLive(log.dirents[i])]_vars
  BY LiveStep
<1> QED BY <1>1, SortedHolds, PTL DEF Spec, OnlyLiveEntries

-----------------------------------------------------------------------------
(* The content of a file.  While it is put together, every byte comes from *)
(* the last of the fragments replayed so far that cover it.                *)

Behind(ino, b, n) == {i \in Covering(ino, b) : i < n}

Replayed ==
    pc = "file" =>
      /\ DOMAIN file.content = 0 .. file.isize - 1
      /\ file.next <= Len(inodes) + 1
      /\ \A k \in file.next .. Len(inodes) : inodes[k].ino >= file.ino
      /\ \E i \in 1 .. Len(inodes) :
           IsNewest(i, NodesOf(file.ino)) /\ inodes[i].isize = file.isize
      /\ \A b \in 0 .. file.isize - 1 :
           LET C == Behind(file.ino, b, file.next)
           IN  IF C = {} THEN file.content[b] = 0
               ELSE file.content[b] \in C /\ \A k \in C : k <= file.content[b]

DiskInv == NewestFragmentWins /\ (pc = "start" => DOMAIN disk = {})

\* What is left of d bytes at o, cut at z.
LEMMA CutAtEnd ==
    ASSUME NEW z \in Nat, NEW o \in Nat, NEW d \in Nat, d # 0, o < z,
           NEW u, u = IF o + d > z THEN z - o ELSE d
    PROVE  u \in Nat /\ o + u <= z /\ u <= d /\ (u = d \/ o + u = z)
<1>1. CASE o + d > z
  <2>1. u = z - o
    BY <1>1
  <2> QED BY <1>1, <2>1
<1>2. CASE ~ (o + d > z)
  <2>1. u = d
    BY <1>2
  <2> QED BY <1>2, <2>1
<1> QED BY <1>1, <1>2

\* `usable' cuts a fragment at the end of the file and nowhere else.
LEMMA WrittenBytes ==
    ASSUME TypeOK, pc = "file", NEW r \in Inodes, ~Skipped(r), NEW source,
           DOMAIN file.content = 0 .. file.isize - 1
    PROVE  /\ DOMAIN Written(file.content, r, source) = 0 .. file.isize - 1
           /\ \A b \in 0 .. file.isize - 1 :
                Written(file.content, r, source)[b] =
                  IF r.frag_offset <= b /\ b < r.frag_offset + r.dsize
                  THEN source ELSE file.content[b]
<1>1. PICK z \in Nat, o \in Nat, d \in Nat :
        z = file.isize /\ o = r.frag_offset /\ d = r.dsize
  BY WordsAreNat DEF TypeOK, Inodes
<1>2. d # 0 /\ o < z
  BY <1>1 DEF Skipped
<1> DEFINE u == IF o + d > z THEN z - o ELSE d
           bytes == o .. o + u - 1
<1>3. /\ bytes \subseteq 0 .. z - 1
      /\ \A b \in 0 .. z - 1 : b \in bytes <=> (o <= b /\ b < o + d)
  <2>1. /\ u \in Nat /\ o + u <= z /\ u <= d
        /\ u = d \/ o + u = z
    BY <1>2, CutAtEnd
  <2> HIDE DEF u
  <2>2. ASSUME NEW b \in bytes PROVE b \in 0 .. z - 1
    BY <1>1, <2>1
  <2>3. ASSUME NEW b \in 0 .. z - 1
        PROVE  b \in bytes <=> (o <= b /\ b < o + d)
    <3>1. CASE u = d
      BY <1>1, <2>1, <3>1
    <3>2. CASE o + u = z
      BY <1>1, <2>1, <3>2
    <3> QED BY <2>1, <3>1, <3>2
  <2> QED BY <2>2, <2>3
<1>4. Usable(r) = u
  BY <1>1 DEF Usable
<1>5. Written(file.content, r, source) =
        [b \in (0 .. z - 1) \cup bytes |->
           IF b \in bytes THEN source ELSE file.content[b]]
  BY <1>1, <1>4 DEF Written
<1> HIDE DEF bytes
<1>6. (0 .. z - 1) \cup bytes = 0 .. z - 1
  BY <1>3
<1>7. Written(file.content, r, source) =
        [b \in 0 .. z - 1 |-> IF b \in bytes THEN source ELSE file.content[b]]
  BY <1>5, <1>6
<1> QED BY <1>1, <1>3, <1>7

\* A fragment that is not replayed covers no byte of the file.
LEMMA SkippedBytes ==
    ASSUME TypeOK, NEW r \in Inodes, Skipped(r), NEW b \in 0 .. file.isize - 1
    PROVE  ~ (r.frag_offset <= b /\ b < r.frag_offset + r.dsize)
<1>1. PICK z \in Nat, o \in Nat, d \in Nat :
        z = file.isize /\ o = r.frag_offset /\ d = r.dsize
  BY WordsAreNat DEF TypeOK, Inodes
<1>2. d = 0 \/ o >= z
  BY <1>1 DEF Skipped
<1> QED BY <1>1, <1>2

\* A fragment replayed makes it the newest for the bytes it covers.
LEMMA ReplayStep ==
    ASSUME TypeOK, Sorted, Replayed, ReplayFragment
    PROVE  Replayed'
<1> DEFINE n == file.next
           r == inodes[n]
           ino == file.ino
<1>1. /\ pc = "file" /\ pc' = "file" /\ inodes' = inodes
      /\ file.isize > 0 /\ n <= Len(inodes) /\ r.ino = ino
  BY DEF ReplayFragment, MoreFragments
<1>2. /\ n \in Nat \ {0} /\ Len(inodes) \in Nat /\ n \in 1 .. Len(inodes)
      /\ file.isize \in Nat /\ ino \in Nat
  BY <1>1, WordsAreNat DEF TypeOK
<1>3. r \in Inodes
  BY <1>2, InodeTyped DEF TypeOK
<1>4. /\ DOMAIN file.content = 0 .. file.isize - 1
      /\ \A k \in n .. Len(inodes) : inodes[k].ino >= ino
      /\ \E i \in 1 .. Len(inodes) :
           IsNewest(i, NodesOf(ino)) /\ inodes[i].isize = file.isize
      /\ \A b \in 0 .. file.isize - 1 :
           LET C == Behind(ino, b, n)
           IN  IF C = {} THEN file.content[b] = 0
               ELSE file.content[b] \in C /\ \A k \in C : k <= file.content[b]
  BY <1>1 DEF Replayed
<1>5. /\ file'.next = n + 1 /\ file'.ino = ino /\ file'.isize = file.isize
      /\ file'.content = IF Skipped(r) THEN file.content
                         ELSE Written(file.content, r, n)
  BY DEF ReplayFragment, TypeOK
<1> DEFINE covers(b) == r.frag_offset <= b /\ b < r.frag_offset + r.dsize
<1>6. /\ DOMAIN file'.content = 0 .. file.isize - 1
      /\ \A b \in 0 .. file.isize - 1 :
           file'.content[b] = IF covers(b) THEN n ELSE file.content[b]
  <2>1. CASE Skipped(r)
    BY <1>3, <1>4, <1>5, <2>1, SkippedBytes
  <2>2. CASE ~Skipped(r)
    BY <1>1, <1>3, <1>4, <1>5, <2>2, WrittenBytes
  <2> QED BY <2>1, <2>2
<1>7. ASSUME NEW b \in 0 .. file.isize - 1
      PROVE  Behind(ino, b, n + 1) =
               Behind(ino, b, n) \cup (IF covers(b) THEN {n} ELSE {})
  BY <1>1, <1>2 DEF Behind, Covering
<1> HIDE DEF n, r, ino, covers
<1>8. ASSUME NEW b \in 0 .. file.isize - 1
      PROVE  LET C == Behind(ino, b, n + 1)
             IN  IF C = {} THEN file'.content[b] = 0
                 ELSE file'.content[b] \in C /\ \A k \in C : k <= file'.content[b]
  <2>1. \A k \in Behind(ino, b, n) : k <= n
    BY <1>2 DEF Behind, Covering
  <2>2. CASE covers(b)
    BY <1>2, <1>6, <1>7, <2>1, <2>2
  <2>3. CASE ~covers(b)
    <3>1. Behind(ino, b, n + 1) = Behind(ino, b, n)
      BY <1>7, <2>3
    <3> QED BY <1>4, <1>6, <2>3, <3>1
  <2> QED BY <2>2, <2>3
<1>9. n + 1 <= Len(inodes) + 1 /\ \A k \in n + 1 .. Len(inodes) : k \in n .. Len(inodes)
  BY <1>1, <1>2 DEF n
<1>10. \A i, b, m : /\ IsNewest(i, NodesOf(b))' <=> IsNewest(i, NodesOf(b))
                    /\ Behind(i, b, m)' = Behind(i, b, m)
  BY <1>1 DEF IsNewest, NodesOf, Behind, Covering
<1> QED BY <1>1, <1>4, <1>5, <1>6, <1>8, <1>9, <1>10 DEF Replayed

\* Before the first fragment every byte is zero, and rightly so.
LEMMA ReplayStart ==
    ASSUME TypeOK, Sorted, VisitRegular
    PROVE  Replayed'
<1> DEFINE ino == Winner.ino
           lo == LowerBound(Inos, ino)
<1>1. /\ ChildAccepted /\ inodes' = inodes
      /\ file' = [path |-> ChildPath, ino |-> ino, isize |-> ChildMeta.isize,
                  next |-> lo, content |-> [b \in 0 .. ChildMeta.isize - 1 |-> 0]]
  BY DEF VisitRegular
<1>2. ino \in Word
  BY <1>1, WinnerTyped DEF ChildAccepted
<1>3. /\ lo \in 1 .. Len(inodes) + 1
      /\ \A i \in 1 .. lo - 1 : inodes[i].ino < ino
      /\ \A i \in lo .. Len(inodes) : inodes[i].ino >= ino
  BY <1>2, InoSearch DEF TypeOK, Sorted
<1>4. \E i \in 1 .. Len(inodes) :
        IsNewest(i, NodesOf(ino)) /\ inodes[i].isize = ChildMeta.isize
  BY <1>1, ChildTyped
<1> HIDE DEF lo, ino
<1>5. ASSUME NEW b PROVE Behind(ino, b, lo) = {}
  <2>1. SUFFICES ASSUME NEW i \in Behind(ino, b, lo) PROVE FALSE
    OBVIOUS
  <2>2. i \in 1 .. Len(inodes) /\ inodes[i].ino = ino /\ i < lo
    BY DEF Behind, Covering
  <2>3. i \in 1 .. lo - 1
    BY <1>3, <2>2 DEF TypeOK
  <2>4. ino \in Nat
    BY <1>2, WordsAreNat
  <2> QED BY <1>3, <2>2, <2>3, <2>4
<1>6. \A i, b, m : /\ IsNewest(i, NodesOf(b))' <=> IsNewest(i, NodesOf(b))
                   /\ Behind(i, b, m)' = Behind(i, b, m)
  BY <1>1 DEF IsNewest, NodesOf, Behind, Covering
<1>7. Len(inodes) \in Nat /\ lo <= Len(inodes) + 1
  BY <1>3 DEF TypeOK
<1> QED BY <1>1, <1>3, <1>4, <1>5, <1>6, <1>7 DEF Replayed

\* Every step keeps the buffer equal to the fragments replayed so far.
LEMMA ReplayedStep ==
    ASSUME TypeOK, Sorted, Replayed, [Next]_vars
    PROVE  Replayed'
<1>1. CASE pc' # "file"
  BY <1>1 DEF Replayed
<1>2. CASE UNCHANGED vars \/ Returned
  BY <1>2 DEF vars, Returned, Replayed, IsNewest, NodesOf, Behind, Covering
<1>3. CASE Start \/ SkipDeleted \/ RejectChild \/ EnterDirectory \/ RejectDirectory
           \/ VisitOther \/ RejectRegular \/ LeaveDirectory \/ RejectFragment
           \/ WriteFile \/ RejectWrite
  BY <1>1, <1>3 DEF Start, SkipDeleted, RejectChild, EnterDirectory,
     RejectDirectory, VisitOther, RejectRegular, LeaveDirectory, RejectFragment,
     WriteFile, RejectWrite, Fail, AtChild, ChildAccepted
<1> QED
  BY <1>2, <1>3, ReplayStep, ReplayStart DEF Next, walk_directory, extract_regular_file

\* What a file on disk is, for the nodes as they are sorted.
Faithful(f) ==
    /\ \E n \in 0 .. f.isize :
         DOMAIN f.content = 0 .. n - 1 /\ (n = f.isize \/ f.torn)
    /\ \A b \in DOMAIN f.content :
         IF Covering(f.ino, b) = {} THEN f.content[b] = 0
         ELSE IsNewest(f.content[b], Covering(f.ino, b))
    /\ \E i \in 1 .. Len(inodes) :
         /\ IsNewest(i, {k \in 1 .. Len(inodes) : inodes[k].ino = f.ino})
         /\ inodes[i].isize = f.isize

AllFaithful ==
    \A path \in DOMAIN disk : disk[path].kind = "reg" => Faithful(disk[path])

\* Once the run of the inode is replayed, nothing that covers a byte is left,
\* and what is written of the buffer, the whole or a beginning, is right.
LEMMA RegularIsFaithful ==
    ASSUME TypeOK, Sorted, Replayed, pc = "file", ~MoreFragments,
           NEW m \in 0 .. file.isize, NEW content, NEW torn,
           DOMAIN content = 0 .. m - 1,
           \A b \in DOMAIN content : content[b] = file.content[b],
           m = file.isize \/ torn
    PROVE  Faithful(Regular(content, torn))
<1> DEFINE ino == file.ino
           n == file.next
<1>1. /\ DOMAIN file.content = 0 .. file.isize - 1
      /\ \A k \in n .. Len(inodes) : inodes[k].ino >= ino
      /\ \E i \in 1 .. Len(inodes) :
           IsNewest(i, NodesOf(ino)) /\ inodes[i].isize = file.isize
      /\ \A b \in 0 .. file.isize - 1 :
           LET C == Behind(ino, b, n)
           IN  IF C = {} THEN file.content[b] = 0
               ELSE file.content[b] \in C /\ \A k \in C : k <= file.content[b]
  BY DEF Replayed
<1>2. /\ n \in Nat \ {0} /\ Len(inodes) \in Nat /\ ino \in Nat /\ file.isize \in Nat
  BY WordsAreNat DEF TypeOK
<1>3. file.isize = 0 \/ n > Len(inodes) \/ inodes[n].ino # ino
  BY <1>2 DEF MoreFragments
<1> DEFINE f == Regular(content, torn)
<1>4. f.ino = ino /\ f.isize = file.isize /\ f.content = content /\ f.torn = torn
  BY DEF Regular
<1> HIDE DEF ino, n
<1>5. ASSUME NEW b \in 0 .. file.isize - 1, NEW k \in Covering(ino, b)
      PROVE  k < n
  <2>1. k \in 1 .. Len(inodes) /\ inodes[k].ino = ino
    BY DEF Covering
  <2>2. SUFFICES ASSUME k >= n PROVE FALSE
    BY <1>2, <2>1
  <2>3. n \in 1 .. Len(inodes) /\ n \in n .. Len(inodes)
    BY <1>2, <2>1, <2>2
  <2>4. inodes[n].ino # ino
    BY <1>2, <1>3, <1>5, <2>3
  <2>5. inodes[n].ino >= ino /\ inodes[n].ino \in Nat
    BY <1>1, <2>3, InodeTyped DEF TypeOK
  <2>6. k = n \/ inode_le(inodes[n], inodes[k])
    BY <1>2, <2>1, <2>2, <2>3 DEF Sorted, InodesSorted
  <2>7. inodes[n].ino <= ino
    BY <1>2, <2>1, <2>5, <2>6 DEF inode_le
  <2> QED BY <1>2, <2>4, <2>5, <2>7
<1>6. ASSUME NEW b \in 0 .. file.isize - 1
      PROVE  IF Covering(ino, b) = {} THEN file.content[b] = 0
             ELSE IsNewest(file.content[b], Covering(ino, b))
  <2>1. Behind(ino, b, n) = Covering(ino, b)
    BY <1>5 DEF Behind
  <2>2. Covering(ino, b) \subseteq NodesOf(ino)
    BY DEF Covering, NodesOf
  <2>3. CASE Covering(ino, b) # {}
    <3>1. /\ file.content[b] \in Covering(ino, b)
          /\ \A k \in Covering(ino, b) : k <= file.content[b]
      BY <1>1, <2>1, <2>3
    <3>2. \A k \in Covering(ino, b) :
            inodes[k].version <= inodes[file.content[b]].version
      BY <2>2, <3>1, LaterIsNewer
    <3> QED BY <2>3, <3>1, <3>2 DEF IsNewest
  <2>4. CASE Covering(ino, b) = {}
    BY <1>1, <2>1, <2>4
  <2> QED BY <2>3, <2>4
<1>7. NodesOf(ino) = {k \in 1 .. Len(inodes) : inodes[k].ino = ino}
  BY DEF NodesOf
<1>8. \A b \in DOMAIN content : b \in 0 .. file.isize - 1
  BY <1>2
<1>9. \A b \in DOMAIN content :
        IF Covering(ino, b) = {} THEN content[b] = 0
        ELSE IsNewest(content[b], Covering(ino, b))
  BY <1>6, <1>8
<1> HIDE DEF f
<1>10. Faithful(f)
  <2>1. DOMAIN f.content = 0 .. m - 1 /\ (m = f.isize \/ f.torn) /\ m \in 0 .. f.isize
    BY <1>4
  <2> QED BY <1>1, <1>4, <1>7, <1>9, <2>1 DEF Faithful
<1> QED BY <1>10 DEF f

\* What a write leaves on disk, whether fclose or remove fails or not.
LEMMA WrittenIsFaithful ==
    ASSUME TypeOK, Sorted, Replayed, pc = "file", ~MoreFragments,
           NEW f \in {Regular(file.content, FALSE)} \cup Torn
    PROVE  Faithful(f)
<1>1. file.isize \in Nat /\ DOMAIN file.content = 0 .. file.isize - 1
  BY WordsAreNat DEF TypeOK, Replayed
<1>2. CASE f = Regular(file.content, FALSE)
  <2>1. file.isize \in 0 .. file.isize
    BY <1>1
  <2> QED BY <1>1, <1>2, <2>1, RegularIsFaithful
<1>3. CASE f \in Torn
  <2>1. PICK n \in 0 .. file.isize :
          f = Regular([b \in 0 .. n - 1 |-> file.content[b]], TRUE)
    BY <1>3 DEF Torn
  <2> DEFINE part == [b \in 0 .. n - 1 |-> file.content[b]]
  <2>2. DOMAIN part = 0 .. n - 1 /\ \A b \in DOMAIN part : part[b] = file.content[b]
    OBVIOUS
  <2>3. f = Regular(part, TRUE)
    BY <2>1
  <2> HIDE DEF part
  <2> QED BY <2>2, <2>3, RegularIsFaithful
<1> QED BY <1>2, <1>3

\* Every step keeps what is on disk equal to its newest fragments.
LEMMA DiskStep ==
    ASSUME TypeOK, Sorted, Replayed, DiskInv, [Next]_vars
    PROVE  DiskInv'
<1>1. NewestFragmentWins <=> AllFaithful
  BY DEF NewestFragmentWins, AllFaithful, Faithful
<1>2. NewestFragmentWins' <=> AllFaithful'
  BY DEF NewestFragmentWins, AllFaithful, Faithful
<1>3. CASE Start
  <2>1. DOMAIN disk' = {} /\ pc' # "start"
    BY <1>3 DEF Start, DiskInv, Fail
  <2> QED BY <1>2, <2>1 DEF DiskInv, AllFaithful
<1>4. ASSUME inodes' = inodes, pc' = pc \/ pc' # "start",
             \A path \in DOMAIN disk' : disk'[path].kind = "reg" =>
               \/ path \in DOMAIN disk /\ disk'[path] = disk[path]
               \/ Faithful(disk'[path]),
             pc = "start" => disk' = disk
      PROVE  DiskInv'
  <2>1. \A path \in DOMAIN disk' : disk'[path].kind = "reg" => Faithful(disk'[path])
    BY <1>1, <1>4 DEF DiskInv, AllFaithful
  <2>2. AllFaithful'
    BY <1>4, <2>1 DEF AllFaithful, Faithful, Covering, IsNewest
  <2> QED BY <1>2, <1>4, <2>2 DEF DiskInv
<1>5. CASE disk' = disk /\ inodes' = inodes /\ (pc' = pc \/ pc' # "start")
  BY <1>4, <1>5
<1>6. CASE EnterDirectory \/ RejectDirectory
  <2>1. disk' = disk \/ disk' = Put(disk, ChildPath, Dir)
    BY <1>6 DEF EnterDirectory, RejectDirectory
  <2>2. inodes' = inodes /\ (pc' = pc \/ pc' # "start") /\ pc # "start"
    BY <1>6 DEF EnterDirectory, RejectDirectory, Fail, ChildAccepted, AtChild
  <2> QED BY <1>4, <1>5, <2>1, <2>2 DEF Put, Dir
<1>7. ASSUME inodes' = inodes, pc' # "start", pc = "file", ~MoreFragments,
             NEW f \in {Regular(file.content, FALSE)} \cup Torn,
             disk' = Put(disk, file.path, f)
      PROVE  DiskInv'
  <2>1. Faithful(f)
    BY <1>7, WrittenIsFaithful
  <2> QED BY <1>4, <1>7, <2>1 DEF Put
<1>8. CASE WriteFile \/ RejectWrite
  <2>1. inodes' = inodes /\ pc' # "start" /\ pc = "file" /\ ~MoreFragments
    BY <1>8 DEF WriteFile, RejectWrite, Fail
  <2>2. \/ disk' = disk \/ disk' = Without(disk, file.path)
        \/ \E f \in {Regular(file.content, FALSE)} \cup Torn : disk' = Put(disk, file.path, f)
    BY <1>8 DEF WriteFile, RejectWrite
  <2>3. CASE disk' = disk \/ disk' = Without(disk, file.path)
    BY <1>4, <1>5, <2>1, <2>3 DEF Without
  <2>4. CASE \E f \in {Regular(file.content, FALSE)} \cup Torn : disk' = Put(disk, file.path, f)
    BY <1>7, <2>1, <2>4
  <2> QED BY <2>2, <2>3, <2>4
<1>9. CASE SkipDeleted \/ RejectChild \/ VisitOther \/ VisitRegular \/ RejectRegular
           \/ LeaveDirectory \/ ReplayFragment \/ RejectFragment \/ Returned
           \/ UNCHANGED vars
  BY <1>5, <1>9 DEF SkipDeleted, RejectChild, VisitOther, VisitRegular,
     RejectRegular, LeaveDirectory, ReplayFragment, RejectFragment, Returned,
     vars, Fail, AtChild, ChildAccepted
<1> QED
  BY <1>3, <1>6, <1>8, <1>9 DEF Next, walk_directory, extract_regular_file

\* Initially there is no buffer and no file.
LEMMA ContentInit == Init => Replayed /\ DiskInv
  BY DEF Init, Replayed, DiskInv, NewestFragmentWins

\* The buffer and the disk hold what the newest fragments say.
LEMMA ContentHolds == Spec => [](Replayed /\ DiskInv)
<1>1. (TypeOK /\ Sorted) /\ (Replayed /\ DiskInv) /\ [Next]_vars
        => (Replayed /\ DiskInv)'
  BY ReplayedStep, DiskStep
<1> QED BY <1>1, ContentInit, SortedHolds, PTL DEF Spec

\* No fragment, whatever offset and length it declares, is written outside
\* the buffer of the file's size.
THEOREM ReplayInBufferHolds == Spec => []ReplayInBuffer
<1>1. Replayed /\ DiskInv => ReplayInBuffer
  BY DEF Replayed, ReplayInBuffer
<1> QED BY <1>1, ContentHolds, PTL

\* Whatever the log holds and whichever calls fail, a file on disk is the one
\* its newest nodes describe, byte by byte, or a beginning of it if the file's
\* own fclose or remove has failed.
THEOREM NewestFragmentWinsHolds == Spec => []NewestFragmentWins
<1>1. Replayed /\ DiskInv => NewestFragmentWins
  BY DEF DiskInv
<1> QED BY <1>1, ContentHolds, PTL

-----------------------------------------------------------------------------
(* The disk and the list.                                                  *)

IsList(l) == \E S : l \in Seq(S)

\* The list after one more entry.
LEMMA ListGrows ==
    ASSUME NEW l, IsList(l), NEW x
    PROVE  /\ IsList(Append(l, x)) /\ Len(l) \in Nat
           /\ Len(Append(l, x)) = Len(l) + 1 /\ Append(l, x)[Len(l) + 1] = x
           /\ \A i \in 1 .. Len(l) : i \in 1 .. Len(l) + 1 /\ Append(l, x)[i] = l[i]
           /\ \A i \in 1 .. Len(l) + 1 : i \in 1 .. Len(l) \/ i = Len(l) + 1
           /\ Len(l) + 1 \in 1 .. Len(l) + 1
<1>1. PICK S : l \in Seq(S)
  BY DEF IsList
<1>2. l \in Seq(S \cup {x})
  BY <1>1
<1>3. Append(l, x) \in Seq(S \cup {x})
  BY <1>2
<1> QED BY <1>2, <1>3 DEF IsList

\* Something is listed, and what it is is put on disk where nothing else was.
LEMMA ThingMirrored ==
    ASSUME NEW tree, NEW list, NEW path, NEW x, NEW e,
           IsList(list), Mirrors(tree, list), e.path = path, e.kind = x.kind,
           path \in DOMAIN tree => tree[path].kind = x.kind
    PROVE  Mirrors(Put(tree, path, x), Append(list, e))
<1> DEFINE t == Put(tree, path, x)
           l == Append(list, e)
<1>1. /\ DOMAIN t = DOMAIN tree \cup {path} /\ t[path] = x
      /\ \A q \in DOMAIN tree : q # path => t[q] = tree[q]
  BY DEF Put
<1>2. /\ Len(list) \in Nat /\ Len(l) = Len(list) + 1 /\ l[Len(list) + 1] = e
      /\ \A i \in 1 .. Len(list) : i \in 1 .. Len(list) + 1 /\ l[i] = list[i]
      /\ \A i \in 1 .. Len(list) + 1 : i \in 1 .. Len(list) \/ i = Len(list) + 1
      /\ Len(list) + 1 \in 1 .. Len(list) + 1
  BY ListGrows
<1> HIDE DEF t, l
<1>3. ASSUME NEW q \in DOMAIN t
      PROVE  \E i \in 1 .. Len(l) : l[i].path = q /\ l[i].kind = t[q].kind
  <2>1. CASE q = path
    BY <1>1, <1>2, <2>1
  <2>2. CASE q # path
    <3>1. PICK i \in 1 .. Len(list) : list[i].path = q /\ list[i].kind = tree[q].kind
      BY <1>1, <2>2 DEF Mirrors
    <3> QED BY <1>1, <1>2, <2>2, <3>1
  <2> QED BY <2>1, <2>2
<1>4. ASSUME NEW i \in 1 .. Len(l), l[i].kind # "other"
      PROVE  l[i].path \in DOMAIN t /\ t[l[i].path].kind = l[i].kind
  <2>1. CASE i \in 1 .. Len(list)
    <3>1. /\ l[i] = list[i] /\ list[i].path \in DOMAIN tree
          /\ tree[list[i].path].kind = list[i].kind
      BY <1>2, <1>4, <2>1 DEF Mirrors
    <3> QED BY <1>1, <3>1
  <2>2. CASE i = Len(list) + 1
    BY <1>1, <1>2, <2>2
  <2> QED BY <1>2, <2>1, <2>2
<1>5. Mirrors(t, l)
  BY <1>3, <1>4 DEF Mirrors
<1> QED BY <1>5 DEF t, l

\* Something is listed of which nothing is put on disk.
LEMMA OtherMirrored ==
    ASSUME NEW tree, NEW list, NEW e, IsList(list), Mirrors(tree, list), e.kind = "other"
    PROVE  Mirrors(tree, Append(list, e))
<1> DEFINE l == Append(list, e)
<1>1. /\ Len(list) \in Nat /\ Len(l) = Len(list) + 1 /\ l[Len(list) + 1] = e
      /\ \A i \in 1 .. Len(list) : i \in 1 .. Len(list) + 1 /\ l[i] = list[i]
      /\ \A i \in 1 .. Len(list) + 1 : i \in 1 .. Len(list) \/ i = Len(list) + 1
  BY ListGrows
<1> HIDE DEF l
<1>2. ASSUME NEW q \in DOMAIN tree
      PROVE  \E i \in 1 .. Len(l) : l[i].path = q /\ l[i].kind = tree[q].kind
  <2>1. PICK i \in 1 .. Len(list) : list[i].path = q /\ list[i].kind = tree[q].kind
    BY DEF Mirrors
  <2> QED BY <1>1, <2>1
<1>3. ASSUME NEW i \in 1 .. Len(l), l[i].kind # "other"
      PROVE  l[i].path \in DOMAIN tree /\ tree[l[i].path].kind = l[i].kind
  <2>1. i \in 1 .. Len(list) /\ l[i] = list[i]
    BY <1>1, <1>3
  <2> QED BY <1>3, <2>1 DEF Mirrors
<1>4. Mirrors(tree, l)
  BY <1>2, <1>3 DEF Mirrors
<1> QED BY <1>4 DEF l

\* Without its last entry.
LEMMA FrontOfList ==
    ASSUME NEW l, IsList(l), NEW x
    PROVE  Front(Append(l, x)) = l
<1>1. PICK S : l \in Seq(S)
  BY DEF IsList
<1>2. l \in Seq(S \cup {x})
  BY <1>1
<1> DEFINE T == S \cup {x}
           a == Append(l, x)
<1>3. /\ Len(l) \in Nat /\ Len(a) = Len(l) + 1 /\ a \in Seq(T)
      /\ \A i \in 1 .. Len(l) : a[i] = l[i]
  BY <1>2
<1> HIDE DEF T, a
<1>4. /\ Front(a) \in Seq(T) /\ Len(Front(a)) = Len(l)
      /\ \A i \in 1 .. Len(l) : Front(a)[i] = a[i]
  <2>1. Front(a) = SubSeq(a, 1, Len(l))
    BY <1>3 DEF Front
  <2>2. \A i \in 1 .. Len(l) : i \in 1 .. Len(a)
    BY <1>3
  <2> QED BY <1>3, <2>1, <2>2
<1>5. l \in Seq(T)
  BY <1>2 DEF T
<1>6. Front(a) = l
  BY <1>3, <1>4, <1>5
<1> QED BY <1>6 DEF a

\* The file being put together is the last of the list; its place on disk may
\* hold an earlier file.
FileIsLast ==
    \E l, e : /\ IsList(l) /\ out = Append(l, e)
              /\ e.path = file.path /\ e.kind = "reg"
              /\ mode = "extract" /\ rc = 0 => Mirrors(disk, l)

\* Inductive: the disk shows the list at any time, but for the file whose
\* content is still in the buffer.
MirrorInv ==
    /\ IsList(out)
    /\ pc = "start" => out = <<>>
    /\ pc # "file" /\ mode = "extract" /\ rc = 0 => Mirrors(disk, out)
    /\ pc = "file" => FileIsLast

\* Every step keeps the disk and the list together, or gives up.
LEMMA MirrorStep ==
    ASSUME TypeOK, MirrorInv, [Next]_vars
    PROVE  MirrorInv'
<1> USE DEF MirrorInv
<1>0. IsList(<<>>)
  BY DEF IsList
<1>1. CASE UNCHANGED vars \/ Returned
  BY <1>1 DEF vars, Returned, FileIsLast
<1>2. CASE RejectChild \/ RejectDirectory \/ RejectRegular \/ RejectFragment \/ RejectWrite
  BY <1>0, <1>2
  DEF RejectChild, RejectDirectory, RejectRegular, RejectFragment, RejectWrite, Fail
<1>3. CASE Start
  BY <1>0, <1>3 DEF Start, Fail
<1>4. CASE EnterDirectory
  <2> DEFINE e == ListEntry(ChildPath, ChildMeta.kind, ChildMeta.isize)
  <2>1. /\ pc = "walk" /\ UNCHANGED <<mode, pc, rc>>
        /\ out' = Append(out, e)
        /\ mode = "extract" => Creatable(disk, ChildPath) /\ disk' = Put(disk, ChildPath, Dir)
    BY <1>4 DEF EnterDirectory, ChildAccepted, AtChild, Listed, DirectoryMade
  <2>2. e.path = ChildPath /\ e.kind = Dir.kind
    BY <1>4 DEF EnterDirectory, ListEntry, Dir
  <2>3. Creatable(disk, ChildPath) => (ChildPath \in DOMAIN disk => disk[ChildPath].kind = Dir.kind)
    BY DEF Creatable, Dir
  <2> HIDE DEF e
  <2>4. IsList(out')
    BY <2>1, ListGrows
  <2>5. mode = "extract" /\ rc = 0 => Mirrors(disk', out')
    BY <2>1, <2>2, <2>3, ThingMirrored
  <2> QED BY <2>1, <2>4, <2>5
<1>5. CASE VisitOther
  <2> DEFINE e == ListEntry(ChildPath, ChildMeta.kind, ChildMeta.isize)
  <2>1. /\ pc = "walk" /\ UNCHANGED <<mode, pc, rc, disk>> /\ out' = Append(out, e)
        /\ mode = "extract" => e.kind = "other"
    BY <1>5 DEF VisitOther, ChildAccepted, AtChild, Listed, ListEntry
  <2> HIDE DEF e
  <2>2. IsList(out')
    BY <2>1, ListGrows
  <2>3. mode = "extract" /\ rc = 0 => Mirrors(disk', out')
    BY <2>1, OtherMirrored
  <2> QED BY <2>1, <2>2, <2>3
<1>6. CASE VisitRegular
  <2> DEFINE e == ListEntry(ChildPath, ChildMeta.kind, ChildMeta.isize)
  <2>1. /\ pc = "walk" /\ pc' = "file" /\ UNCHANGED <<mode, rc, disk>>
        /\ out' = Append(out, e) /\ file'.path = ChildPath
    BY <1>6 DEF VisitRegular, ChildAccepted, AtChild, Listed
  <2>2. e.path = ChildPath /\ e.kind = "reg"
    BY <1>6 DEF VisitRegular, ListEntry
  <2> HIDE DEF e
  <2>3. IsList(out')
    BY <2>1, ListGrows
  <2>4. mode = "extract" /\ rc = 0 => Mirrors(disk, out)
    BY <2>1
  <2>5. FileIsLast'
    BY <2>1, <2>2, <2>4 DEF FileIsLast
  <2> QED BY <2>1, <2>3, <2>5
<1>7. CASE SkipDeleted \/ LeaveDirectory
  BY <1>7 DEF SkipDeleted, LeaveDirectory, AtChild
<1>8. CASE ReplayFragment
  <2>1. file'.path = file.path
    BY <1>8 DEF ReplayFragment, TypeOK
  <2> QED BY <1>8, <2>1 DEF ReplayFragment, FileIsLast
<1>9. CASE WriteFile
  <2>1. PICK f \in {Regular(file.content, FALSE)} \cup Torn : disk' = Put(disk, file.path, f)
    BY <1>9 DEF WriteFile
  <2>2. /\ pc = "file" /\ pc' = "walk" /\ UNCHANGED <<mode, rc, out>>
        /\ Openable(disk, file.path)
    BY <1>9 DEF WriteFile
  <2>3. f.kind = "reg"
    BY <2>1 DEF Regular, Torn
  <2>4. PICK l, e : /\ IsList(l) /\ out = Append(l, e)
                    /\ e.path = file.path /\ e.kind = "reg"
                    /\ mode = "extract" /\ rc = 0 => Mirrors(disk, l)
    BY <2>2 DEF FileIsLast
  <2>5. file.path \in DOMAIN disk => disk[file.path].kind = f.kind
    BY <2>2, <2>3 DEF Openable
  <2>6. mode = "extract" /\ rc = 0 => Mirrors(disk', out)
    BY <2>1, <2>3, <2>4, <2>5, ThingMirrored
  <2> QED BY <2>2, <2>6
<1> QED
  BY <1>1, <1>2, <1>3, <1>4, <1>5, <1>6, <1>7, <1>8, <1>9
  DEF Next, walk_directory, extract_regular_file

\* For every log, and whichever calls fail: as long as an extraction has not
\* failed, the directories and regular files of its list are on disk, each as
\* what it is listed, and nothing else; but for the file being put together.
THEOREM DiskMirrorsListHolds == Spec => []DiskMirrorsList
<1>1. Init => MirrorInv
  <2>1. IsList(<<>>)
    BY DEF IsList
  <2> QED BY <2>1 DEF Init, MirrorInv, Mirrors
<1>2. TypeOK /\ MirrorInv /\ [Next]_vars => MirrorInv'
  BY MirrorStep
<1>3. MirrorInv => DiskMirrorsList
  BY FrontOfList DEF MirrorInv, FileIsLast, DiskMirrorsList
<1> QED BY <1>1, <1>2, <1>3, TypeCorrect, PTL DEF Spec

-----------------------------------------------------------------------------
(* The binary search as it is written.  Its recursive function exists,     *)
(* because the bound itself solves the equation, and there is no other     *)
(* solution: two would differ on a shortest stretch, and so on one of the  *)
(* halves of it.                                                           *)

\* What the search returns between lo and hi, when l is the bound.
BoundWithin(l, lo, hi) ==
    IF lo >= hi \/ l < lo THEN lo ELSE IF l > hi THEN hi ELSE l

\* The same as a function.
Bounds(l, n) == [at \in (0 .. n) \X (0 .. n) |-> BoundWithin(l, at[1], at[2])]

\* One turn of the loop.
Turn(keys, k, f, lo, hi) ==
    IF lo >= hi THEN lo
    ELSE LET mid == lo + (hi - lo) \div 2
         IN  IF keys[mid + 1] < k THEN f[<<mid + 1, hi>>] ELSE f[<<lo, mid>>]

\* The middle lies between.
LEMMA Halves ==
    ASSUME NEW lo \in Nat, NEW hi \in Nat, lo < hi
    PROVE  LET mid == lo + (hi - lo) \div 2
           IN  mid \in Nat /\ lo <= mid /\ mid < hi
  OBVIOUS

\* The bound within lo .. hi is a solution of the recursive equation.
LEMMA WithinIsTurn ==
    ASSUME NEW n \in Nat, NEW keys, NEW k, NEW l \in 0 .. n,
           \A i \in 1 .. n : keys[i] < k <=> i <= l,
           NEW lo \in 0 .. n, NEW hi \in 0 .. n
    PROVE  Turn(keys, k, Bounds(l, n), lo, hi) = BoundWithin(l, lo, hi)
<1> DEFINE f == Bounds(l, n)
           mid == lo + (hi - lo) \div 2
<1>1. CASE lo >= hi
  BY <1>1 DEF Turn, BoundWithin
<1>2. CASE lo < hi
  <2>1. mid \in Nat /\ lo <= mid /\ mid < hi
    BY <1>2, Halves
  <2>2. mid + 1 \in 0 .. n /\ mid \in 0 .. n /\ mid + 1 \in 1 .. n
    BY <2>1
  <2>3. f[<<mid + 1, hi>>] = BoundWithin(l, mid + 1, hi) /\ f[<<lo, mid>>] = BoundWithin(l, lo, mid)
    BY <2>2 DEF Bounds
  <2>4. Turn(keys, k, f, lo, hi)
          = IF keys[mid + 1] < k THEN f[<<mid + 1, hi>>] ELSE f[<<lo, mid>>]
    BY <1>2 DEF Turn
  <2> HIDE DEF f, mid
  <2>5. ASSUME keys[mid + 1] < k
        PROVE  Turn(keys, k, f, lo, hi) = BoundWithin(l, lo, hi)
    <3>1. mid + 1 <= l
      BY <2>2, <2>5
    <3>2. BoundWithin(l, mid + 1, hi) = BoundWithin(l, lo, hi)
      BY <1>2, <2>1, <3>1 DEF BoundWithin
    <3> QED BY <2>3, <2>4, <2>5, <3>2
  <2>6. ASSUME ~ (keys[mid + 1] < k)
        PROVE  Turn(keys, k, f, lo, hi) = BoundWithin(l, lo, hi)
    <3>1. ~ (mid + 1 <= l)
      BY <2>2, <2>6
    <3>2. BoundWithin(l, lo, mid) = BoundWithin(l, lo, hi)
      BY <1>2, <2>1, <3>1 DEF BoundWithin
    <3> QED BY <2>3, <2>4, <2>6, <3>2
  <2> QED BY <2>5, <2>6 DEF f
<1> QED BY <1>1, <1>2

\* g solves the equation of the search.
Solves(keys, k, n, g) ==
    \A lo, hi \in 0 .. n : g[<<lo, hi>>] = Turn(keys, k, g, lo, hi)

\* It is the only one.
LEMMA TurnsAgree ==
    ASSUME NEW n \in Nat, NEW keys, NEW k, NEW f, NEW g,
           Solves(keys, k, n, f), Solves(keys, k, n, g)
    PROVE  f[<<0, n>>] = g[<<0, n>>]
<1> DEFINE T == {d \in 0 .. n : \E lo, hi \in 0 .. n : hi = lo + d /\ f[<<lo, hi>>] # g[<<lo, hi>>]}
<1>1. T \subseteq Nat
  OBVIOUS
<1>2. ASSUME T # {} PROVE FALSE
  <2>1. PICK d \in T : \A e \in T : d <= e
    <3> HIDE DEF T
    <3> QED BY <1>1, <1>2, LeastNatural
  <2>2. PICK lo \in 0 .. n, hi \in 0 .. n : hi = lo + d /\ f[<<lo, hi>>] # g[<<lo, hi>>]
    BY <2>1
  <2>3. d \in 0 .. n
    BY <2>1
  <2>4. /\ f[<<lo, hi>>] = Turn(keys, k, f, lo, hi)
        /\ g[<<lo, hi>>] = Turn(keys, k, g, lo, hi)
    BY <2>2 DEF Solves
  <2>5. lo < hi
    BY <2>2, <2>3, <2>4 DEF Turn
  <2> DEFINE mid == lo + (hi - lo) \div 2
  <2>6. mid \in Nat /\ lo <= mid /\ mid < hi
    BY <2>5, Halves
  <2>7. /\ f[<<lo, hi>>] = IF keys[mid + 1] < k THEN f[<<mid + 1, hi>>] ELSE f[<<lo, mid>>]
        /\ g[<<lo, hi>>] = IF keys[mid + 1] < k THEN g[<<mid + 1, hi>>] ELSE g[<<lo, mid>>]
    BY <2>4, <2>5 DEF Turn
  <2> HIDE DEF mid
  <2>8. ASSUME NEW a \in 0 .. n, NEW b \in 0 .. n, a <= b, b - a < d
        PROVE  f[<<a, b>>] = g[<<a, b>>]
    <3>1. b - a \in 0 .. n /\ b = a + (b - a) /\ ~ (d <= b - a)
      BY <2>3, <2>8
    <3>2. b - a \notin T
      BY <2>1, <3>1
    <3> QED BY <3>1, <3>2
  <2>9. f[<<mid + 1, hi>>] = g[<<mid + 1, hi>>]
    <3>1. mid + 1 \in 0 .. n /\ mid + 1 <= hi /\ hi - (mid + 1) < d
      BY <2>2, <2>3, <2>6
    <3> QED BY <2>8, <3>1
  <2>10. f[<<lo, mid>>] = g[<<lo, mid>>]
    <3>1. mid \in 0 .. n /\ lo <= mid /\ mid - lo < d
      BY <2>2, <2>3, <2>6
    <3> QED BY <2>8, <3>1
  <2> QED BY <2>2, <2>7, <2>9, <2>10
<1>3. n \notin T
  BY <1>2
<1>4. 0 \in 0 .. n /\ n \in 0 .. n /\ n = 0 + n
  OBVIOUS
<1> QED BY <1>3, <1>4

\* The search as it is written finds the bound.
LEMMA SearchFinds ==
    ASSUME NEW keys, NEW n \in Nat, n = Len(keys), NEW k, NEW l \in 0 .. n,
           \A i \in 1 .. n : keys[i] < k <=> i <= l
    PROVE  lower_bound(keys, k) = l + 1
<1> DEFINE F(g) == [at \in (0 .. n) \X (0 .. n) |-> Turn(keys, k, g, at[1], at[2])]
           f == Bounds(l, n)
           s == CHOOSE g : g = F(g)
<1>1. ASSUME NEW lo \in 0 .. n, NEW hi \in 0 .. n
      PROVE  Turn(keys, k, f, lo, hi) = BoundWithin(l, lo, hi)
  BY WithinIsTurn
<1>2. f = F(f)
  <2> DEFINE W(a, b) == BoundWithin(l, a, b)
             V(a, b) == Turn(keys, k, f, a, b)
  <2>1. \A lo, hi \in 0 .. n : V(lo, hi) = W(lo, hi)
    BY <1>1
  <2>2. f = [at \in (0 .. n) \X (0 .. n) |-> W(at[1], at[2])]
    BY DEF Bounds
  <2>3. F(f) = [at \in (0 .. n) \X (0 .. n) |-> V(at[1], at[2])]
    OBVIOUS
  <2> HIDE DEF W, V, f, F
  <2> QED BY <2>1, <2>2, <2>3
<1>3. lower_bound(keys, k) = s[<<0, n>>] + 1
  BY DEF lower_bound, Turn
<1>4. s = F(s)
  <2> HIDE DEF F, f
  <2> QED BY <1>2
<1>5. Solves(keys, k, n, f)
  <2> HIDE DEF f
  <2> QED BY <1>2 DEF Solves
<1>6. Solves(keys, k, n, s)
  <2> HIDE DEF s
  <2> QED BY <1>4 DEF Solves
<1>7. s[<<0, n>>] = f[<<0, n>>]
  <2> HIDE DEF s, f
  <2> QED BY <1>5, <1>6, TurnsAgree
<1>8. f[<<0, n>>] = l
  BY DEF Bounds, BoundWithin
<1> QED BY <1>3, <1>7, <1>8

\* In a sorted sequence it finds what LowerBound chooses.
LEMMA SearchIsBound ==
    ASSUME NEW keys, NEW n \in Nat, n = Len(keys),
           \A i \in 1 .. n : keys[i] \in Nat,
           \A i, j \in 1 .. n : i < j => keys[i] <= keys[j],
           NEW k \in Nat
    PROVE  lower_bound(keys, k) = LowerBound(keys, k)
<1> DEFINE b == LowerBound(keys, k)
<1>1. /\ b \in 1 .. n + 1
      /\ \A i \in 1 .. b - 1 : keys[i] < k
      /\ \A i \in b .. n : keys[i] >= k
  BY LowerBoundFound
<1> HIDE DEF b
<1>2. b - 1 \in 0 .. n /\ (b - 1) + 1 = b
  BY <1>1
<1>3. ASSUME NEW i \in 1 .. n
      PROVE  keys[i] < k <=> i <= b - 1
  <2>1. CASE i <= b - 1
    <3>1. i \in 1 .. b - 1
      BY <1>1, <2>1
    <3> QED BY <1>1, <2>1, <3>1
  <2>2. CASE ~ (i <= b - 1)
    <3>1. i \in b .. n
      BY <1>1, <2>2
    <3> QED BY <1>1, <2>2, <3>1
  <2> QED BY <2>1, <2>2
<1>4. lower_bound(keys, k) = (b - 1) + 1
  BY <1>2, <1>3, SearchFinds
<1> QED BY <1>2, <1>4 DEF b

\* The sorted arrays are sorted by what is searched for.
LEMMA KeysSorted ==
    ASSUME TypeOK, Sorted
    PROVE  /\ Len(dirents) \in Nat /\ Len(Pinos) = Len(dirents)
           /\ \A i \in 1 .. Len(dirents) : Pinos[i] \in Nat
           /\ \A i, j \in 1 .. Len(dirents) : i < j => Pinos[i] <= Pinos[j]
           /\ Len(inodes) \in Nat /\ Len(Inos) = Len(inodes)
           /\ \A i \in 1 .. Len(inodes) : Inos[i] \in Nat
           /\ \A i, j \in 1 .. Len(inodes) : i < j => Inos[i] <= Inos[j]
<1>1. /\ Len(dirents) \in Nat /\ Len(Pinos) = Len(dirents)
      /\ Len(inodes) \in Nat /\ Len(Inos) = Len(inodes)
      /\ \A i \in 1 .. Len(dirents) : Pinos[i] = dirents[i].pino
      /\ \A i \in 1 .. Len(inodes) : Inos[i] = inodes[i].ino
  BY DEF TypeOK, Pinos, Inos
<1>2. /\ \A i \in 1 .. Len(dirents) : dirents[i].pino \in Nat
      /\ \A i \in 1 .. Len(inodes) : inodes[i].ino \in Nat
  BY DirentTyped, InodeTyped DEF TypeOK
<1>3. ASSUME NEW i \in 1 .. Len(dirents), NEW j \in 1 .. Len(dirents), i < j
      PROVE  Pinos[i] <= Pinos[j]
  <2>1. dirent_le(dirents[i], dirents[j])
    BY <1>3 DEF Sorted, DirentsSorted
  <2> QED BY <1>1, <1>2, <2>1 DEF dirent_le
<1>4. ASSUME NEW i \in 1 .. Len(inodes), NEW j \in 1 .. Len(inodes), i < j
      PROVE  Inos[i] <= Inos[j]
  <2>1. inode_le(inodes[i], inodes[j])
    BY <1>4 DEF Sorted, InodesSorted
  <2> QED BY <1>1, <1>2, <2>1 DEF inode_le
<1> QED BY <1>1, <1>2, <1>3, <1>4

\* For every log: the two binary searches end where the first node of the key
\* is, or would be.
THEOREM SearchIsLowerBoundHolds == Spec => []SearchIsLowerBound
<1>1. TypeOK /\ Sorted => SearchIsLowerBound
  <2> SUFFICES ASSUME TypeOK, Sorted, NEW k \in Word
               PROVE  /\ lower_bound(Pinos, k) = LowerBound(Pinos, k)
                      /\ lower_bound(Inos, k) = LowerBound(Inos, k)
    BY DEF SearchIsLowerBound
  <2>1. k \in Nat
    BY WordsAreNat
  <2>2. lower_bound(Pinos, k) = LowerBound(Pinos, k)
    BY <2>1, KeysSorted, SearchIsBound
  <2>3. lower_bound(Inos, k) = LowerBound(Inos, k)
    BY <2>1, KeysSorted, SearchIsBound
  <2> QED BY <2>2, <2>3
<1> QED BY <1>1, SortedHolds, PTL

-----------------------------------------------------------------------------
(* The lengths of the paths.  StrLen is recursive: that a function with its
   equation exists, and that two such functions agree, follows from the
   least index at which they would not.                                     *)

\* f is strlen of every prefix of path, up to m names.
IsLengths(path, m, f) ==
    f = [n \in 0 .. m |-> IF n = 0 THEN -1 ELSE f[n - 1] + 1 + NameLen[path[n]]]

\* Names have lengths, and a path has so many of them.
LEMMA NamesHaveLengths ==
    ASSUME NEW path \in Seq(Names)
    PROVE  Len(path) \in Nat /\ \A n \in 1 .. Len(path) : NameLen[path[n]] \in Nat \ {0}
  BY FsTreeAssumption

\* There is such a function.
LEMMA LengthsExist ==
    ASSUME NEW path \in Seq(Names), NEW m \in 0 .. Len(path)
    PROVE  \E f \in [0 .. m -> Int] : IsLengths(path, m, f)
<1> DEFINE T == {k \in 0 .. Len(path) : ~ \E f \in [0 .. k -> Int] : IsLengths(path, k, f)}
<1>0. Len(path) \in Nat /\ T \subseteq Nat
  BY NamesHaveLengths
<1>1. ASSUME T # {} PROVE FALSE
  <2>1. PICK k \in T : \A j \in T : k <= j
    <3> HIDE DEF T
    <3> QED BY <1>0, <1>1, LeastNatural
  <2>2. k # 0
    <3>1. IsLengths(path, 0, [n \in 0 .. 0 |-> -1])
      BY DEF IsLengths
    <3>2. [n \in 0 .. 0 |-> -1] \in [0 .. 0 -> Int]
      OBVIOUS
    <3> QED BY <2>1, <3>1, <3>2
  <2>3. k \in 1 .. Len(path) /\ k - 1 \in 0 .. Len(path) /\ k - 1 \notin T
    <3>1. k \in 0 .. Len(path)
      OBVIOUS
    <3>2. k \in 1 .. Len(path) /\ k - 1 \in 0 .. Len(path) /\ ~ (k <= k - 1)
      BY <1>0, <2>2, <3>1
    <3> QED BY <2>1, <3>2
  <2>4. PICK f \in [0 .. k - 1 -> Int] : IsLengths(path, k - 1, f)
    BY <2>3
  <2> DEFINE g == [n \in 0 .. k |-> IF n = k THEN f[k - 1] + 1 + NameLen[path[k]] ELSE f[n]]
  <2>5. k \in Nat /\ k - 1 \in 0 .. k - 1 /\ NameLen[path[k]] \in Nat
    BY <1>0, <2>3, NamesHaveLengths
  <2>6. g \in [0 .. k -> Int]
    BY <2>4, <2>5
  <2>7. ASSUME NEW n \in 0 .. k
        PROVE  g[n] = IF n = 0 THEN -1 ELSE g[n - 1] + 1 + NameLen[path[n]]
    <3>1. CASE n = k
      <4>1. n # 0 /\ n - 1 \in 0 .. k /\ n - 1 # k
        BY <2>3, <2>5, <3>1
      <4>2. g[n - 1] = f[k - 1]
        BY <3>1, <4>1
      <4> QED BY <3>1, <4>1, <4>2
    <3>2. CASE n # k
      <4>1. n \in 0 .. k - 1 /\ (n # 0 => n - 1 \in 0 .. k /\ n - 1 # k)
        BY <2>5, <3>2
      <4>2. f[n] = IF n = 0 THEN -1 ELSE f[n - 1] + 1 + NameLen[path[n]]
        BY <2>4, <4>1 DEF IsLengths
      <4> QED BY <3>2, <4>1, <4>2
    <3> QED BY <3>1, <3>2
  <2> HIDE DEF g
  <2>8. IsLengths(path, k, g)
    BY <2>6, <2>7 DEF IsLengths
  <2> QED BY <2>1, <2>6, <2>8
<1>2. m \notin T
  BY <1>1
<1> QED BY <1>2

\* Two paths with a prefix in common, and the lengths along it.
Agree(path, q, m, f, g) ==
    \A n \in 0 .. m :
        /\ f[n] = IF n = 0 THEN -1 ELSE f[n - 1] + 1 + NameLen[path[n]]
        /\ g[n] = IF n = 0 THEN -1 ELSE g[n - 1] + 1 + NameLen[q[n]]
        /\ n # 0 => q[n] = path[n]

\* The lengths of a prefix depend on nothing behind it.
LEMMA LengthsAgree ==
    ASSUME NEW path, NEW q, NEW m \in Nat, NEW f, NEW g, Agree(path, q, m, f, g)
    PROVE  f[m] = g[m]
<1> DEFINE T == {k \in 0 .. m : f[k] # g[k]}
<1>0. T \subseteq Nat
  OBVIOUS
<1>1. ASSUME T # {} PROVE FALSE
  <2>1. PICK k \in T : \A j \in T : k <= j
    <3> HIDE DEF T
    <3> QED BY <1>0, <1>1, LeastNatural
  <2>2. /\ f[k] = IF k = 0 THEN -1 ELSE f[k - 1] + 1 + NameLen[path[k]]
        /\ g[k] = IF k = 0 THEN -1 ELSE g[k - 1] + 1 + NameLen[q[k]]
        /\ k # 0 => q[k] = path[k]
    BY <2>1 DEF Agree
  <2>3. k # 0
    BY <2>1, <2>2
  <2>4. k \in 1 .. m /\ k - 1 \in 0 .. m /\ k - 1 \notin T
    BY <2>1, <2>3
  <2>5. f[k - 1] = g[k - 1]
    BY <2>4
  <2>6. f[k] = g[k]
    BY <2>2, <2>3, <2>4, <2>5
  <2> QED BY <2>1, <2>6
<1> QED BY <1>1

\* Lengths is such a function: its recursive equation holds.
LEMMA LengthsUnfold ==
    ASSUME NEW path \in Seq(Names)
    PROVE  IsLengths(path, Len(path), Lengths(path)) /\ StrLen(path) \in Int
<1> DEFINE F(f) == [n \in 0 .. Len(path) |->
                      IF n = 0 THEN -1 ELSE f[n - 1] + 1 + NameLen[path[n]]]
<1>0. Len(path) \in Nat /\ Len(path) \in 0 .. Len(path)
  BY NamesHaveLengths
<1>1. PICK f \in [0 .. Len(path) -> Int] : IsLengths(path, Len(path), f)
  BY <1>0, LengthsExist
<1>2. f = F(f)
  BY <1>1 DEF IsLengths
<1>3. Lengths(path) = CHOOSE g : g = F(g)
  BY DEF Lengths
<1> HIDE DEF F
<1>4. Lengths(path) = F(Lengths(path))
  BY <1>2, <1>3
<1>5. IsLengths(path, Len(path), Lengths(path))
  BY <1>4 DEF F, IsLengths
<1>6. f[Len(path)] = Lengths(path)[Len(path)]
  <2> DEFINE u == Lengths(path)
             m == Len(path)
  <2>1. Agree(path, path, m, f, u)
    BY <1>0, <1>1, <1>5 DEF Agree, IsLengths
  <2>2. m \in Nat
    BY <1>0
  <2> HIDE DEF u, m
  <2>3. f[m] = u[m]
    BY ONLY <2>1, <2>2, LengthsAgree
  <2> QED BY <2>3 DEF u, m
<1> QED BY <1>0, <1>1, <1>5, <1>6 DEF StrLen

\* The string of a path grows by a separator and the name.
LEMMA StrLenGrows ==
    ASSUME NEW path \in Seq(Names), NEW name \in Names
    PROVE  /\ StrLen(Append(path, name)) = StrLen(path) + 1 + NameLen[name]
           /\ StrLen(path) \in Int
           /\ StrLen(<<>>) = -1
<1> DEFINE q == Append(path, name)
           l == Len(path)
<1>1. l \in Nat /\ q \in Seq(Names) /\ Len(q) = l + 1 /\ q[l + 1] = name
      /\ \A n \in 1 .. l : q[n] = path[n]
  OBVIOUS
<1>2. IsLengths(path, l, Lengths(path)) /\ StrLen(path) \in Int
  BY LengthsUnfold
<1>3. IsLengths(q, l + 1, Lengths(q))
  BY <1>1, LengthsUnfold
<1>4. Lengths(q)[l + 1] = Lengths(q)[l] + 1 + NameLen[name]
  BY <1>1, <1>3 DEF IsLengths
<1>5. Lengths(q)[l] = Lengths(path)[l]
  <2> DEFINE f == Lengths(path)
             g == Lengths(q)
  <2>1. Agree(path, q, l, f, g)
    <3>1. ASSUME NEW n \in 0 .. l
          PROVE  n \in 0 .. l + 1 /\ (n # 0 => n \in 1 .. l)
      BY <1>1
    <3>2. ASSUME NEW n \in 0 .. l
          PROVE  /\ f[n] = IF n = 0 THEN -1 ELSE f[n - 1] + 1 + NameLen[path[n]]
                 /\ g[n] = IF n = 0 THEN -1 ELSE g[n - 1] + 1 + NameLen[q[n]]
                 /\ n # 0 => q[n] = path[n]
      <4> HIDE DEF l, q
      <4>1. n \in 0 .. l + 1 /\ (n # 0 => n \in 1 .. l)
        BY <3>1
      <4>2. f[n] = IF n = 0 THEN -1 ELSE f[n - 1] + 1 + NameLen[path[n]]
        <5>1. IsLengths(path, l, f)
          BY <1>2
        <5> HIDE DEF f
        <5> QED BY <5>1 DEF IsLengths
      <4>3. g[n] = IF n = 0 THEN -1 ELSE g[n - 1] + 1 + NameLen[q[n]]
        <5>1. IsLengths(q, l + 1, g)
          BY <1>3
        <5> HIDE DEF g
        <5> QED BY <4>1, <5>1 DEF IsLengths
      <4> QED BY <1>1, <4>1, <4>2, <4>3
    <3> HIDE DEF f, g, q, l
    <3> QED BY <3>2 DEF Agree
  <2>2. l \in Nat
    BY <1>1
  <2> HIDE DEF f, g, q, l
  <2>3. f[l] = g[l]
    BY ONLY <2>1, <2>2, LengthsAgree
  <2> QED BY <2>3 DEF f, g
<1>6. StrLen(<<>>) = -1
  <2>1. <<>> \in Seq(Names) /\ Len(<<>>) = 0
    OBVIOUS
  <2>2. IsLengths(<<>>, 0, Lengths(<<>>))
    BY <2>1, LengthsUnfold
  <2> QED BY <2>1, <2>2 DEF IsLengths, StrLen
<1> QED BY <1>1, <1>2, <1>4, <1>5, <1>6 DEF StrLen

\* What snprintf counts for a child is the length of its whole path.
LEMMA JoinedLenIsStrLen ==
    ASSUME NEW path \in Seq(Names), NEW plen, NEW name \in Names,
           path = <<>> \/ plen = StrLen(path)
    PROVE  JoinedLen(path, plen, name) = StrLen(Append(path, name))
<1>1. /\ StrLen(Append(path, name)) = StrLen(path) + 1 + NameLen[name]
      /\ StrLen(path) \in Int /\ StrLen(<<>>) = -1 /\ NameLen[name] \in Nat
  BY StrLenGrows, FsTreeAssumption
<1> QED BY <1>1 DEF JoinedLen

-----------------------------------------------------------------------------
(* The listing and the tree of the image.  Listing is recursive over the   *)
(* places of an image: that a function with its equation exists, and hence *)
(* that Listing satisfies it, follows by the least counterexample when     *)
(* every place is followed by places of a smaller rank only.               *)

\* What is listed from the place x on, if f lists the places behind it.
ListedFrom(places, f, x) ==
    places[x].items \o At(f, places[x].down) \o At(f, places[x].on)

\* Every place is followed by places of a smaller rank, and lists items of I.
Ranked(places, I, rank, R) ==
    \A x \in DOMAIN places :
        /\ rank[x] \in 0 .. R
        /\ places[x].items \in Seq(I)
        /\ \A y \in places[x].down \cup places[x].on :
             y \in DOMAIN places /\ rank[y] < rank[x]

\* f lists the places of a rank below r.
ListsBelow(places, rank, r, f) ==
    f = [x \in {x \in DOMAIN places : rank[x] < r} |-> ListedFrom(places, f, x)]

\* What is listed from a place on depends on the places behind it only.
LEMMA ListedAlike ==
    ASSUME NEW places, NEW x, NEW f, NEW g,
           \A y \in places[x].down \cup places[x].on : f[y] = g[y]
    PROVE  ListedFrom(places, f, x) = ListedFrom(places, g, x)
<1>1. ASSUME NEW S, S \subseteq places[x].down \cup places[x].on
      PROVE  At(f, S) = At(g, S)
  BY <1>1 DEF At
<1>2. At(f, places[x].down) = At(g, places[x].down)
  BY <1>1
<1>3. At(f, places[x].on) = At(g, places[x].on)
  BY <1>1
<1> QED BY <1>2, <1>3 DEF ListedFrom

\* There is such a function.
LEMMA ListsExist ==
    ASSUME NEW places, NEW I, NEW rank, NEW R \in Nat, Ranked(places, I, rank, R),
           NEW r \in Nat
    PROVE  \E f : ListsBelow(places, rank, r, f)
<1> DEFINE Below(k) == {x \in DOMAIN places : rank[x] < k}
           T == {k \in Nat : ~ \E f : ListsBelow(places, rank, k, f)}
<1>1. ASSUME T # {} PROVE FALSE
  <2>1. PICK k \in T : \A j \in T : k <= j
    <3>1. T \subseteq Nat
      OBVIOUS
    <3> HIDE DEF T
    <3> QED BY <1>1, <3>1, LeastNatural
  <2>2. k # 0
    <3> DEFINE none == [x \in {} |-> {}]
    <3>1. Below(0) = {}
      BY DEF Ranked
    <3>2. none = [x \in Below(0) |-> ListedFrom(places, none, x)]
      <4> HIDE DEF Below
      <4> QED BY <3>1
    <3>3. ListsBelow(places, rank, 0, none)
      BY <3>2 DEF ListsBelow
    <3> HIDE DEF none
    <3> QED BY <2>1, <3>3
  <2>3. k - 1 \in Nat /\ k - 1 \notin T
    BY <2>1, <2>2
  <2>4. PICK f : ListsBelow(places, rank, k - 1, f)
    BY <2>3
  <2> DEFINE g == [x \in Below(k) |-> ListedFrom(places, f, x)]
  <2>5. ASSUME NEW y \in Below(k - 1) PROVE y \in Below(k) /\ f[y] = g[y]
    <3>1. y \in Below(k)
      BY <2>3, <2>1 DEF Ranked
    <3>2. f[y] = ListedFrom(places, f, y)
      <4>1. f = [x \in Below(k - 1) |-> ListedFrom(places, f, x)]
        BY <2>4 DEF ListsBelow
      <4> HIDE DEF Below
      <4> QED BY <4>1, ZenonT(20)
    <3> HIDE DEF Below
    <3> QED BY <3>1, <3>2
  <2>6. ASSUME NEW x \in Below(k)
        PROVE  ListedFrom(places, f, x) = ListedFrom(places, g, x)
    <3>1. \A y \in places[x].down \cup places[x].on : y \in Below(k - 1)
      BY <2>1, <2>3 DEF Ranked
    <3> HIDE DEF Below, g
    <3>2. \A y \in places[x].down \cup places[x].on : f[y] = g[y]
      BY <2>5, <3>1
    <3> QED BY <3>2, ListedAlike
  <2>7. g = [x \in Below(k) |-> ListedFrom(places, g, x)]
    <3> HIDE DEF Below
    <3>1. \A x \in Below(k) : ListedFrom(places, f, x) = ListedFrom(places, g, x)
      BY <2>6
    <3> DEFINE h == g
    <3>2. \A x \in Below(k) : ListedFrom(places, f, x) = ListedFrom(places, h, x)
      BY <3>1
    <3> HIDE DEF h
    <3>3. [x \in Below(k) |-> ListedFrom(places, f, x)]
            = [x \in Below(k) |-> ListedFrom(places, h, x)]
      BY <3>2
    <3> QED BY <3>3 DEF h
  <2> HIDE DEF g
  <2>8. ListsBelow(places, rank, k, g)
    BY <2>7 DEF ListsBelow
  <2> QED BY <2>1, <2>8
<1> QED BY <1>1

\* Listing is one of them.
LEMMA ListingUnfolds ==
    ASSUME NEW places, NEW I, NEW rank, NEW R \in Nat, Ranked(places, I, rank, R),
           NEW x \in DOMAIN places
    PROVE  Listing(places)[x] = ListedFrom(places, Listing(places), x)
<1>1. R + 1 \in Nat
  OBVIOUS
<1>2. PICK f : ListsBelow(places, rank, R + 1, f)
  BY <1>1, ListsExist
<1>3. {z \in DOMAIN places : rank[z] < R + 1} = DOMAIN places
  <2>1. ASSUME NEW z \in DOMAIN places PROVE rank[z] < R + 1
    BY DEF Ranked
  <2> QED BY <2>1
<1>4. f = [z \in DOMAIN places |-> ListedFrom(places, f, z)]
  BY <1>2, <1>3 DEF ListsBelow
<1>5. Listing(places) = CHOOSE h : h = [z \in DOMAIN places |-> ListedFrom(places, h, z)]
  BY DEF Listing, ListedFrom
<1> DEFINE L == Listing(places)
<1>6. L = [z \in DOMAIN places |-> ListedFrom(places, L, z)]
  BY <1>4, <1>5
<1> HIDE DEF L
<1>7. L[x] = ListedFrom(places, L, x)
  BY <1>6, ZenonT(20)
<1> QED BY <1>7 DEF L

\* It lists items.
LEMMA ListingTyped ==
    ASSUME NEW places, NEW I, NEW rank, NEW R \in Nat, Ranked(places, I, rank, R)
    PROVE  \A x \in DOMAIN places : Listing(places)[x] \in Seq(I)
<1> DEFINE L == Listing(places)
           T == {rank[x] : x \in {x \in DOMAIN places : L[x] \notin Seq(I)}}
<1>1. ASSUME T # {} PROVE FALSE
  <2>1. PICK k \in T : \A j \in T : k <= j
    <3>1. T \subseteq Nat
      BY DEF Ranked
    <3> HIDE DEF T
    <3> QED BY <1>1, <3>1, LeastNatural
  <2>2. PICK x \in DOMAIN places : L[x] \notin Seq(I) /\ rank[x] = k
    BY <2>1
  <2>3. \A y \in places[x].down \cup places[x].on : L[y] \in Seq(I)
    <3> SUFFICES ASSUME NEW y \in places[x].down \cup places[x].on, L[y] \notin Seq(I)
                 PROVE  FALSE
      OBVIOUS
    <3>1. y \in DOMAIN places /\ rank[y] < rank[x] /\ rank[y] \in Nat /\ rank[x] \in Nat
      BY DEF Ranked
    <3>2. rank[y] \in T
      BY <3>1
    <3>3. k <= rank[y]
      <4> HIDE DEF T
      <4> QED BY <2>1, <3>2
    <3> HIDE DEF T, L
    <3> QED BY <2>2, <3>1, <3>3
  <2>4. L[x] = ListedFrom(places, L, x)
    BY ListingUnfolds
  <2>5. places[x].items \in Seq(I)
    BY DEF Ranked
  <2> HIDE DEF L, T
  <2>6. ASSUME NEW S, S \subseteq places[x].down \cup places[x].on
        PROVE  At(L, S) \in Seq(I)
    BY <2>3, <2>6 DEF At
  <2>7. At(L, places[x].down) \in Seq(I) /\ At(L, places[x].on) \in Seq(I)
    BY <2>6
  <2>8. ListedFrom(places, L, x) \in Seq(I)
    <3> DEFINE a == At(L, places[x].down)
               b == At(L, places[x].on)
               c == places[x].items
    <3>1. a \in Seq(I) /\ b \in Seq(I) /\ c \in Seq(I)
      BY <2>5, <2>7
    <3> HIDE DEF a, b, c
    <3>2. (c \o a) \o b \in Seq(I)
      BY <3>1
    <3> QED BY <3>2 DEF ListedFrom, a, b, c
  <2> QED BY <2>2, <2>4, <2>8
<1> QED BY <1>1


\* Sequences of items.
LEMMA AppendThen ==
    ASSUME NEW I, NEW o \in Seq(I), NEW e \in I, NEW x \in Seq(I)
    PROVE  Append(o, e) \o x = o \o (<<e>> \o x)
<1>1. <<e>> \in Seq(I)
  OBVIOUS
<1>2. (o \o <<e>>) \o x = o \o (<<e>> \o x)
  BY <1>1, ConcatAssociative
<1>3. Append(o, e) = o \o <<e>>
  BY AppendIsConcat
<1> QED BY <1>2, <1>3

\* The elements of a concatenation.
LEMMA InConcat ==
    ASSUME NEW I, NEW a \in Seq(I), NEW b \in Seq(I), NEW x
    PROVE  x \in Range(a \o b) <=> x \in Range(a) \/ x \in Range(b)
<1>1. /\ Len(a) \in Nat /\ Len(b) \in Nat /\ Len(a \o b) = Len(a) + Len(b)
      /\ DOMAIN a = 1 .. Len(a) /\ DOMAIN b = 1 .. Len(b)
      /\ DOMAIN (a \o b) = 1 .. Len(a) + Len(b)
      /\ \A i \in 1 .. Len(a) + Len(b) : (a \o b)[i] = IF i <= Len(a) THEN a[i] ELSE b[i - Len(a)]
  OBVIOUS
<1> DEFINE c == a \o b
           m == Len(a)
           n == Len(b)
<1> HIDE DEF c, m, n
<1>2. /\ m \in Nat /\ n \in Nat /\ DOMAIN a = 1 .. m /\ DOMAIN b = 1 .. n /\ DOMAIN c = 1 .. m + n
      /\ \A i \in 1 .. m + n : c[i] = IF i <= m THEN a[i] ELSE b[i - m]
  BY <1>1 DEF c, m, n
<1>3. ASSUME NEW i \in 1 .. m + n PROVE c[i] \in Range(a) \cup Range(b)
  <2>1. CASE i <= m
    BY <1>2, <2>1 DEF Range
  <2>2. CASE ~ (i <= m)
    <3>1. i - m \in 1 .. n
      BY <1>2, <2>2
    <3> QED BY <1>2, <2>2, <3>1 DEF Range
  <2> QED BY <2>1, <2>2
<1>4. ASSUME NEW i \in 1 .. m PROVE a[i] \in Range(c)
  <2>1. i \in 1 .. m + n /\ i <= m
    BY <1>2
  <2> QED BY <1>2, <2>1 DEF Range
<1>5. ASSUME NEW i \in 1 .. n PROVE b[i] \in Range(c)
  <2>1. m + i \in 1 .. m + n /\ ~ (m + i <= m) /\ (m + i) - m = i
    BY <1>2
  <2>2. c[m + i] = b[i]
    BY <1>2, <2>1
  <2> QED BY <1>2, <2>1, <2>2 DEF Range
<1> QED BY <1>2, <1>3, <1>4, <1>5 DEF Range, c


\* A finite set of natural numbers has a greatest element.
LEMMA FiniteSetHasMax ==
    ASSUME NEW S, S \subseteq Nat, S # {}, IsFiniteSet(S)
    PROVE  \E m \in S : \A y \in S : m >= y
<1> DEFINE HasMax(U) == \E m \in U : \A y \in U : m >= y
           Bad(U) == U # {} /\ IsFiniteSet(U) /\ ~HasMax(U)
           T == {k \in Nat : \E U \in SUBSET Nat : Bad(U) /\ Cardinality(U) = k}
<1>1. ASSUME T # {} PROVE FALSE
  <2>1. PICK k \in T : \A j \in T : k <= j
    <3>1. T \subseteq Nat
      OBVIOUS
    <3> HIDE DEF T
    <3> QED BY <1>1, <3>1, LeastNatural
  <2>2. k \in Nat
    OBVIOUS
  <2>3. PICK U \in SUBSET Nat : Bad(U) /\ Cardinality(U) = k
    OBVIOUS
  <2>4. PICK x \in U : TRUE
    BY <2>3
  <2> DEFINE V == U \ {x}
  <2>5. IsFiniteSet(V) /\ Cardinality(V) = k - 1 /\ Cardinality(V) \in Nat /\ V \in SUBSET Nat
    BY <2>3, <2>4, FS_RemoveElement, FS_CardinalityType
  <2>6. k - 1 \notin T
    BY <2>1, <2>2, <2>5
  <2>7. ~ Bad(V)
    BY <2>5, <2>6
  <2>8. CASE V = {}
    <3>1. \A y \in U : x >= y
      BY <2>3, <2>4, <2>8
    <3> QED BY <2>3, <2>4, <3>1
  <2>9. CASE V # {}
    <3>1. PICK m \in V : \A y \in V : m >= y
      BY <2>5, <2>7, <2>9
    <3>2. m \in Nat /\ x \in Nat /\ m \in U
      BY <2>3, <2>4
    <3>3. CASE m >= x
      <4>1. \A y \in U : m >= y
        BY <3>1, <3>3
      <4> QED BY <2>3, <3>2, <4>1
    <3>4. CASE ~ (m >= x)
      <4>1. \A y \in U : x >= y
        BY <2>3, <2>4, <3>1, <3>2, <3>4
      <4> QED BY <2>3, <2>4, <4>1
    <3> QED BY <3>3, <3>4
  <2> QED BY <2>8, <2>9
<1>2. Cardinality(S) \in Nat
  BY FS_CardinalityType
<1>3. Cardinality(S) \notin T
  BY <1>1
<1> HIDE DEF T
<1>4. S \in SUBSET Nat /\ ~ (Bad(S) /\ Cardinality(S) \in Nat /\ Cardinality(S) \notin T)
  BY <1>2 DEF T
<1> QED BY <1>2, <1>3, <1>4

-----------------------------------------------------------------------------
(* What is left of the listing, frame by frame.                            *)

Items  == [path : Seq(Names), kind : {"dir", "reg", "other"}, size : Int]
Places == [r \in Regions |-> Place(r)]

\* The frame fr, the i-th of the walk over the sorted dirents ds, stands at the
\* place r: what it has before it are the names of its directory from r.from
\* on, and nothing of a directory before its own.
StandsAt(ds, fr, i, r) ==
    /\ r.depth = i - 1 /\ r.pino = fr.pino /\ r.path = fr.path
    /\ \A k \in 1 .. Len(ds) :
         ds[k].pino = fr.pino => (r.from <= ds[k].name <=> fr.next <= k)
    /\ \A k \in 1 .. Len(ds) : fr.next <= k => fr.pino <= ds[k].pino

\* x is what the frame has still to list, and y what those around it have.
Rest(R, L, I, ds, fr, i, x, y) ==
    \E r \in R : StandsAt(ds, fr, i, r) /\ L[r] \in Seq(I) /\ x = L[r] \o y

\* f[i] is what the i outermost frames of s have still to list, if L is what
\* is listed from each place of R on.
Rests(R, L, I, ds, s, f) ==
    /\ f[0] = <<>>
    /\ \A i \in 1 .. Len(s) : Rest(R, L, I, ds, s[i], i, f[i], f[i - 1])
    /\ \A i \in 0 .. Len(s) : f[i] \in Seq(I)

\* A frame that has nothing left to list is taken off.
LEMMA RestsPopped ==
    ASSUME NEW R, NEW L, NEW I, NEW ds, NEW s, NEW u, NEW f, NEW n \in Nat,
           Len(s) = n + 1, Len(u) = n, \A i \in 1 .. n : u[i] = s[i],
           Rests(R, L, I, ds, s, f)
    PROVE  Rests(R, L, I, ds, u, f)
<1>1. \A i \in 1 .. n : i \in 1 .. n + 1
  OBVIOUS
<1>2. \A i \in 0 .. n : i \in 0 .. n + 1
  OBVIOUS
<1> QED BY <1>1, <1>2 DEF Rests

\* The deepest frame of u, the n-th, is new or elsewhere; the others are those
\* of s.
Resting(R, L, I, ds, s, u, n, r) ==
    /\ n \in Nat \ {0} /\ Len(u) = n /\ Len(s) \in {n - 1, n}
    /\ \A i \in 1 .. n - 1 : u[i] = s[i]
    /\ r \in R /\ StandsAt(ds, u[n], n, r) /\ L[r] \in Seq(I)

RestsThere(R, L, I, ds, u, f, n, r) ==
    \E g : /\ Rests(R, L, I, ds, u, g) /\ g[n] = L[r] \o f[n - 1]

\* What the deepest frame has to list is what is listed from its place on.
LEMMA RestsAt ==
    ASSUME NEW R, NEW L, NEW I, NEW ds, NEW s, NEW u, NEW f, NEW n, NEW r,
           Resting(R, L, I, ds, s, u, n, r), Rests(R, L, I, ds, s, f)
    PROVE  RestsThere(R, L, I, ds, u, f, n, r)
<1> USE DEF Resting
<1> DEFINE here == L[r]
           g == [i \in 0 .. n |-> IF i = n THEN here \o f[n - 1] ELSE f[i]]
           x == f[n - 1]
<1>1. /\ n \in 1 .. n /\ n \in 0 .. n /\ n - 1 \in 0 .. n /\ n - 1 # n /\ 0 \in 0 .. n /\ 0 # n
      /\ n - 1 \in 0 .. Len(s)
      /\ \A i \in 1 .. n : i \in 0 .. n /\ (i # n => i \in 1 .. n - 1 /\ i - 1 \in 0 .. n /\ i - 1 # n)
      /\ \A i \in 1 .. n - 1 : i \in 1 .. Len(s)
      /\ \A i \in 0 .. n : i # n => i \in 0 .. Len(s)
  OBVIOUS
<1>2. x \in Seq(I) /\ here \in Seq(I)
  BY <1>1 DEF Rests
<1>3. g[n] = here \o x /\ (\A i \in 0 .. n : i # n => g[i] = f[i])
  BY <1>1
<1> HIDE DEF here, g, x
<1>4. here \o x \in Seq(I)
  BY <1>2, ConcatProperties
<1>5. ASSUME NEW i \in 0 .. n PROVE g[i] \in Seq(I)
  <2>1. CASE i = n
    BY <1>3, <1>4, <2>1
  <2>2. CASE i # n
    <3>1. g[i] = f[i] /\ i \in 0 .. Len(s)
      BY <1>1, <1>3, <2>2
    <3> QED BY <3>1 DEF Rests
  <2> QED BY <2>1, <2>2
<1>6. g[0] = <<>>
  BY <1>1, <1>3 DEF Rests
<1>7. ASSUME NEW i \in 1 .. n PROVE Rest(R, L, I, ds, u[i], i, g[i], g[i - 1])
  <2>1. CASE i = n
    <3>1. g[n - 1] = x
      BY <1>1, <1>3 DEF x
    <3>2. L[r] \in Seq(I) /\ g[n] = L[r] \o g[n - 1]
      BY <1>2, <1>3, <3>1 DEF here
    <3> QED BY <2>1, <3>2 DEF Rest
  <2>2. CASE i # n
    <3>1. i \in 1 .. n - 1 /\ i \in 1 .. Len(s) /\ u[i] = s[i]
      BY <1>1, <2>2
    <3>2. g[i] = f[i] /\ g[i - 1] = f[i - 1]
      BY <1>1, <1>3, <2>2
    <3>3. Rest(R, L, I, ds, s[i], i, f[i], f[i - 1])
      BY <3>1 DEF Rests
    <3> QED BY <3>1, <3>2, <3>3
  <2> QED BY <2>1, <2>2
<1>8. Rests(R, L, I, ds, u, g)
  BY <1>5, <1>6, <1>7 DEF Rests
<1> QED BY <1>3, <1>8 DEF here, x, RestsThere

-----------------------------------------------------------------------------
(* The places of a log.                                                    *)

\* All names of the log are below TopName.
LEMMA TopNameBounds ==
    ASSUME log.dirents \in Seq(Dirents)
    PROVE  TopName \in Nat /\ \A i \in 1 .. Len(log.dirents) : log.dirents[i].name + 1 \in 0 .. TopName
<1> DEFINE n == Len(log.dirents)
           D == 1 .. n
           names == {log.dirents[i].name + 1 : i \in D}
           f == [i \in D |-> log.dirents[i].name + 1]
           S == {0} \cup names
<1>1. n \in Nat /\ \A i \in D : log.dirents[i].name + 1 \in Nat
  BY DirentTyped
<1>2. IsFiniteSet(D)
  <2> HIDE DEF n
  <2> QED BY <1>1, FS_Interval
<1>3. f \in Surjection(D, names)
  BY DEF Surjection
<1>4. IsFiniteSet(names)
  <2> HIDE DEF f, names, D
  <2> QED BY <1>2, <1>3, FS_Surjection
<1>5. IsFiniteSet(S) /\ S \subseteq Nat /\ S # {}
  <2>1. IsFiniteSet(names \cup {0})
    <3> HIDE DEF names
    <3> QED BY <1>4, FS_AddElement
  <2>2. S = names \cup {0}
    OBVIOUS
  <2>3. S \subseteq Nat
    BY <1>1
  <2> QED BY <2>1, <2>2, <2>3
<1>6. TopName = CHOOSE m \in S : \A y \in S : m >= y
  BY DEF TopName, Max
<1>7. \E m \in S : \A y \in S : m >= y
  <2> HIDE DEF S
  <2> QED BY <1>5, FiniteSetHasMax
<1>8. TopName \in S /\ \A y \in S : TopName >= y
  <2> HIDE DEF S
  <2> QED BY <1>6, <1>7
<1>9. \A i \in D : log.dirents[i].name + 1 \in S
  OBVIOUS
<1> HIDE DEF S
<1> QED BY <1>1, <1>5, <1>8, <1>9

\* A directory counts for more than all the names of one at the next depth.
Ranks   == [r \in Regions |-> (MAX_DIR_DEPTH - r.depth) * (TopName + 1) + (TopName - r.from)]
MaxRank == (MAX_DIR_DEPTH + 1) * (TopName + 1)

\* A step within a listing, or one level down, lowers the rank.
LEMMA RanksFall ==
    ASSUME NEW K \in Nat, NEW M \in Nat, NEW d \in 0 .. K, NEW s \in 0 .. M
    PROVE  /\ (K - d) * (M + 1) + s \in 0 .. (K + 1) * (M + 1)
           /\ d # K => \A t \in 0 .. M :
                (K - (d + 1)) * (M + 1) + t < (K - d) * (M + 1) + s
<1> DEFINE a == K - d
<1>1. a \in Nat /\ a <= K
  OBVIOUS
<1> HIDE DEF a
<1>2. a * (M + 1) + s \in 0 .. (K + 1) * (M + 1)
  <2>1. (a + 1) * (M + 1) = a * (M + 1) + (M + 1) /\ a * (M + 1) \in Nat
    BY <1>1
  <2> DEFINE b == a + 1
             k == K + 1
  <2>2. b \in Nat /\ k \in Nat /\ b <= k
    BY <1>1
  <2> HIDE DEF b, k
  <2>3. b * (M + 1) <= k * (M + 1) /\ k * (M + 1) \in Nat
    BY <2>2
  <2>4. a * (M + 1) + s <= k * (M + 1)
    BY <2>1, <2>3 DEF b
  <2> QED BY <2>1, <2>3, <2>4 DEF k
<1>3. ASSUME d # K, NEW t \in 0 .. M
      PROVE  (K - (d + 1)) * (M + 1) + t < a * (M + 1) + s
  <2> DEFINE e == K - (d + 1)
  <2>1. e \in Nat /\ a = e + 1
    BY <1>3 DEF a
  <2> HIDE DEF e
  <2>2. (e + 1) * (M + 1) = e * (M + 1) + (M + 1) /\ e * (M + 1) \in Nat
    BY <2>1
  <2> DEFINE p == e * (M + 1)
  <2>3. a * (M + 1) = p + (M + 1) /\ p \in Nat
    BY <2>1, <2>2
  <2> HIDE DEF p
  <2>4. p + t < (p + (M + 1)) + s
    BY <2>3
  <2> QED BY <2>3, <2>4 DEF p, e
<1> QED BY <1>2, <1>3 DEF a

\* One place further in the same listing, or the listing of a directory below.
LEMMA RanksOf ==
    ASSUME log.dirents \in Seq(Dirents), NEW r \in Regions, NEW y \in Regions
    PROVE  /\ Ranks[r] \in 0 .. MaxRank
           /\ y.depth = r.depth /\ r.from < y.from => Ranks[y] < Ranks[r]
           /\ y.depth = r.depth + 1 => Ranks[y] < Ranks[r]
<1>1. MAX_DIR_DEPTH \in Nat /\ TopName \in Nat
  BY FsTreeAssumption, TopNameBounds
<1> DEFINE d == r.depth
           s == TopName - r.from
           t == TopName - y.from
<1>2. d \in 0 .. MAX_DIR_DEPTH /\ s \in 0 .. TopName /\ t \in 0 .. TopName
      /\ y.depth \in 0 .. MAX_DIR_DEPTH /\ (r.from < y.from => t < s)
  <2> DEFINE a == r.from
             b == y.from
  <2>1. a \in 0 .. TopName /\ b \in 0 .. TopName
        /\ d \in 0 .. MAX_DIR_DEPTH /\ y.depth \in 0 .. MAX_DIR_DEPTH
    BY DEF Regions
  <2> HIDE DEF a, b, d
  <2>2. TopName - a \in 0 .. TopName /\ TopName - b \in 0 .. TopName
        /\ (a < b => TopName - b < TopName - a)
    BY <1>1, <2>1
  <2> QED BY <2>1, <2>2 DEF a, b
<1>3. /\ Ranks[r] = (MAX_DIR_DEPTH - d) * (TopName + 1) + s
      /\ Ranks[y] = (MAX_DIR_DEPTH - y.depth) * (TopName + 1) + t
  BY DEF Ranks
<1> HIDE DEF d, s, t
<1>4. Ranks[r] \in 0 .. MaxRank
  BY <1>1, <1>2, <1>3, RanksFall DEF MaxRank
<1>5. ASSUME y.depth = d, t < s PROVE Ranks[y] < Ranks[r]
  <2> DEFINE w == (MAX_DIR_DEPTH - d) * (TopName + 1)
  <2>1. w \in Int
    BY <1>1, <1>2
  <2>2. Ranks[r] = w + s /\ Ranks[y] = w + t
    BY <1>3, <1>5
  <2> HIDE DEF w
  <2> QED BY <1>2, <1>5, <2>1, <2>2
<1>6. ASSUME y.depth = d + 1 PROVE Ranks[y] < Ranks[r]
  <2>1. d # MAX_DIR_DEPTH
    BY <1>1, <1>2, <1>6
  <2>2. (MAX_DIR_DEPTH - (d + 1)) * (TopName + 1) + t
          < (MAX_DIR_DEPTH - d) * (TopName + 1) + s
    BY <1>1, <1>2, <2>1, RanksFall
  <2> QED BY <1>3, <1>6, <2>2
<1>7. r.from < y.from => t < s
  BY <1>2
<1> QED BY <1>4, <1>5, <1>6, <1>7 DEF d

\* An element of a sequence is at one of its indices.
LEMMA InSequence ==
    ASSUME NEW S, NEW s \in Seq(S), NEW x
    PROVE  x \in Range(s) <=> \E i \in 1 .. Len(s) : s[i] = x
  BY DEF Range

\* The dirents that are live from a name on are dirents of the log, and one of
\* them has the least name.
LEMMA LeastLive ==
    ASSUME log.dirents \in Seq(Dirents), NEW pino, NEW from,
           LiveFrom(pino, from) # {}
    PROVE  \E d \in LiveFrom(pino, from) : \A e \in LiveFrom(pino, from) : d.name <= e.name
<1> DEFINE live == LiveFrom(pino, from)
           T == {e.name : e \in live}
<1>1. \A e \in live : e.name \in Nat
  <2> SUFFICES ASSUME NEW e \in live PROVE e.name \in Nat
    OBVIOUS
  <2>1. PICK i \in 1 .. Len(log.dirents) : log.dirents[i] = e
    BY InSequence DEF LiveFrom
  <2> QED BY <2>1, DirentTyped
<1>2. T \subseteq Nat /\ T # {}
  BY <1>1
<1>3. PICK m \in T : \A y \in T : m <= y
  <2> HIDE DEF T
  <2> QED BY <1>2, LeastNatural
<1>4. PICK d \in live : d.name = m
  OBVIOUS
<1>5. \A e \in live : e.name \in T
  OBVIOUS
<1> HIDE DEF T, live
<1>6. \A e \in live : d.name <= e.name
  BY <1>3, <1>4, <1>5
<1> QED BY <1>4, <1>6 DEF live

\* What a place lists, and what is behind it.
PlaceOK(r, p) ==
    /\ p.items \in Seq(Items)
    /\ \A y \in p.down \cup p.on : y \in Regions /\ Ranks[y] < Ranks[r]

Nothing == [items |-> <<>>, down |-> {}, on |-> {}]
Wrong   == [items |-> <<Broken>>, down |-> {}, on |-> {}]

\* A name leads on to the next, and into a directory one level deeper.
LEMMA PlaceTyped ==
    ASSUME log.dirents \in Seq(Dirents), log.inodes \in Seq(Inodes), NEW r \in Regions
    PROVE  PlaceOK(r, Place(r))
<1> DEFINE live   == LiveFrom(r.pino, r.from)
           d      == CHOOSE d \in live : \A e \in live : d.name <= e.name
           newest == NewestOf(d.ino)
           meta   == CHOOSE m \in newest : TRUE
           path   == Append(r.path, d.name)
           is_dir == meta.kind = "dir"
           inside == r.depth < MAX_DIR_DEPTH
           entry  == [path |-> path, kind |-> meta.kind,
                      size |-> IF is_dir THEN 0 ELSE meta.isize]
           bad    == d.name = Unsafe \/ newest = {} \/ StrLen(path) >= PATH_CAP
           sub    == Region(r.depth + 1, d.ino, 0, path)
           next   == Region(r.depth, r.pino, d.name + 1, r.path)
<1> DEFINE p == Place(r)
<1>1. /\ live = {} => p = Nothing
      /\ live # {} /\ bad => p = Wrong
      /\ live # {} /\ ~bad =>
           p = [items |-> IF is_dir /\ ~inside THEN <<entry, Broken>> ELSE <<entry>>,
                down  |-> IF is_dir /\ inside THEN {sub} ELSE {},
                on    |-> {next}]
  BY DEF Place, Nothing, Wrong
<1>2. /\ r.depth \in 0 .. MAX_DIR_DEPTH /\ r.pino \in Word /\ r.from \in 0 .. TopName
      /\ r.path \in Seq(Names) /\ TopName \in Nat /\ MAX_DIR_DEPTH \in Nat
  BY FsTreeAssumption, TopNameBounds DEF Regions
<1>3. ASSUME live # {}, ~bad
      PROVE  /\ entry \in Items
             /\ next \in Regions /\ next.depth = r.depth /\ r.from < next.from
             /\ inside => sub \in Regions /\ sub.depth = r.depth + 1
  <2>1. d \in live
    <3>1. \E x \in live : \A e \in live : x.name <= e.name
      BY <1>3, LeastLive
    <3> HIDE DEF live
    <3> QED BY <3>1
  <2> HIDE DEF d
  <2>2. PICK i \in 1 .. Len(log.dirents) : log.dirents[i] = d
    BY <2>1, InSequence DEF LiveFrom
  <2>3. d.ino \in Word /\ d.name \in Names /\ d.name \in Nat /\ d.name + 1 \in 0 .. TopName
    BY <1>3, <2>2, DirentTyped, TopNameBounds
  <2>4. r.from <= d.name
    BY <2>1 DEF LiveFrom
  <2>5. meta \in newest
    BY <1>3
  <2> HIDE DEF meta
  <2>6. PICK j \in 1 .. Len(log.inodes) : log.inodes[j] = meta
    BY <2>5, InSequence DEF NewestOf
  <2>7. meta.isize \in Nat /\ meta.kind \in {"dir", "reg", "other"}
    BY <2>6, InodeTyped DEF Inodes
  <2>8. path \in Seq(Names)
    BY <1>2, <2>3
  <2> HIDE DEF path, bad, live
  <2>9. entry \in Items
    BY <2>7, <2>8 DEF Items
  <2>10. next \in Regions /\ next.depth = r.depth /\ r.from < next.from
    <3>1. r.from < d.name + 1
      BY <1>2, <2>3, <2>4
    <3> QED BY <1>2, <2>3, <3>1 DEF Regions, Region
  <2>11. ASSUME inside PROVE sub \in Regions /\ sub.depth = r.depth + 1
    <3>1. r.depth + 1 \in 0 .. MAX_DIR_DEPTH /\ 0 \in 0 .. TopName
      BY <1>2, <2>11
    <3> QED BY <2>3, <2>8, <3>1 DEF Regions, Region
  <2> QED BY <2>9, <2>10, <2>11
<1>4. Broken \in Items
  BY DEF Broken, Items
<1> HIDE DEF p, live, d, entry, is_dir, inside, bad, sub, next
<1>5. ASSUME live # {}, ~bad PROVE PlaceOK(r, p)
  <2>1. entry \in Items /\ next \in Regions /\ Ranks[next] < Ranks[r]
        /\ (inside => sub \in Regions /\ Ranks[sub] < Ranks[r])
    BY <1>3, <1>5, RanksOf
  <2> DEFINE items == IF is_dir /\ ~inside THEN <<entry, Broken>> ELSE <<entry>>
             down  == IF is_dir /\ inside THEN {sub} ELSE {}
  <2>0. p = [items |-> items, down |-> down, on |-> {next}]
    BY <1>1, <1>5
  <2> HIDE DEF items, down
  <2>2. p.items = items /\ p.down = down /\ p.on = {next}
    BY <2>0
  <2>3. p.items \in Seq(Items)
    <3>1. <<entry, Broken>> \in Seq(Items) /\ <<entry>> \in Seq(Items)
      BY <1>4, <2>1
    <3> QED BY <2>2, <3>1 DEF items
  <2>4. \A y \in p.down \cup p.on : y \in Regions /\ Ranks[y] < Ranks[r]
    BY <2>1, <2>2 DEF down
  <2> QED BY <2>3, <2>4 DEF PlaceOK
<1>6. PlaceOK(r, Nothing) /\ PlaceOK(r, Wrong)
  BY <1>4 DEF PlaceOK, Nothing, Wrong
<1> QED BY <1>1, <1>5, <1>6 DEF p

\* Every place is followed by places of a smaller rank, whatever cycles the
\* log has.
LEMMA PlacesRanked ==
    ASSUME log.dirents \in Seq(Dirents), log.inodes \in Seq(Inodes)
    PROVE  /\ Ranked(Places, Items, Ranks, MaxRank) /\ MaxRank \in Nat
           /\ DOMAIN Places = Regions
<1>1. MAX_DIR_DEPTH \in Nat /\ TopName \in Nat
  BY FsTreeAssumption, TopNameBounds
<1>2. MaxRank \in Nat
  <2> DEFINE a == MAX_DIR_DEPTH + 1
             b == TopName + 1
  <2>1. a \in Nat /\ b \in Nat
    BY <1>1
  <2> HIDE DEF a, b
  <2>2. a * b \in Nat
    BY <2>1
  <2> QED BY <2>2 DEF MaxRank, a, b
<1>3. DOMAIN Places = Regions /\ \A r \in Regions : Places[r] = Place(r)
  BY DEF Places
<1>4. ASSUME NEW r \in Regions PROVE PlaceOK(r, Places[r])
  BY <1>3, PlaceTyped
<1>5. ASSUME NEW r \in DOMAIN Places
      PROVE  /\ Ranks[r] \in 0 .. MaxRank
             /\ Places[r].items \in Seq(Items)
             /\ \A y \in Places[r].down \cup Places[r].on :
                  y \in DOMAIN Places /\ Ranks[y] < Ranks[r]
  BY <1>3, <1>4, RanksOf DEF PlaceOK
<1>6. Ranked(Places, Items, Ranks, MaxRank)
  BY <1>5 DEF Ranked
<1> QED BY <1>2, <1>3, <1>6

\* What is listed from a place on.
LEMMA PreorderUnfolds ==
    ASSUME log.dirents \in Seq(Dirents), log.inodes \in Seq(Inodes), NEW r \in Regions
    PROVE  /\ Preorder[r] \in Seq(Items)
           /\ Preorder[r] = ListedFrom(Places, Preorder, r)
<1>1. Preorder = Listing(Places)
  BY DEF Preorder, Places
<1>2. Ranked(Places, Items, Ranks, MaxRank) /\ MaxRank \in Nat /\ r \in DOMAIN Places
  BY PlacesRanked
<1>3. Listing(Places)[r] \in Seq(Items)
  BY <1>2, ListingTyped
<1>4. Listing(Places)[r] = ListedFrom(Places, Listing(Places), r)
  BY <1>2, ListingUnfolds
<1> QED BY <1>1, <1>3, <1>4

\* The equation of Preorder, for each shape of a place.
LEMMA PlaceLists ==
    ASSUME log.dirents \in Seq(Dirents), log.inodes \in Seq(Inodes), NEW r \in Regions, NEW p, p = Place(r)
    PROVE  /\ Preorder[r] \in Seq(Items) /\ p.items \in Seq(Items)
           /\ p.down = {} /\ p.on = {} => Preorder[r] = p.items
           /\ \A y : p.on = {y} =>
                /\ y \in Regions /\ Preorder[y] \in Seq(Items)
                /\ p.down = {} => Preorder[r] = p.items \o Preorder[y]
                /\ \A x : p.down = {x} =>
                     /\ x \in Regions /\ Preorder[x] \in Seq(Items)
                     /\ Preorder[r] = (p.items \o Preorder[x]) \o Preorder[y]
<1>1. Preorder[r] \in Seq(Items) /\ Preorder[r] = ListedFrom(Places, Preorder, r)
  BY PreorderUnfolds
<1>2. Places[r] = p /\ Ranked(Places, Items, Ranks, MaxRank) /\ DOMAIN Places = Regions
  BY PlacesRanked DEF Places
<1>3. p.items \in Seq(Items) /\ \A y \in p.down \cup p.on : y \in Regions
  BY <1>2 DEF Ranked
<1>4. Preorder[r] = (p.items \o At(Preorder, p.down)) \o At(Preorder, p.on)
  BY <1>1, <1>2 DEF ListedFrom
<1>5. At(Preorder, {}) = <<>> /\ \A y : At(Preorder, {y}) = Preorder[y]
  BY DEF At
<1>6. \A y \in Regions : Preorder[y] \in Seq(Items)
  BY PreorderUnfolds
<1>7. \A z \in Seq(Items) : z \o <<>> = z
  OBVIOUS
<1>8. ASSUME p.down = {}, p.on = {} PROVE Preorder[r] = p.items
  BY <1>3, <1>4, <1>5, <1>7, <1>8
<1>9. ASSUME NEW y, p.on = {y} PROVE y \in Regions /\ Preorder[y] \in Seq(Items)
  BY <1>3, <1>6, <1>9
<1>10. ASSUME NEW y, p.on = {y}, p.down = {} PROVE Preorder[r] = p.items \o Preorder[y]
  <2>1. p.items \o <<>> = p.items
    BY <1>3, <1>7
  <2> QED BY <1>4, <1>5, <1>10, <2>1
<1>11. ASSUME NEW y, p.on = {y}, NEW x, p.down = {x}
       PROVE  /\ x \in Regions /\ Preorder[x] \in Seq(Items)
              /\ Preorder[r] = (p.items \o Preorder[x]) \o Preorder[y]
  <2>1. x \in Regions
    BY <1>3, <1>11
  <2>2. At(Preorder, p.down) = Preorder[x] /\ At(Preorder, p.on) = Preorder[y]
    BY <1>5, <1>11
  <2> QED BY <1>4, <1>6, <2>1, <2>2
<1> QED BY <1>1, <1>3, <1>8, <1>9, <1>10, <1>11

-----------------------------------------------------------------------------
(* The sorted nodes and the places of the log.                             *)

\* Inductive: the sorted inode nodes are those of the log.
Gathered ==
    pc \in {"walk", "file"} =>
      /\ \A i \in 1 .. Len(inodes) : \E j \in 1 .. Len(log.inodes) : inodes[i] = log.inodes[j]
      /\ \A j \in 1 .. Len(log.inodes) : \E i \in 1 .. Len(inodes) : inodes[i] = log.inodes[j]

\* The sort loses no inode node, and later steps leave them alone.
LEMMA GatheredHolds == Spec => []Gathered
<1>1. Init => Gathered
  BY DEF Init, Gathered
<1>2. TypeOK /\ Gathered /\ [Next]_vars => Gathered'
  <2> SUFFICES ASSUME TypeOK, Gathered, [Next]_vars PROVE Gathered'
    OBVIOUS
  <2>1. CASE Start
    <3> DEFINE s == log.inodes
               t == inodes'
    <3>1. log' = log /\ s \in Seq(Inodes) /\ (t \in Reorderings(s) \/ pc' = "done")
      BY <2>1 DEF Start, Fail, TypeOK
    <3> HIDE DEF s, t
    <3>2. t \in Reorderings(s) =>
            /\ \A i \in 1 .. Len(t) : \E j \in 1 .. Len(s) : t[i] = s[j]
            /\ \A j \in 1 .. Len(s) : \E i \in 1 .. Len(t) : t[i] = s[j]
      BY <3>1, ReorderingOf
    <3> QED BY <3>1, <3>2 DEF Gathered, s, t
  <2>2. CASE /\ inodes' = inodes /\ log' = log
             /\ pc' \in {"walk", "file"} => pc \in {"walk", "file"}
    BY <2>2 DEF Gathered
  <2> QED BY <2>1, <2>2 DEF Next, walk_directory, extract_regular_file, vars,
        SkipDeleted, RejectChild, EnterDirectory, RejectDirectory, VisitOther, VisitRegular,
        RejectRegular, LeaveDirectory, ReplayFragment, RejectFragment, WriteFile, RejectWrite,
        Returned, ChildAccepted, AtChild, Fail
<1> QED BY <1>1, <1>2, TypeCorrect, PTL DEF Spec

\* A directory is entered at the place of its first name.
LEMMA FrameStands ==
    ASSUME NEW s \in Seq(Dirents), DirentsSorted(s), NEW k \in Word, NEW path, NEW plen,
           NEW d \in Nat, NEW fr,
           fr = [pino |-> k, next |-> LowerBound([i \in 1 .. Len(s) |-> s[i].pino], k),
                 path |-> path, plen |-> plen]
    PROVE  StandsAt(s, fr, d + 1, Region(d, k, 0, path))
<1> DEFINE keys == [i \in 1 .. Len(s) |-> s[i].pino]
           n == Len(s)
           lo == LowerBound(keys, k)
<1>1. n \in Nat /\ k \in Nat
  BY WordsAreNat
<1>2. Len(keys) = n /\ \A i \in 1 .. n : keys[i] = s[i].pino
  BY <1>1
<1>3. \A i \in 1 .. n : keys[i] \in Nat /\ s[i].name \in Nat
  BY <1>2, DirentTyped
<1>4. ASSUME NEW i \in 1 .. n, NEW j \in 1 .. n, i < j
      PROVE  keys[i] <= keys[j]
  <2>1. dirent_le(s[i], s[j])
    BY <1>4 DEF DirentsSorted
  <2> QED BY <1>2, <1>3, <2>1 DEF dirent_le
<1>5. fr.pino = k /\ fr.next = lo /\ fr.path = path
  OBVIOUS
<1> HIDE DEF keys, n
<1>6. /\ lo \in 1 .. n + 1
      /\ \A i \in 1 .. lo - 1 : keys[i] < k
      /\ \A i \in lo .. n : keys[i] >= k
  BY <1>1, <1>2, <1>3, <1>4, LowerBoundFound
<1> HIDE DEF lo
<1>7. ASSUME NEW i \in 1 .. n
      PROVE  /\ s[i].pino = k => (0 <= s[i].name <=> lo <= i)
             /\ lo <= i => k <= s[i].pino
  <2>1. i \in lo .. n \/ i \in 1 .. lo - 1
    BY <1>1, <1>6
  <2>2. CASE i \in lo .. n
    <3>1. keys[i] >= k /\ lo <= i
      BY <1>6, <2>2
    <3> QED BY <1>1, <1>2, <1>3, <3>1
  <2>3. CASE i \in 1 .. lo - 1
    <3>1. keys[i] < k /\ ~ (lo <= i)
      BY <1>6, <2>3
    <3> QED BY <1>1, <1>2, <1>3, <3>1
  <2> QED BY <2>1, <2>2, <2>3
<1>8. (d + 1) - 1 = d
  OBVIOUS
<1> QED BY <1>5, <1>7, <1>8 DEF StandsAt, Region, n

\* Behind a name, and below it.
NextPlace(r) == Region(r.depth, r.pino, Winner.name + 1, r.path)
SubPlace     == Region(Len(stack), Winner.ino, 0, ChildPath)

\* The dirents from the cursor on, and those behind the run of its name.
LEMMA AroundRun ==
    ASSUME TypeOK, Sorted, AtChild, NEW k \in 1 .. Len(dirents), dirents[k].pino = Top.pino
    PROVE  /\ Winner.name \in Nat /\ dirents[k].name \in Nat
           /\ Top.next <= k => Winner.name <= dirents[k].name
           /\ Winner.name + 1 <= dirents[k].name <=> RunEnd(Top.next) + 1 <= k
<1> DEFINE i == Top.next
           j == RunEnd(Top.next)
           n == Len(dirents)
<1>1. /\ i \in 1 .. n /\ j \in i .. n /\ SameName(i, j) /\ (j < n => ~SameName(i, j + 1))
      /\ n \in Nat /\ dirents \in Seq(Dirents)
  BY RunFound DEF TypeOK
<1>2. /\ dirents[i].pino = Top.pino /\ dirents[j].pino = Top.pino
      /\ dirents[i].name = Winner.name /\ dirents[j].name = Winner.name
  BY <1>1 DEF SameName, Winner, AtChild
<1> HIDE DEF i, j, n
<1>3. i \in 1 .. n /\ j \in 1 .. n /\ k \in 1 .. n
  BY <1>1 DEF n
<1>4. \A x \in 1 .. n : dirents[x].name \in Nat /\ dirents[x].pino \in Nat
  BY <1>1, DirentTyped DEF n
<1>5. \A x, y \in 1 .. n : x < y => dirent_le(dirents[x], dirents[y])
  BY DEF Sorted, DirentsSorted, n
<1>6. i <= k => Winner.name <= dirents[k].name
  <2>1. CASE k = i
    BY <1>2, <1>3, <1>4, <2>1
  <2>2. CASE i < k
    <3>1. dirent_le(dirents[i], dirents[k])
      BY <1>3, <1>5, <2>2
    <3> QED BY <1>2, <1>3, <1>4, <3>1 DEF dirent_le
  <2> QED BY <1>3, <2>1, <2>2
<1>7. k <= j => dirents[k].name <= Winner.name
  <2>1. CASE k = j
    BY <1>2, <1>3, <1>4, <2>1
  <2>2. CASE k < j
    <3>1. dirent_le(dirents[k], dirents[j])
      BY <1>3, <1>5, <2>2
    <3> QED BY <1>2, <1>3, <1>4, <3>1 DEF dirent_le
  <2> QED BY <1>3, <2>1, <2>2
<1>8. j < k => Winner.name < dirents[k].name
  <2> SUFFICES ASSUME j < k PROVE Winner.name < dirents[k].name
    OBVIOUS
  <2>1. j + 1 \in 1 .. n /\ j < j + 1 /\ j < n /\ (k = j + 1 \/ j + 1 < k)
    BY <1>1, <1>3
  <2>2. dirent_le(dirents[j], dirents[j + 1]) /\ dirent_le(dirents[j], dirents[k])
        /\ (k = j + 1 \/ dirent_le(dirents[j + 1], dirents[k]))
    BY <1>3, <1>5, <2>1
  <2>3. ~ (dirents[j + 1].pino = Top.pino /\ dirents[j + 1].name = Winner.name)
    BY <1>1, <1>2, <2>1 DEF SameName
  <2>4. dirents[j + 1].name \in Nat /\ dirents[j + 1].pino \in Nat
    BY <1>4, <2>1
  <2> QED BY <1>2, <1>3, <1>4, <2>2, <2>3, <2>4 DEF dirent_le
<1>9. Winner.name \in Nat /\ dirents[k].name \in Nat
  BY <1>2, <1>3, <1>4
<1>10. Winner.name + 1 <= dirents[k].name <=> j + 1 <= k
  <2> DEFINE a == Winner.name
             b == dirents[k].name
  <2>1. a \in Nat /\ b \in Nat /\ j \in Nat /\ k \in Nat /\ (k <= j => b <= a) /\ (j < k => a < b)
    BY <1>1, <1>3, <1>7, <1>8, <1>9
  <2> HIDE DEF a, b
  <2>2. a + 1 <= b <=> j + 1 <= k
    BY <2>1
  <2> QED BY <2>2 DEF a, b
<1> QED BY <1>6, <1>9, <1>10 DEF i, j

\* Behind the run of a name the frame stands at the next place.
LEMMA StandsNext ==
    ASSUME TypeOK, Sorted, AtChild, NEW r, StandsAt(dirents, Top, Len(stack), r), NEW fr,
           fr = [Top EXCEPT !.next = RunEnd(Top.next) + 1]
    PROVE  StandsAt(dirents, fr, Len(stack), NextPlace(r))
<1> DEFINE i == Top.next
           j == RunEnd(Top.next)
<1>1. Top \in Frames /\ i \in Nat /\ j \in Nat /\ i <= j
  BY RunFound DEF TypeOK
<1>2. fr.pino = Top.pino /\ fr.path = Top.path /\ fr.next = j + 1
  BY <1>1 DEF Frames
<1>3. ASSUME NEW k \in 1 .. Len(dirents)
      PROVE  /\ dirents[k].pino = Top.pino => (Winner.name + 1 <= dirents[k].name <=> j + 1 <= k)
             /\ j + 1 <= k => Top.pino <= dirents[k].pino
  <2>1. dirents[k].pino = Top.pino => (Winner.name + 1 <= dirents[k].name <=> j + 1 <= k)
    BY AroundRun
  <2>2. j + 1 <= k => i <= k
    <3> HIDE DEF i, j
    <3> QED BY <1>1
  <2> QED BY <2>1, <2>2 DEF StandsAt
<1> HIDE DEF j
<1> QED BY <1>2, <1>3 DEF StandsAt, NextPlace, Region

\* A dirent is live if and only if it is the newest of its name.
LEMMA LiveWinner ==
    ASSUME TypeOK, Sorted, Unambiguous, AtChild, NEW e \in Range(log.dirents),
           e.pino = Winner.pino, e.name = Winner.name
    PROVE  Live(e) <=> e = Winner /\ Winner.ino # 0
<1> DEFINE n == Len(log.dirents)
           w == Winner
<1>1. log.dirents \in Seq(Dirents)
  BY DEF TypeOK
<1>2. PICK i \in 1 .. n : log.dirents[i] = e
  BY <1>1, InSequence
<1>3. /\ \E k \in 1 .. n : log.dirents[k] = w
      /\ \A k \in 1 .. n : log.dirents[k].pino = w.pino /\ log.dirents[k].name = w.name
                             => log.dirents[k].version <= w.version
  BY WinnerIsNewest
<1>4. PICK k \in 1 .. n : log.dirents[k] = w
  BY <1>3
<1>5. e.version \in Nat /\ w.version \in Nat
  BY <1>1, <1>2, <1>4, DirentTyped
<1> HIDE DEF w
<1>6. ASSUME Live(e) PROVE e = w /\ w.ino # 0
  <2>1. w.version <= e.version /\ e.ino # 0
    BY <1>4, <1>6 DEF Live, w
  <2>2. e.version <= w.version
    BY <1>2, <1>3 DEF w
  <2>3. e.version = w.version
    BY <1>5, <2>1, <2>2
  <2>4. <<e.pino, e.name, e.version>> = <<w.pino, w.name, w.version>>
    BY <2>3 DEF w
  <2>5. i = k
    BY <1>2, <1>4, <2>4 DEF Unambiguous
  <2> QED BY <1>2, <1>4, <2>1, <2>5
<1>7. ASSUME e = w, w.ino # 0 PROVE Live(e)
  BY <1>3, <1>7 DEF Live
<1> QED BY <1>6, <1>7 DEF w

\* A live dirent before the cursor is one of the sorted dirents there.
LEMMA LiveIsAhead ==
    ASSUME TypeOK, Sorted, pc = "walk", NEW fr, NEW i, NEW r, StandsAt(dirents, fr, i, r),
           NEW e \in LiveFrom(r.pino, r.from)
    PROVE  \E k \in 1 .. Len(dirents) : dirents[k] = e /\ e.pino = fr.pino /\ fr.next <= k
<1>1. log.dirents \in Seq(Dirents) /\ dirents \in Seq(Dirents)
  BY DEF TypeOK
<1>2. PICK j \in 1 .. Len(log.dirents) : log.dirents[j] = e
  BY <1>1, InSequence DEF LiveFrom
<1>3. PICK k \in 1 .. Len(dirents) : dirents[k] = e
  BY <1>2 DEF Sorted
<1>4. e.pino = fr.pino /\ r.from <= e.name
  BY DEF LiveFrom, StandsAt
<1>5. fr.next <= k
  BY <1>3, <1>4 DEF StandsAt
<1> QED BY <1>3, <1>4, <1>5

\* Of the live dirents that a frame has before it, the winner is the next; a
\* deleted name is none of them.
LEMMA NextLive ==
    ASSUME TypeOK, Sorted, Unambiguous, AtChild, NEW r, StandsAt(dirents, Top, Len(stack), r)
    PROVE  LET live == LiveFrom(r.pino, r.from)
           IN  /\ Winner.ino # 0 =>
                    /\ live # {}
                    /\ (CHOOSE d \in live : \A e \in live : d.name <= e.name) = Winner
               /\ Winner.ino = 0 => live = LiveFrom(r.pino, Winner.name + 1)
<1> DEFINE live == LiveFrom(r.pino, r.from)
           w == Winner
<1>1. pc = "walk" /\ r.pino = Top.pino /\ w.pino = Top.pino /\ w \in Range(log.dirents)
  <2>1. w \in Range(log.dirents)
    BY WinnerIsNewest, InSequence DEF TypeOK
  <2> QED BY <2>1, WinnerTyped DEF AtChild, StandsAt
<1>2. ASSUME NEW e \in live
      PROVE  e.pino = w.pino /\ e.name \in Nat /\ w.name \in Nat /\ w.name <= e.name
  <2>1. PICK k \in 1 .. Len(dirents) : dirents[k] = e /\ e.pino = Top.pino /\ Top.next <= k
    BY <1>1, LiveIsAhead
  <2> QED BY <1>1, <2>1, AroundRun
<1>3. w.name \in Nat /\ r.from <= w.name
  <2>1. RunEnd(Top.next) \in 1 .. Len(dirents) /\ Top.next <= RunEnd(Top.next)
        /\ dirents[RunEnd(Top.next)] = w
    BY RunFound DEF TypeOK, Winner
  <2>2. w.name \in Nat
    BY <1>1, <2>1, AroundRun
  <2> QED BY <1>1, <2>1, <2>2 DEF StandsAt
<1>4. ASSUME w.ino # 0
      PROVE  w \in live /\ \A d \in live : d.name = w.name => d = w
  <2>1. Live(w)
    BY <1>1, <1>4, LiveWinner
  <2>2. w \in live
    BY <1>1, <1>3, <2>1 DEF LiveFrom
  <2>3. ASSUME NEW d \in live, d.name = w.name PROVE d = w
    <3>1. Live(d) /\ d \in Range(log.dirents) /\ d.pino = w.pino
      BY <1>2 DEF LiveFrom
    <3> QED BY <2>3, <3>1, LiveWinner
  <2> QED BY <2>2, <2>3
<1>5. ASSUME w.ino = 0 PROVE live = LiveFrom(r.pino, w.name + 1)
  <2>1. ASSUME NEW e \in live PROVE e \in LiveFrom(r.pino, w.name + 1)
    <3>1. Live(e) /\ e \in Range(log.dirents) /\ e.pino = w.pino /\ e.pino = r.pino
      BY <1>2 DEF LiveFrom
    <3>2. e.name # w.name
      BY <1>5, <3>1, LiveWinner
    <3>3. w.name + 1 <= e.name
      <4> DEFINE a == w.name
                 b == e.name
      <4>1. a \in Nat /\ b \in Nat /\ a <= b /\ a # b
        BY <1>2, <3>2
      <4> HIDE DEF a, b
      <4>2. a + 1 <= b
        BY <4>1
      <4> QED BY <4>2 DEF a, b
    <3> QED BY <3>1, <3>3 DEF LiveFrom
  <2>2. ASSUME NEW e \in LiveFrom(r.pino, w.name + 1) PROVE e \in live
    <3>1. Live(e) /\ e \in Range(log.dirents) /\ e.pino = r.pino /\ w.name + 1 <= e.name
      BY DEF LiveFrom
    <3>2. PICK j \in 1 .. Len(log.dirents) : log.dirents[j] = e
      BY <3>1, InSequence DEF TypeOK
    <3>3. PICK k \in 1 .. Len(dirents) : dirents[k] = e
      BY <1>1, <3>2 DEF Sorted
    <3>4. RunEnd(Top.next) + 1 <= k
      BY <1>1, <3>1, <3>3, AroundRun
    <3>5. Top.next <= k
      BY <3>4, RunFound DEF TypeOK
    <3>6. r.from <= e.name
      BY <1>1, <3>1, <3>3, <3>5 DEF StandsAt
    <3> QED BY <3>1, <3>6 DEF LiveFrom
  <2> QED BY <2>1, <2>2
<1>6. ASSUME w.ino # 0
      PROVE  (CHOOSE d \in live : \A e \in live : d.name <= e.name) = w
  <2> HIDE DEF live, w
  <2>1. w \in live /\ \A e \in live : w.name <= e.name
    BY <1>2, <1>4, <1>6
  <2>2. ASSUME NEW d \in live, \A e \in live : d.name <= e.name PROVE d = w
    <3>1. d.name <= w.name /\ w.name <= d.name /\ d.name \in Nat /\ w.name \in Nat
      BY <1>2, <2>1, <2>2
    <3>2. d.name = w.name
      BY <3>1
    <3> QED BY <1>4, <1>6, <3>2
  <2> QED BY <2>1, <2>2
<1> QED BY <1>4, <1>5, <1>6

\* A frame whose cursor is behind its directory has nothing before it.
LEMMA NothingLive ==
    ASSUME TypeOK, Sorted, pc = "walk", stack # <<>>, ~AtChild,
           NEW r, StandsAt(dirents, Top, Len(stack), r)
    PROVE  LiveFrom(r.pino, r.from) = {}
<1> SUFFICES ASSUME NEW e \in LiveFrom(r.pino, r.from) PROVE FALSE
  OBVIOUS
<1> DEFINE n == Len(dirents)
           i == Top.next
<1>1. PICK k \in 1 .. n : dirents[k] = e /\ e.pino = Top.pino /\ i <= k
  BY LiveIsAhead
<1>2. n \in Nat /\ dirents \in Seq(Dirents) /\ i \in Nat \ {0} /\ Top.pino \in Nat
  <2>1. Len(stack) \in 1 .. Len(stack) /\ Top \in Frames
    BY DEF TypeOK, Top
  <2> QED BY <2>1, WordsAreNat DEF TypeOK, Frames
<1> HIDE DEF n, i
<1>3. i \in 1 .. n
  BY <1>1, <1>2
<1>4. dirents[i].pino # Top.pino /\ Top.pino <= dirents[i].pino
  <2>1. i <= n
    BY <1>2, <1>3
  <2>2. dirents[i].pino # Top.pino
    BY <2>1 DEF AtChild, i, n
  <2>3. i <= i
    BY <1>2
  <2>4. Top.pino <= dirents[i].pino
    BY <1>3, <2>3 DEF StandsAt, i, n
  <2> QED BY <2>2, <2>4
<1>5. dirents[i].pino \in Nat /\ dirents[k].pino \in Nat
  BY <1>2, <1>3, <1>1, DirentTyped DEF n
<1>6. dirents[i].pino <= dirents[k].pino
  <2>1. CASE i = k
    BY <1>5, <2>1
  <2>2. CASE i < k
    <3>1. dirent_le(dirents[i], dirents[k])
      BY <1>3, <2>2 DEF Sorted, DirentsSorted, n
    <3> QED BY <1>5, <3>1 DEF dirent_le
  <2> QED BY <1>1, <1>2, <2>1, <2>2
<1> QED BY <1>1, <1>2, <1>4, <1>5, <1>6

\* The node taken for an inode is the newest of the log, if it has any.
LEMMA NewestIsMeta ==
    ASSUME TypeOK, Sorted, Gathered, Unambiguous, pc = "walk", NEW ino \in Word
    PROVE  /\ HasMeta(ino) <=> NewestOf(ino) # {}
           /\ HasMeta(ino) => (CHOOSE m \in NewestOf(ino) : TRUE) = Meta(ino)
<1> DEFINE N == NewestOf(ino)
<1>1. log.inodes \in Seq(Inodes) /\ inodes \in Seq(Inodes)
  BY DEF TypeOK
<1>2. ASSUME NEW s \in Range(log.inodes)
      PROVE  \E i \in 1 .. Len(inodes) : inodes[i] = s
  <2>1. PICK j \in 1 .. Len(log.inodes) : log.inodes[j] = s
    BY <1>1, InSequence
  <2> QED BY <2>1 DEF Gathered
<1>3. ASSUME N # {} PROVE HasMeta(ino)
  <2>1. PICK s \in Range(log.inodes) : s.ino = ino
    BY <1>3 DEF NewestOf
  <2>2. PICK i \in 1 .. Len(inodes) : inodes[i] = s
    BY <1>2
  <2>3. i \in NodesOf(ino)
    BY <2>1, <2>2 DEF NodesOf
  <2> QED BY <2>3, RunOfInode DEF HasMeta
<1>4. ASSUME HasMeta(ino) PROVE Meta(ino) \in N
  <2>1. PICK i \in 1 .. Len(inodes) : Meta(ino) = inodes[i] /\ IsNewest(i, NodesOf(ino))
    BY <1>4, MetaIsNewest
  <2>2. Meta(ino) \in Range(log.inodes) /\ Meta(ino).ino = ino
    <3>1. \E j \in 1 .. Len(log.inodes) : inodes[i] = log.inodes[j]
      BY DEF Gathered
    <3>2. inodes[i].ino = ino
      BY <2>1 DEF IsNewest, NodesOf
    <3> QED BY <1>1, <2>1, <3>1, <3>2, InSequence
  <2>3. ASSUME NEW s \in Range(log.inodes), s.ino = ino PROVE s.version <= Meta(ino).version
    <3>1. PICK k \in 1 .. Len(inodes) : inodes[k] = s
      BY <1>2
    <3>2. k \in NodesOf(ino)
      BY <2>3, <3>1 DEF NodesOf
    <3> QED BY <2>1, <3>1, <3>2 DEF IsNewest
  <2> QED BY <2>2, <2>3 DEF NewestOf
<1>5. ASSUME NEW r \in N, NEW s \in N PROVE r = s
  <2>1. /\ r \in Range(log.inodes) /\ s \in Range(log.inodes) /\ r.ino = ino /\ s.ino = ino
        /\ r.version <= s.version /\ s.version <= r.version
    BY DEF NewestOf
  <2>2. PICK i \in 1 .. Len(log.inodes) : log.inodes[i] = r
    BY <1>1, <2>1, InSequence
  <2>3. PICK j \in 1 .. Len(log.inodes) : log.inodes[j] = s
    BY <1>1, <2>1, InSequence
  <2>4. r.version \in Nat /\ s.version \in Nat
    BY <1>1, <2>2, <2>3, InodeTyped
  <2>5. <<r.ino, r.version>> = <<s.ino, s.version>>
    BY <2>1, <2>4
  <2>6. i = j
    BY <2>2, <2>3, <2>5 DEF Unambiguous
  <2> QED BY <2>2, <2>3, <2>6
<1> HIDE DEF N
<1>6. ASSUME HasMeta(ino) PROVE (CHOOSE m \in N : TRUE) = Meta(ino)
  BY <1>4, <1>5, <1>6
<1> QED BY <1>3, <1>4, <1>6 DEF N

-----------------------------------------------------------------------------
(* The walk and the listing.                                               *)

\* Inductive: the length each frame carries is that of its path.
Measures(s) == \A i \in 1 .. Len(s) : s[i].path = <<>> \/ s[i].plen = StrLen(s[i].path)

\* The name just visited leaves the paths of the frames alone.
LEMMA AdvancedFrames ==
    ASSUME TypeOK, AtChild
    PROVE  /\ Len(stack) \in Nat \ {0} /\ Top = stack[Len(stack)] /\ Top \in Frames
           /\ Advanced \in Seq(Frames) /\ Len(Advanced) = Len(stack)
           /\ \A i \in 1 .. Len(stack) - 1 : Advanced[i] = stack[i]
           /\ Advanced[Len(stack)] = [Top EXCEPT !.next = RunEnd(Top.next) + 1]
           /\ \A i \in 1 .. Len(stack) :
                Advanced[i].path = stack[i].path /\ Advanced[i].plen = stack[i].plen
<1> DEFINE n == Len(stack)
           moved == [Top EXCEPT !.next = RunEnd(Top.next) + 1]
<1>1. n \in Nat \ {0} /\ stack \in Seq(Frames) /\ Top = stack[n] /\ Top \in Frames
  BY RunFound DEF Top, TypeOK
<1>2. Advanced = [stack EXCEPT ![n] = moved]
  BY DEF Advanced
<1>3. moved.path = Top.path /\ moved.plen = Top.plen
  BY <1>1 DEF Frames
<1> HIDE DEF moved
<1>4. Advanced[n] = moved /\ \A i \in 1 .. n : i # n => Advanced[i] = stack[i]
  BY <1>1, <1>2
<1>5. \A i \in 1 .. n - 1 : i \in 1 .. n /\ i # n
  BY <1>1
<1>6. \A i \in 1 .. n - 1 : Advanced[i] = stack[i]
  BY <1>4, <1>5
<1>7. \A i \in 1 .. n : Advanced[i].path = stack[i].path /\ Advanced[i].plen = stack[i].plen
  BY <1>1, <1>3, <1>4
<1>8. Advanced \in Seq(Frames) /\ Len(Advanced) = n
  BY WinnerTyped
<1> QED BY <1>1, <1>4, <1>6, <1>7, <1>8 DEF moved

\* The length carried for a child is that of its path.
LEMMA ChildMeasured ==
    ASSUME TypeOK, Measures(stack), AtChild, Winner.name # Unsafe
    PROVE  /\ ChildPath \in Seq(Names) /\ Winner.name \in Names
           /\ ChildLen = StrLen(ChildPath) /\ ChildLen \in Int
<1>1. /\ Top \in Frames /\ Top = stack[Len(stack)] /\ Len(stack) \in Nat \ {0}
      /\ Winner.name \in Names
  BY AdvancedFrames, WinnerTyped
<1>2. Len(stack) \in 1 .. Len(stack) /\ Top.path \in Seq(Names)
  BY <1>1 DEF Frames
<1>3. Top.path = <<>> \/ Top.plen = StrLen(Top.path)
  BY <1>1, <1>2 DEF Measures
<1>4. ChildLen = StrLen(ChildPath)
  BY <1>1, <1>2, <1>3, JoinedLenIsStrLen DEF ChildLen, ChildPath
<1>5. /\ StrLen(Append(Top.path, Winner.name)) = StrLen(Top.path) + 1 + NameLen[Winner.name]
      /\ StrLen(Top.path) \in Int /\ NameLen[Winner.name] \in Nat
  BY <1>1, <1>2, StrLenGrows, FsTreeAssumption
<1>6. StrLen(ChildPath) \in Int
  BY <1>5 DEF ChildPath
<1>7. ChildPath \in Seq(Names)
  BY <1>1, <1>2 DEF ChildPath
<1> QED BY <1>1, <1>4, <1>6, <1>7

\* The stack without its deepest frame.
LEMMA FrontOfStack ==
    ASSUME NEW s \in Seq(Frames), s # <<>>
    PROVE  Len(Front(s)) = Len(s) - 1 /\ \A i \in 1 .. Len(s) - 1 : Front(s)[i] = s[i]
<1>1. PICK n \in Nat \ {0} : n = Len(s)
  OBVIOUS
<1>2. \A i \in 1 .. n - 1 : s[i] \in Frames
  BY <1>1
<1>3. /\ Len(SubSeq(s, 1, n - 1)) = IF 1 <= n - 1 THEN (n - 1) - 1 + 1 ELSE 0
      /\ \A i \in 1 .. (n - 1) - 1 + 1 : SubSeq(s, 1, n - 1)[i] = s[1 + i - 1]
  BY <1>2, SubSeqProperties
<1>4. Len(SubSeq(s, 1, n - 1)) = n - 1
  BY <1>3
<1>5. ASSUME NEW i \in 1 .. n - 1 PROVE SubSeq(s, 1, n - 1)[i] = s[i]
  <2>1. i \in 1 .. (n - 1) - 1 + 1 /\ 1 + i - 1 = i
    OBVIOUS
  <2> QED BY <1>3, <2>1
<1> QED BY <1>1, <1>4, <1>5 DEF Front

\* The lengths the frames carry stay right.
LEMMA MeasuredStep == TypeOK /\ Sorted /\ Measures(stack) /\ [Next]_vars => Measures(stack')
<1> SUFFICES ASSUME TypeOK, Sorted, Measures(stack), [Next]_vars PROVE Measures(stack')
  OBVIOUS
<1> USE DEF Measures
<1>1. stack \in Seq(Frames) /\ Len(stack) \in Nat
  BY DEF TypeOK
<1>2. CASE stack' = stack
  BY <1>2
<1>3. CASE stack' = <<>>
  <2>1. 1 .. Len(stack') = {}
    BY <1>3
  <2> QED BY <2>1
<1>4. CASE \E frame : stack' = <<frame>> /\ frame.path = <<>>
  <2>1. PICK frame : stack' = <<frame>> /\ frame.path = <<>>
    BY <1>4
  <2>2. Len(stack') = 1 /\ stack'[1] = frame
    BY <2>1
  <2>3. \A i \in 1 .. 1 : i = 1
    OBVIOUS
  <2> QED BY <2>1, <2>2, <2>3
<1>5. CASE AtChild /\ stack' = Advanced
  BY <1>5, AdvancedFrames
<1>6. CASE LeaveDirectory
  <2>1. stack # <<>> /\ stack' = Front(stack)
    BY <1>6 DEF LeaveDirectory
  <2>2. Len(stack') = Len(stack) - 1 /\ \A i \in 1 .. Len(stack) - 1 : stack'[i] = stack[i]
    BY <1>1, <2>1, FrontOfStack
  <2>3. \A i \in 1 .. Len(stack) - 1 : i \in 1 .. Len(stack)
    BY <1>1
  <2> QED BY <2>2, <2>3
<1>7. CASE EnterDirectory
  <2> DEFINE n == Len(stack)
             sub == Frame(Winner.ino, ChildPath, ChildLen)
  <2>1. AtChild /\ Winner.name # Unsafe /\ stack' = Append(Advanced, sub)
    BY <1>7 DEF EnterDirectory, ChildAccepted
  <2>2. sub.path = ChildPath /\ sub.plen = ChildLen
    BY DEF Frame
  <2>3. ChildLen = StrLen(ChildPath)
    BY <2>1, ChildMeasured
  <2>4. /\ Len(Advanced) = n /\ Advanced \in Seq(Frames)
        /\ \A i \in 1 .. n : Advanced[i].path = stack[i].path /\ Advanced[i].plen = stack[i].plen
    BY <2>1, AdvancedFrames
  <2> HIDE DEF sub
  <2>5. /\ Len(stack') = n + 1 /\ stack'[n + 1] = sub
        /\ \A i \in 1 .. n : stack'[i] = Advanced[i]
    BY <1>1, <2>1, <2>4
  <2>6. \A i \in 1 .. n + 1 : i = n + 1 \/ i \in 1 .. n
    BY <1>1
  <2> QED BY <2>2, <2>3, <2>4, <2>5, <2>6
<1>8. CASE Start
  <2>1. stack' = <<>> \/ stack' = <<[pino |-> ROOT_INO, next |-> LowerBound(Pinos', ROOT_INO),
                                     path |-> <<>>, plen |-> 0]>>
    BY <1>8 DEF Start, Fail
  <2> QED BY <1>3, <1>4, <2>1
<1> QED
  BY <1>2, <1>3, <1>5, <1>6, <1>7, <1>8
  DEF Next, walk_directory, extract_regular_file, vars, SkipDeleted, RejectChild,
      RejectDirectory, VisitOther, VisitRegular, RejectRegular, ReplayFragment,
      RejectFragment, WriteFile, RejectWrite, Returned, ChildAccepted, Fail

\* Every frame carries the length of its path.
LEMMA Measured == Spec => []Measures(stack)
<1>1. Init => Measures(stack)
  <2>1. 1 .. Len(<<>>) = {}
    OBVIOUS
  <2> QED BY <2>1 DEF Init, Measures
<1>2. TypeOK /\ Sorted /\ Measures(stack) /\ [Next]_vars => Measures(stack)'
  BY MeasuredStep DEF Measures
<1> QED BY <1>1, <1>2, SortedHolds, PTL DEF Spec

Item == ListEntry(ChildPath, ChildMeta.kind, ChildMeta.isize)

\* What is listed from a place on, when the walk stands there before a name.
LEMMA ListedAtName ==
    ASSUME TypeOK, Sorted, Gathered, Unambiguous, Measures(stack), StackBounded, AtChild,
           NEW r \in Regions, StandsAt(dirents, Top, Len(stack), r)
    PROVE  /\ NextPlace(r) \in Regions /\ Preorder[NextPlace(r)] \in Seq(Items)
           /\ Preorder[r] \in Seq(Items)
           /\ Winner.ino = 0 => Preorder[r] = Preorder[NextPlace(r)]
           /\ Winner.ino # 0 /\ ~ChildAccepted => Broken \in Range(Preorder[r])
           /\ ChildAccepted =>
                /\ Item \in Items
                /\ ChildMeta.kind # "dir" => Preorder[r] = <<Item>> \o Preorder[NextPlace(r)]
                /\ ChildMeta.kind = "dir" /\ Enterable =>
                     /\ SubPlace \in Regions /\ Preorder[SubPlace] \in Seq(Items)
                     /\ Preorder[r] = (<<Item>> \o Preorder[SubPlace]) \o Preorder[NextPlace(r)]
                /\ ChildMeta.kind = "dir" /\ ~Enterable => Broken \in Range(Preorder[r])
<1> DEFINE n == Len(stack)
           w == Winner
           next == NextPlace(r)
           p == Place(r)
           is_dir == ChildMeta.kind = "dir"
           inside == r.depth < MAX_DIR_DEPTH
           bad == w.name = Unsafe \/ ~HasMeta(w.ino) \/ StrLen(ChildPath) >= PATH_CAP
<1>1. /\ r.depth = n - 1 /\ r.pino = Top.pino /\ r.path = Top.path
      /\ n \in Nat \ {0} /\ pc = "walk" /\ w.ino \in Word
      /\ r.depth \in 0 .. MAX_DIR_DEPTH /\ r.pino \in Word /\ r.path \in Seq(Names)
  BY AdvancedFrames, WinnerTyped DEF StandsAt, AtChild, Regions
<1>2. log.dirents \in Seq(Dirents) /\ log.inodes \in Seq(Inodes)
      /\ MAX_DIR_DEPTH \in Nat /\ PATH_CAP \in Nat
  BY FsTreeAssumption DEF TypeOK
<1>3. next \in Regions
  <2>1. w.name + 1 \in 0 .. TopName
    BY <1>2, WinnerIsNewest, TopNameBounds
  <2> QED BY <1>1, <2>1 DEF NextPlace, Region, Regions
<1>4. Preorder[next] \in Seq(Items) /\ Preorder[r] \in Seq(Items)
  <2> HIDE DEF next
  <2> QED BY <1>2, <1>3, PreorderUnfolds
<1>5. ASSUME w.ino = 0 PROVE Preorder[r] = Preorder[next]
  <2>1. LiveFrom(r.pino, r.from) = LiveFrom(next.pino, next.from)
    <3>1. LiveFrom(r.pino, r.from) = LiveFrom(r.pino, w.name + 1)
      BY <1>5, NextLive
    <3> QED BY <3>1 DEF NextPlace, Region
  <2>2. next.depth = r.depth /\ next.pino = r.pino /\ next.path = r.path
    BY DEF NextPlace, Region
  <2> HIDE DEF next
  <2>3. Place(r) = Place(next)
    BY <2>1, <2>2 DEF Place
  <2>4. Places[r] = Places[next]
    BY <1>3, <2>3 DEF Places
  <2>5. Preorder[r] = ListedFrom(Places, Preorder, r)
        /\ Preorder[next] = ListedFrom(Places, Preorder, next)
    BY <1>2, <1>3, PreorderUnfolds
  <2> QED BY <2>4, <2>5 DEF ListedFrom
<1>6. ASSUME w.ino # 0
      PROVE  /\ bad => p = Wrong
             /\ ~bad => p = [items |-> IF is_dir /\ ~inside THEN <<Item, Broken>> ELSE <<Item>>,
                             down  |-> IF is_dir /\ inside THEN {SubPlace} ELSE {},
                             on    |-> {next}]
  <2> DEFINE live   == LiveFrom(r.pino, r.from)
             d      == CHOOSE d \in live : \A e \in live : d.name <= e.name
             newest == NewestOf(w.ino)
             meta   == CHOOSE m \in newest : TRUE
             path   == Append(r.path, w.name)
             entry  == [path |-> path, kind |-> meta.kind,
                        size |-> IF meta.kind = "dir" THEN 0 ELSE meta.isize]
             sub    == Region(r.depth + 1, w.ino, 0, path)
             here   == Region(r.depth, r.pino, w.name + 1, r.path)
  <2>1. live # {} /\ d = w
    BY <1>6, NextLive
  <2>2. p = IF w.name = Unsafe \/ newest = {} \/ StrLen(path) >= PATH_CAP
            THEN Wrong
            ELSE [items |-> IF meta.kind = "dir" /\ ~inside THEN <<entry, Broken>> ELSE <<entry>>,
                  down  |-> IF meta.kind = "dir" /\ inside THEN {sub} ELSE {},
                  on    |-> {here}]
    <3> HIDE DEF live
    <3>1. p = LET nodes == NewestOf(d.ino)
                  node   == CHOOSE m \in nodes : TRUE
                  whole   == Append(r.path, d.name)
                  item  == [path |-> whole, kind |-> node.kind,
                              size |-> IF node.kind = "dir" THEN 0 ELSE node.isize]
              IN  IF d.name = Unsafe \/ nodes = {} \/ StrLen(whole) >= PATH_CAP
                  THEN Wrong
                  ELSE [items |-> IF node.kind = "dir" /\ ~inside
                                  THEN <<item, Broken>> ELSE <<item>>,
                        down  |-> IF node.kind = "dir" /\ inside
                                  THEN {Region(r.depth + 1, d.ino, 0, whole)} ELSE {},
                        on    |-> {Region(r.depth, r.pino, d.name + 1, r.path)}]
      BY <2>1 DEF Place, Wrong, live
    <3> HIDE DEF d, p
    <3> QED BY <2>1, <3>1
  <2>3. path = ChildPath /\ here = next
    BY <1>1 DEF ChildPath, NextPlace
  <2>4. sub = SubPlace
    <3>1. r.depth + 1 = n
      BY <1>1
    <3> QED BY <2>3, <3>1 DEF SubPlace
  <2>5. (newest = {} <=> ~HasMeta(w.ino)) /\ (HasMeta(w.ino) => meta = ChildMeta)
    BY <1>1, NewestIsMeta DEF ChildMeta
  <2>6. ChildMeta = meta => entry = Item
    BY <2>3 DEF Item, ListEntry
  <2> HIDE DEF p, path, here, sub, entry, newest, meta, next, inside, w
  <2> QED BY <2>2, <2>3, <2>4, <2>5, <2>6
<1>7. ASSUME w.ino # 0 PROVE ChildAccepted <=> ~bad
  <2>1. w.name # Unsafe => ChildLen = StrLen(ChildPath) /\ ChildLen \in Int
    BY ChildMeasured
  <2>2. w.name # Unsafe => (ChildLen < PATH_CAP <=> ~ (StrLen(ChildPath) >= PATH_CAP))
    BY <1>2, <2>1
  <2> QED BY <1>7, <2>2 DEF ChildAccepted
<1>8. Enterable <=> inside
  <2>1. n <= MAX_DIR_DEPTH <=> n - 1 < MAX_DIR_DEPTH
    BY <1>1, <1>2
  <2> QED BY <1>1, <2>1 DEF Enterable
<1>9. /\ Preorder[r] \in Seq(Items) /\ p.items \in Seq(Items)
      /\ p.down = {} /\ p.on = {} => Preorder[r] = p.items
      /\ p.on = {next} =>
           /\ p.down = {} => Preorder[r] = p.items \o Preorder[next]
           /\ p.down = {SubPlace} =>
                /\ SubPlace \in Regions /\ Preorder[SubPlace] \in Seq(Items)
                /\ Preorder[r] = (p.items \o Preorder[SubPlace]) \o Preorder[next]
  <2> HIDE DEF p, next
  <2>1. /\ Preorder[r] \in Seq(Items) /\ p.items \in Seq(Items)
        /\ p.down = {} /\ p.on = {} => Preorder[r] = p.items
        /\ \A y : p.on = {y} =>
             /\ y \in Regions /\ Preorder[y] \in Seq(Items)
             /\ p.down = {} => Preorder[r] = p.items \o Preorder[y]
             /\ \A x : p.down = {x} =>
                  /\ x \in Regions /\ Preorder[x] \in Seq(Items)
                  /\ Preorder[r] = (p.items \o Preorder[x]) \o Preorder[y]
    BY <1>2, PlaceLists DEF p
  <2> QED BY <2>1
<1>10. ChildAccepted => w.ino # 0 /\ Item \in Items
  <2> SUFFICES ASSUME ChildAccepted PROVE w.ino # 0 /\ Item \in Items
    OBVIOUS
  <2>1. ChildPath \in Seq(Names) /\ ChildMeta.isize \in Nat
        /\ ChildMeta.kind \in {"dir", "reg", "other"}
    BY ChildTyped, WordsAreNat DEF Inodes
  <2> QED BY <2>1 DEF ChildAccepted, Item, ListEntry, Items
<1> HIDE DEF p, next, bad, inside, is_dir, w
<1>11. ASSUME w.ino # 0, bad PROVE Broken \in Range(Preorder[r])
  <2>1. Preorder[r] = <<Broken>>
    BY <1>6, <1>9, <1>11 DEF Wrong
  <2>2. 1 \in DOMAIN <<Broken>> /\ <<Broken>>[1] = Broken
    OBVIOUS
  <2> QED BY <2>1, <2>2 DEF Range
<1>12. ASSUME w.ino # 0, ~bad
       PROVE  /\ ~is_dir => Preorder[r] = <<Item>> \o Preorder[next]
              /\ is_dir /\ inside =>
                   /\ SubPlace \in Regions /\ Preorder[SubPlace] \in Seq(Items)
                   /\ Preorder[r] = (<<Item>> \o Preorder[SubPlace]) \o Preorder[next]
              /\ is_dir /\ ~inside => Broken \in Range(Preorder[r])
  <2> DEFINE items == IF is_dir /\ ~inside THEN <<Item, Broken>> ELSE <<Item>>
             down  == IF is_dir /\ inside THEN {SubPlace} ELSE {}
  <2>0. p = [items |-> items, down |-> down, on |-> {next}]
    BY <1>6, <1>12
  <2> HIDE DEF items, down
  <2>1. p.items = items /\ p.down = down /\ p.on = {next}
    BY <2>0
  <2>2. ASSUME ~is_dir PROVE Preorder[r] = <<Item>> \o Preorder[next]
    <3>1. p.items = <<Item>> /\ p.down = {}
      BY <2>1, <2>2 DEF items, down
    <3> QED BY <1>9, <2>1, <3>1
  <2>3. ASSUME is_dir, inside
        PROVE  /\ SubPlace \in Regions /\ Preorder[SubPlace] \in Seq(Items)
               /\ Preorder[r] = (<<Item>> \o Preorder[SubPlace]) \o Preorder[next]
    <3>1. p.items = <<Item>> /\ p.down = {SubPlace}
      BY <2>1, <2>3 DEF items, down
    <3> QED BY <1>9, <2>1, <3>1
  <2>4. ASSUME is_dir, ~inside PROVE Broken \in Range(Preorder[r])
    <3> DEFINE two  == <<Item, Broken>>
               rest == Preorder[next]
    <3>1. p.items = two /\ p.down = {}
      BY <2>1, <2>4 DEF items, down
    <3>2. Broken \in Range(two)
      <4>1. 2 \in DOMAIN two /\ two[2] = Broken
        OBVIOUS
      <4> QED BY <4>1 DEF Range
    <3>3. two \in Seq(Items) /\ rest \in Seq(Items) /\ Preorder[r] = two \o rest
      BY <1>4, <1>9, <2>1, <3>1
    <3> HIDE DEF two, rest
    <3>4. Broken \in Range(two \o rest)
      BY <3>2, <3>3, InConcat
    <3> QED BY <3>3, <3>4
  <2> QED BY <2>2, <2>3, <2>4
<1> QED BY <1>3, <1>4, <1>5, <1>7, <1>8, <1>10, <1>11, <1>12 DEF w, next, is_dir

\* And when it stands behind the last name.
LEMMA ListedAtEnd ==
    ASSUME TypeOK, Sorted, pc = "walk", stack # <<>>, ~AtChild,
           NEW r \in Regions, StandsAt(dirents, Top, Len(stack), r)
    PROVE  Preorder[r] = <<>>
<1> DEFINE p == Place(r)
<1>1. p = Nothing
  BY NothingLive DEF Place, Nothing
<1>2. log.dirents \in Seq(Dirents) /\ log.inodes \in Seq(Inodes)
  BY DEF TypeOK
<1>3. p.down = {} /\ p.on = {} => Preorder[r] = p.items
  BY <1>2, PlaceLists DEF p
<1> QED BY <1>1, <1>3 DEF Nothing

\* f[i] is what the i outermost frames have still to list, and r the place of
\* the deepest.
Here(f, r) ==
    /\ r \in Regions /\ StandsAt(dirents, Top, Len(stack), r)
    /\ Rests(Regions, Preorder, Items, dirents, stack, f)
    /\ Tree = out \o f[Len(stack)]
    /\ Preorder[r] \in Seq(Items)
    /\ f[Len(stack)] \in Seq(Items) /\ f[Len(stack) - 1] \in Seq(Items)
    /\ f[Len(stack)] = Preorder[r] \o f[Len(stack) - 1]

\* What is listed once `new' is, and what the frames u have still to list, are
\* the live tree.
Leaves(u, new) ==
    \E f : /\ Rests(Regions, Preorder, Items, dirents, u, f)
           /\ Tree = new \o f[Len(u)]

\* Inductive: what is listed and what the frames have still to list is the tree.
ListInv ==
    /\ pc = "start" => out = <<>>
    /\ pc # "done" => rc = 0
    /\ pc = "file" => mode = "extract"
    /\ Unambiguous /\ pc \in {"walk", "file"} => Leaves(stack, out)
    /\ ListIsLive

\* What the walk has listed is sound.
LEMMA ListedAreItems == \A x \in Seq(Entries) : x \in Seq(Items) /\ Broken \notin Range(x)
<1> SUFFICES ASSUME NEW x \in Seq(Entries)
             PROVE  x \in Seq(Items) /\ Broken \notin Range(x)
  OBVIOUS
<1>1. Len(x) \in Nat /\ DOMAIN x = 1 .. Len(x) /\ \A i \in 1 .. Len(x) : x[i] \in Entries
  OBVIOUS
<1>2. Entries \subseteq Items /\ Broken \notin Entries
  <2>1. ASSUME NEW e \in Entries PROVE e \in Items /\ e.size \in Nat
    <3>1. e.size \in Word
      BY DEF Entries
    <3>2. e.size \in Nat
      BY <3>1, WordsAreNat
    <3>3. e.size \in Int
      BY <3>2
    <3> QED BY <3>2, <3>3 DEF Entries, Items
  <2>2. Broken.size = -1
    BY DEF Broken
  <2>3. -1 \notin Nat
    OBVIOUS
  <2> QED BY <2>1, <2>2, <2>3
<1>3. x \in Seq(Items)
  BY <1>2
<1>4. Broken \notin Range(x)
  BY <1>1, <1>2 DEF Range
<1> QED BY <1>3, <1>4

\* The tree is that of the log, which stays.
LEMMA TreeStays ==
    log' = log => /\ Regions' = Regions /\ Preorder' = Preorder /\ Tree' = Tree
                  /\ Unambiguous' <=> Unambiguous
<1> SUFFICES ASSUME log' = log
             PROVE  /\ Regions' = Regions /\ Preorder' = Preorder /\ Tree' = Tree
                    /\ Unambiguous' <=> Unambiguous
  OBVIOUS
<1>1. Regions' = Regions
  BY DEF Regions, TopName
<1>2. \A r : Place(r)' = Place(r)
  BY DEF Place, LiveFrom, Live, NewestOf
<1>3. Preorder' = Preorder
  BY <1>1, <1>2 DEF Preorder
<1> QED BY <1>1, <1>3 DEF Tree, Unambiguous

\* A failure while listing is one of the tree.
LEMMA FailedListing ==
    ASSUME ListInv, Fail, log' = log, mode' = mode,
           Unambiguous /\ mode = "list" /\ ~MayFail => Broken \in Range(Tree)
    PROVE  ListInv'
<1>1. pc' = "done" /\ rc' = -1 /\ out' = <<>>
  BY DEF Fail
<1>2. Tree' = Tree /\ (Unambiguous' <=> Unambiguous)
  BY TreeStays
<1>3. MayFail' <=> MayFail
  BY DEF MayFail
<1>4. ListIsLive'
  BY <1>1, <1>2, <1>3 DEF ListIsLive
<1> QED BY <1>1, <1>4 DEF ListInv

\* A walk that goes on: what is listed and what is left are the tree again.
LEMMA WalkGoesOn ==
    ASSUME ListInv, pc \in {"walk", "file"}, pc' \in {"walk", "file"},
           log' = log, dirents' = dirents, rc' = rc, mode' = mode,
           pc' = "file" => mode = "extract",
           Unambiguous => Leaves(stack', out')
    PROVE  ListInv'
<1>1. /\ Regions' = Regions /\ Preorder' = Preorder /\ Tree' = Tree
      /\ Unambiguous' <=> Unambiguous
  BY TreeStays
<1>2. pc' # "done" /\ pc' # "start" /\ rc' = 0
  BY DEF ListInv
<1>3. ASSUME Unambiguous PROVE Leaves(stack, out)'
  <2>1. PICK f : /\ Rests(Regions, Preorder, Items, dirents, stack', f)
                 /\ Tree = out' \o f[Len(stack')]
    BY <1>3 DEF Leaves
  <2>2. Items' = Items
    BY DEF Items
  <2>3. /\ Rests(Regions', Preorder', Items', dirents', stack', f)
        /\ Tree' = out' \o f[Len(stack')]
    BY <1>1, <2>1, <2>2
  <2> QED BY <2>3 DEF Leaves
<1>4. ListIsLive'
  BY <1>2 DEF ListIsLive
<1> QED BY <1>1, <1>2, <1>3, <1>4 DEF ListInv

\* The deepest frame stands at a place.
LEMMA HereIsPlace ==
    ASSUME TypeOK, ListInv, Unambiguous, pc = "walk", stack # <<>>
    PROVE  Len(stack) \in Nat \ {0} /\ \E f, r : Here(f, r)
<1> DEFINE n == Len(stack)
<1>1. n \in Nat \ {0} /\ n \in 1 .. n /\ n \in 0 .. n /\ n - 1 \in 0 .. n /\ Top = stack[n]
  BY DEF TypeOK, Top
<1>2. PICK f : Rests(Regions, Preorder, Items, dirents, stack, f) /\ Tree = out \o f[n]
  BY DEF ListInv, Leaves
<1>3. /\ f[n] \in Seq(Items) /\ f[n - 1] \in Seq(Items)
      /\ Rest(Regions, Preorder, Items, dirents, stack[n], n, f[n], f[n - 1])
  BY <1>1, <1>2 DEF Rests
<1>4. PICK r \in Regions : /\ StandsAt(dirents, stack[n], n, r) /\ Preorder[r] \in Seq(Items)
                           /\ f[n] = Preorder[r] \o f[n - 1]
  BY <1>3 DEF Rest
<1>5. Here(f, r)
  BY <1>1, <1>2, <1>3, <1>4 DEF Here
<1> QED BY <1>1, <1>5

\* What is wrong here is wrong with the tree.
LEMMA WrongHere ==
    ASSUME TypeOK, NEW f, NEW r, Here(f, r), Broken \in Range(Preorder[r])
    PROVE  Broken \in Range(Tree)
<1> DEFINE x == Preorder[r]
           y == f[Len(stack) - 1]
           z == f[Len(stack)]
<1>1. /\ x \in Seq(Items) /\ y \in Seq(Items) /\ z \in Seq(Items) /\ z = x \o y
      /\ Tree = out \o z /\ Broken \in Range(x)
  BY DEF Here
<1>2. out \in Seq(Items)
  BY ListedAreItems DEF TypeOK
<1> HIDE DEF x, y, z
<1>3. Broken \in Range(z)
  BY <1>1, InConcat
<1>4. Broken \in Range(out \o z)
  BY <1>1, <1>2, <1>3, InConcat
<1> QED BY <1>1, <1>4

\* Behind a name that has listed c, what is left is that of the next place.
LEMMA NameListed ==
    ASSUME TypeOK, Sorted, AtChild, NEW f, NEW r, Here(f, r), NEW c \in Seq(Items),
           NextPlace(r) \in Regions, Preorder[NextPlace(r)] \in Seq(Items),
           Preorder[r] = c \o Preorder[NextPlace(r)]
    PROVE  \E g : /\ Rests(Regions, Preorder, Items, dirents, Advanced, g)
                  /\ Len(Advanced) = Len(stack) /\ Advanced \in Seq(Frames)
                  /\ g[Len(stack)] \in Seq(Items)
                  /\ Tree = out \o (c \o g[Len(stack)])
<1> DEFINE n == Len(stack)
           y == NextPlace(r)
<1>1. /\ n \in Nat \ {0} /\ Advanced \in Seq(Frames) /\ Len(Advanced) = n
      /\ \A i \in 1 .. n - 1 : Advanced[i] = stack[i]
      /\ Advanced[n] = [Top EXCEPT !.next = RunEnd(Top.next) + 1]
  BY AdvancedFrames
<1>2. StandsAt(dirents, Advanced[n], n, y)
  BY <1>1, StandsNext DEF Here
<1> HIDE DEF y
<1>3. Resting(Regions, Preorder, Items, dirents, stack, Advanced, n, y)
  <2>1. y \in Regions /\ Preorder[y] \in Seq(Items)
    BY DEF y
  <2>2. Len(stack) \in {n - 1, n}
    OBVIOUS
  <2> HIDE DEF n
  <2> QED BY <1>1, <1>2, <2>1, <2>2 DEF Resting
<1>4. Rests(Regions, Preorder, Items, dirents, stack, f)
  BY DEF Here
<1>5. RestsThere(Regions, Preorder, Items, dirents, Advanced, f, n, y)
  BY <1>3, <1>4, RestsAt
<1>6. PICK g : Rests(Regions, Preorder, Items, dirents, Advanced, g)
               /\ g[n] = Preorder[y] \o f[n - 1]
  BY <1>5 DEF RestsThere
<1>7. g[n] \in Seq(Items)
  <2>1. n \in 0 .. n
    BY <1>1
  <2> QED BY <1>1, <1>6, <2>1 DEF Rests
<1>8. Tree = out \o (c \o g[n])
  <2> DEFINE a == Preorder[y]
             x == f[n - 1]
             z == f[n]
  <2>1. a \in Seq(Items) /\ x \in Seq(Items) /\ z = (c \o a) \o x /\ Tree = out \o z
    BY DEF Here, y
  <2>2. g[n] = a \o x
    BY <1>6
  <2> HIDE DEF a, x, z
  <2>3. (c \o a) \o x = c \o (a \o x)
    BY ONLY <2>1, c \in Seq(Items), ConcatAssociative
  <2> QED BY <2>1, <2>2, <2>3
<1> QED BY <1>1, <1>6, <1>7, <1>8

\* A directory is entered: its own listing comes before what is left.
LEMMA DirectoryOpened ==
    ASSUME TypeOK, Sorted, AtChild, NEW g, NEW u, Len(u) = Len(stack), u \in Seq(Frames),
           Rests(Regions, Preorder, Items, dirents, u, g),
           SubPlace \in Regions, Preorder[SubPlace] \in Seq(Items)
    PROVE  LET sub == Append(u, Frame(Winner.ino, ChildPath, ChildLen))
           IN  \E h : /\ Rests(Regions, Preorder, Items, dirents, sub, h)
                      /\ h[Len(sub)] = Preorder[SubPlace] \o g[Len(stack)]
<1> DEFINE n == Len(stack)
           fr == Frame(Winner.ino, ChildPath, ChildLen)
           sub == Append(u, fr)
           m == n + 1
           y == SubPlace
<1>1. n \in Nat /\ Winner.ino \in Word /\ dirents \in Seq(Dirents) /\ DirentsSorted(dirents)
  BY WinnerTyped DEF TypeOK, Sorted
<1>2. StandsAt(dirents, fr, n + 1, y)
  BY <1>1, FrameStands DEF Frame, Pinos, SubPlace
<1> HIDE DEF fr, y
<1>3. Len(sub) = n + 1 /\ sub[n + 1] = fr /\ \A i \in 1 .. n : sub[i] = u[i]
  BY <1>1
<1> HIDE DEF sub
<1>4. m - 1 = n /\ m \in Nat \ {0}
  BY <1>1
<1>5. /\ Len(sub) = m /\ Len(u) \in {m - 1, m} /\ (\A i \in 1 .. m - 1 : sub[i] = u[i])
      /\ StandsAt(dirents, sub[m], m, y) /\ y \in Regions /\ Preorder[y] \in Seq(Items)
  BY <1>2, <1>3, <1>4 DEF y
<1> HIDE DEF m
<1>6. Resting(Regions, Preorder, Items, dirents, u, sub, m, y)
  BY <1>4, <1>5 DEF Resting
<1>7. RestsThere(Regions, Preorder, Items, dirents, sub, g, m, y)
  BY <1>6, RestsAt
<1>8. PICK h : Rests(Regions, Preorder, Items, dirents, sub, h) /\ h[m] = Preorder[y] \o g[m - 1]
  BY <1>7 DEF RestsThere
<1>9. h[Len(sub)] = Preorder[y] \o g[n]
  BY <1>4, <1>5, <1>8
<1> QED BY <1>8, <1>9 DEF sub, fr, y

\* Every step keeps what is listed and what is left to list together the tree.
LEMMA ListStep ==
    TypeOK /\ TypeOK' /\ Sorted /\ Sorted' /\ Gathered /\ Measures(stack) /\ StackBounded
      /\ ListInv /\ [Next]_vars => ListInv'
<1> SUFFICES ASSUME TypeOK, TypeOK', Sorted, Sorted', Gathered, Measures(stack), StackBounded,
                    ListInv, [Next]_vars
             PROVE  ListInv'
  OBVIOUS
<1> DEFINE n == Len(stack)
<1>0. /\ n \in Nat /\ stack \in Seq(Frames) /\ out \in Seq(Items)
      /\ log.dirents \in Seq(Dirents) /\ log.inodes \in Seq(Inodes)
  BY ListedAreItems DEF TypeOK
<1>1. CASE UNCHANGED vars \/ Returned
  <2>1. log' = log /\ dirents' = dirents /\ UNCHANGED <<mode, pc, rc, stack, out>>
    BY <1>1 DEF vars, Returned
  <2>2. CASE pc \in {"walk", "file"}
    BY <2>1, <2>2, WalkGoesOn DEF ListInv
  <2>3. CASE pc \notin {"walk", "file"}
    <3>1. Tree' = Tree /\ (Unambiguous' <=> Unambiguous)
      BY <2>1, TreeStays
    <3>2. ListIsLive'
      BY <2>1, <3>1 DEF ListInv, ListIsLive, MayFail
    <3> QED BY <2>1, <2>3, <3>2 DEF ListInv
  <2> QED BY <2>2, <2>3
<1>2. CASE Start
  <2>1. pc = "start" /\ log' = log /\ mode' = mode /\ rc = 0 /\ out = <<>>
    BY <1>2 DEF Start, ListInv
  <2>2. CASE Fail
    <3>1. MayFail
      <4>1. rc' = -1
        BY <2>2 DEF Fail
      <4> QED BY <1>2, <2>1, <4>1 DEF Start
    <3> QED BY <2>1, <2>2, <3>1, FailedListing
  <2>3. CASE ~Fail
    <3> DEFINE root == [pino |-> ROOT_INO, next |-> LowerBound(Pinos', ROOT_INO),
                        path |-> <<>>, plen |-> 0]
               s == <<root>>
               r == Region(0, ROOT_INO, 0, <<>>)
               ds == dirents'
               x == Preorder[r]
               f == [i \in 0 .. 1 |-> IF i = 0 THEN <<>> ELSE x]
    <3>1. stack' = s /\ pc' = "walk" /\ rc' = 0 /\ out' = <<>>
      BY <1>2, <2>1, <2>3 DEF Start
    <3>2. ROOT_INO \in Word /\ 0 \in 0 .. MAX_DIR_DEPTH /\ 0 \in 0 .. TopName
      BY <1>0, WordsAreNat, FsTreeAssumption, TopNameBounds DEF ROOT_INO
    <3>3. r \in Regions
      <4>1. <<>> \in Seq(Names)
        OBVIOUS
      <4> QED BY <3>2, <4>1 DEF Regions, Region
    <3>4. StandsAt(ds, root, 1, r)
      <4>1. ds \in Seq(Dirents) /\ DirentsSorted(ds)
        BY DEF TypeOK, Sorted, DirentsSorted
      <4>2. root = [pino |-> ROOT_INO,
                    next |-> LowerBound([i \in 1 .. Len(ds) |-> ds[i].pino], ROOT_INO),
                    path |-> <<>>, plen |-> 0]
        BY DEF Pinos
      <4> HIDE DEF ds, root
      <4>3. StandsAt(ds, root, 0 + 1, r)
        BY <3>2, <4>1, <4>2, FrameStands
      <4> QED BY <4>3
    <3>5. x \in Seq(Items) /\ Tree = x
      <4>1. Tree = x
        BY DEF Tree
      <4> HIDE DEF r
      <4>2. Preorder[r] \in Seq(Items)
        BY <1>0, <3>3, PreorderUnfolds
      <4> QED BY <4>1, <4>2
    <3>6. Len(s) = 1 /\ s[1] = root
      OBVIOUS
    <3> HIDE DEF x, s, root, ds
    <3>7. f[0] = <<>> /\ f[1] = x /\ x \o <<>> = x /\ <<>> \o x = x
      BY <3>5
    <3> HIDE DEF f, r
    <3>8. Rests(Regions, Preorder, Items, ds, s, f)
      <4>1. \A i \in 1 .. 1 : i = 1 /\ i - 1 = 0
        OBVIOUS
      <4>2. \A i \in 0 .. 1 : i = 0 \/ i = 1
        OBVIOUS
      <4>3. <<>> \in Seq(Items)
        OBVIOUS
      <4>4. 1 .. Len(s) = 1 .. 1 /\ 0 .. Len(s) = 0 .. 1
        BY <3>6
      <4>5. Preorder[r] \in Seq(Items) /\ f[1] = Preorder[r] \o f[0]
        BY <3>5, <3>7 DEF x
      <4>6. ASSUME NEW i \in 1 .. Len(s)
            PROVE  Rest(Regions, Preorder, Items, ds, s[i], i, f[i], f[i - 1])
        <5>1. i = 1 /\ i - 1 = 0
          BY <4>1, <4>4
        <5>2. Rest(Regions, Preorder, Items, ds, s[1], 1, f[1], f[0])
          BY <3>3, <3>4, <3>6, <4>5 DEF Rest
        <5> QED BY <5>1, <5>2
      <4>7. ASSUME NEW i \in 0 .. Len(s) PROVE f[i] \in Seq(Items)
        <5>1. i = 0 \/ i = 1
          BY <4>2, <4>4
        <5> QED BY <3>5, <3>7, <4>3, <5>1
      <4> QED BY <3>7, <4>6, <4>7 DEF Rests
    <3>9. /\ Regions' = Regions /\ Preorder' = Preorder /\ Tree' = Tree /\ Items' = Items
      BY <2>1, TreeStays DEF Items
    <3>10. /\ Rests(Regions', Preorder', Items', dirents', stack', f)
           /\ Tree' = out' \o f[Len(stack')]
      BY <3>1, <3>5, <3>6, <3>7, <3>8, <3>9 DEF ds
    <3>11. Leaves(stack, out)'
      BY <3>10 DEF Leaves
    <3>12. ListIsLive'
      BY <3>1 DEF ListIsLive
    <3> QED BY <3>1, <3>11, <3>12 DEF ListInv
  <2> QED BY <2>2, <2>3
\* What holds of the place of the next name.
<1>3. ASSUME AtChild, Unambiguous, NEW f, NEW r, Here(f, r)
      PROVE  /\ NextPlace(r) \in Regions /\ Preorder[NextPlace(r)] \in Seq(Items)
             /\ Preorder[r] \in Seq(Items)
             /\ Winner.ino = 0 => Preorder[r] = Preorder[NextPlace(r)]
             /\ Winner.ino # 0 /\ ~ChildAccepted => Broken \in Range(Preorder[r])
             /\ ChildAccepted =>
                  /\ Item \in Items
                  /\ ChildMeta.kind # "dir" => Preorder[r] = <<Item>> \o Preorder[NextPlace(r)]
                  /\ ChildMeta.kind = "dir" /\ Enterable =>
                       /\ SubPlace \in Regions /\ Preorder[SubPlace] \in Seq(Items)
                       /\ Preorder[r] = (<<Item>> \o Preorder[SubPlace]) \o Preorder[NextPlace(r)]
                  /\ ChildMeta.kind = "dir" /\ ~Enterable => Broken \in Range(Preorder[r])
  BY <1>3, ListedAtName DEF Here
<1>4. ASSUME AtChild, Unambiguous PROVE pc = "walk" /\ \E f, r : Here(f, r)
  BY <1>4, HereIsPlace DEF AtChild
<1>5. CASE SkipDeleted
  <2>1. /\ AtChild /\ Winner.ino = 0 /\ stack' = Advanced
        /\ UNCHANGED <<log, mode, pc, rc, dirents, out>> /\ pc = "walk"
    BY <1>5 DEF SkipDeleted, AtChild
  <2>2. ASSUME Unambiguous PROVE Leaves(stack', out')
    <3>1. PICK f, r : Here(f, r)
      BY <1>4, <2>1, <2>2
    <3> DEFINE y == Preorder[NextPlace(r)]
    <3>2. /\ NextPlace(r) \in Regions /\ y \in Seq(Items) /\ Preorder[r] = y
      BY <1>3, <2>1, <2>2, <3>1
    <3>3. y = <<>> \o y
      <4> HIDE DEF y
      <4> QED BY <3>2
    <3>4. <<>> \in Seq(Items)
      OBVIOUS
    <3>5. Preorder[r] = <<>> \o Preorder[NextPlace(r)]
      BY <3>2, <3>3
    <3>6. PICK g : /\ Rests(Regions, Preorder, Items, dirents, Advanced, g)
                   /\ Len(Advanced) = n /\ g[n] \in Seq(Items)
                   /\ Tree = out \o (<<>> \o g[n])
      BY <2>1, <3>1, <3>2, <3>4, <3>5, NameListed
    <3> DEFINE z == g[n]
    <3>7. <<>> \o z = z
      <4>1. z \in Seq(Items)
        BY <3>6
      <4> HIDE DEF z
      <4> QED BY <4>1
    <3>8. Tree = out' \o g[Len(stack')]
      BY <2>1, <3>6, <3>7
    <3> QED BY <2>1, <3>6, <3>8 DEF Leaves
  <2> QED BY <2>1, <2>2, WalkGoesOn
<1>6. CASE RejectChild
  <2>1. /\ AtChild /\ Winner.ino # 0 /\ (~ChildAccepted \/ MayFail)
        /\ Fail /\ log' = log /\ mode' = mode
    BY <1>6 DEF RejectChild
  <2>2. ASSUME Unambiguous, ~MayFail PROVE Broken \in Range(Tree)
    <3>1. PICK f, r : Here(f, r)
      BY <1>4, <2>1, <2>2
    <3>2. Broken \in Range(Preorder[r])
      BY <1>3, <2>1, <2>2, <3>1
    <3> QED BY <3>1, <3>2, WrongHere
  <2> QED BY <2>1, <2>2, FailedListing
<1>7. CASE RejectDirectory
  <2>1. /\ ChildAccepted /\ AtChild /\ ChildMeta.kind = "dir"
        /\ ~DirectoryMade \/ ~Enterable
        /\ Fail /\ log' = log /\ mode' = mode
    BY <1>7 DEF RejectDirectory, ChildAccepted
  <2>2. mode = "list" => ~Enterable
    BY <2>1 DEF DirectoryMade
  <2>3. ASSUME Unambiguous, mode = "list" PROVE Broken \in Range(Tree)
    <3>1. PICK f, r : Here(f, r)
      BY <1>4, <2>1, <2>3
    <3>2. Broken \in Range(Preorder[r])
      BY <1>3, <2>1, <2>2, <2>3, <3>1
    <3> QED BY <3>1, <3>2, WrongHere
  <2> QED BY <2>1, <2>3, FailedListing
<1>8. CASE RejectRegular
  <2>1. mode = "extract" /\ Fail /\ log' = log /\ mode' = mode
    BY <1>8 DEF RejectRegular
  <2> QED BY <2>1, FailedListing
<1>9. CASE RejectFragment \/ RejectWrite
  <2>1. pc = "file" /\ Fail /\ log' = log /\ mode' = mode
    BY <1>9 DEF RejectFragment, RejectWrite
  <2>2. mode = "extract"
    BY <2>1 DEF ListInv
  <2> QED BY <2>1, <2>2, FailedListing
\* A name with nothing in it.
<1>10. CASE VisitOther \/ VisitRegular
  <2>1. /\ AtChild /\ ChildAccepted /\ ChildMeta.kind # "dir"
        /\ stack' = Advanced /\ out' = Append(out, Item)
        /\ UNCHANGED <<log, mode, rc, dirents>>
        /\ pc = "walk" /\ pc' \in {"walk", "file"} /\ (pc' = "file" => mode = "extract")
    BY <1>10 DEF VisitOther, VisitRegular, Listed, Item, AtChild, ChildAccepted
  <2>2. ASSUME Unambiguous PROVE Leaves(stack', out')
    <3>1. PICK f, r : Here(f, r)
      BY <1>4, <2>1, <2>2
    <3>2. /\ NextPlace(r) \in Regions /\ Preorder[NextPlace(r)] \in Seq(Items)
          /\ Item \in Items /\ Preorder[r] = <<Item>> \o Preorder[NextPlace(r)]
      BY <1>3, <2>1, <2>2, <3>1
    <3>3. <<Item>> \in Seq(Items)
      BY <3>2
    <3>4. PICK g : /\ Rests(Regions, Preorder, Items, dirents, Advanced, g)
                   /\ Len(Advanced) = n /\ g[n] \in Seq(Items)
                   /\ Tree = out \o (<<Item>> \o g[n])
      BY <2>1, <3>1, <3>2, <3>3, NameListed
    <3>5. Append(out, Item) \o g[n] = out \o (<<Item>> \o g[n])
      <4> DEFINE o == out
                 e == Item
                 x == g[n]
                 I == Items
      <4>1. o \in Seq(I) /\ e \in I /\ x \in Seq(I)
        BY <1>0, <3>2, <3>4
      <4> HIDE DEF o, e, x, I
      <4>2. Append(o, e) \o x = o \o (<<e>> \o x)
        BY ONLY <4>1, AppendThen
      <4> QED BY <4>2 DEF o, e, x
    <3>6. Tree = out' \o g[Len(stack')]
      BY <2>1, <3>4, <3>5
    <3> QED BY <2>1, <3>4, <3>6 DEF Leaves
  <2> QED BY <2>1, <2>2, WalkGoesOn
\* The name is listed, and what is in it is left to a frame of its own.
<1>11. CASE EnterDirectory
  <2> DEFINE sub == Append(Advanced, Frame(Winner.ino, ChildPath, ChildLen))
  <2>1. /\ AtChild /\ ChildAccepted /\ ChildMeta.kind = "dir" /\ Enterable
        /\ stack' = sub /\ out' = Append(out, Item)
        /\ UNCHANGED <<log, mode, pc, rc, dirents>> /\ pc = "walk"
    BY <1>11 DEF EnterDirectory, Listed, Item, AtChild, ChildAccepted
  <2>2. ASSUME Unambiguous PROVE Leaves(stack', out')
    <3>1. PICK f, r : Here(f, r)
      BY <1>4, <2>1, <2>2
    <3> DEFINE a == <<Item>>
               b == Preorder[SubPlace]
    <3>2. /\ NextPlace(r) \in Regions /\ Preorder[NextPlace(r)] \in Seq(Items)
          /\ Item \in Items /\ SubPlace \in Regions /\ b \in Seq(Items)
          /\ Preorder[r] = (a \o b) \o Preorder[NextPlace(r)]
      BY <1>3, <2>1, <2>2, <3>1
    <3>3. a \in Seq(Items)
      BY <3>2
    <3> HIDE DEF a, b
    <3>4. a \o b \in Seq(Items)
      BY <3>2, <3>3, ConcatProperties
    <3>5. PICK g : /\ Rests(Regions, Preorder, Items, dirents, Advanced, g)
                   /\ Len(Advanced) = n /\ Advanced \in Seq(Frames) /\ g[n] \in Seq(Items)
                   /\ Tree = out \o ((a \o b) \o g[n])
      BY <2>1, <3>1, <3>2, <3>4, NameListed
    <3>6. PICK h : /\ Rests(Regions, Preorder, Items, dirents, sub, h)
                   /\ h[Len(sub)] = b \o g[n]
      BY <2>1, <3>2, <3>5, DirectoryOpened DEF b
    <3> HIDE DEF sub
    <3> DEFINE y == g[n]
               z == b \o y
    <3>7. y \in Seq(Items) /\ z \in Seq(Items) /\ Tree = out \o ((a \o b) \o y)
      <4>1. y \in Seq(Items)
        BY <3>5
      <4> HIDE DEF y
      <4>2. b \o y \in Seq(Items)
        BY <3>2, <4>1, ConcatProperties
      <4> QED BY <3>5, <4>1, <4>2 DEF y
    <3>8. (a \o b) \o y = a \o (b \o y)
      <4>1. a \in Seq(Items) /\ b \in Seq(Items) /\ y \in Seq(Items)
        BY <3>2, <3>3, <3>7
      <4> HIDE DEF y
      <4> QED BY ONLY <4>1, ConcatAssociative
    <3>9. h[Len(sub)] = z /\ Tree = out \o (a \o z)
      BY <3>6, <3>7, <3>8
    <3> HIDE DEF y, z
    <3>10. Append(out, Item) \o z = out \o (<<Item>> \o z)
      <4> DEFINE o == out
                 e == Item
                 I == Items
      <4>1. o \in Seq(I) /\ e \in I /\ z \in Seq(I)
        BY <1>0, <3>2, <3>7
      <4> HIDE DEF o, e, I
      <4>2. Append(o, e) \o z = o \o (<<e>> \o z)
        BY ONLY <4>1, AppendThen
      <4> QED BY <4>2 DEF o, e
    <3>11. Tree = out' \o h[Len(stack')]
      BY <2>1, <3>9, <3>10 DEF a
    <3> QED BY <2>1, <3>6, <3>11 DEF Leaves
  <2> QED BY <2>1, <2>2, WalkGoesOn
\* The end of a directory, and of the walk.
<1>12. CASE LeaveDirectory
  <2>1. /\ pc = "walk" /\ stack # <<>> /\ ~AtChild /\ stack' = Front(stack)
        /\ pc' = IF n = 1 THEN "done" ELSE "walk"
        /\ UNCHANGED <<log, mode, rc, dirents, out>>
    BY <1>12 DEF LeaveDirectory
  <2>2. ASSUME Unambiguous
        PROVE  \E f : /\ Rests(Regions, Preorder, Items, dirents, stack', f)
                      /\ Tree = out \o f[n - 1] /\ n \in Nat \ {0} /\ Len(stack') = n - 1
                      /\ f[0] = <<>>
    <3>1. n \in Nat \ {0} /\ \E f, r : Here(f, r)
      BY <2>1, <2>2, HereIsPlace
    <3>2. PICK f, r : Here(f, r)
      BY <3>1
    <3>3. Preorder[r] = <<>>
      BY <2>1, <3>2, ListedAtEnd DEF Here
    <3> DEFINE m == n - 1
               x == f[n - 1]
    <3>4. f[n] = x
      <4>1. x \in Seq(Items) /\ f[n] = <<>> \o x
        BY <3>2, <3>3 DEF Here
      <4> HIDE DEF x
      <4>2. <<>> \o x = x
        BY <4>1
      <4> QED BY <4>1, <4>2
    <3>5. Len(stack') = n - 1 /\ \A i \in 1 .. n - 1 : stack'[i] = stack[i]
      BY <1>0, <2>1, FrontOfStack
    <3>6. Rests(Regions, Preorder, Items, dirents, stack, f) /\ Tree = out \o f[n]
      BY <3>2 DEF Here
    <3>7. m \in Nat /\ n = m + 1
      BY <3>1
    <3>8. Rests(Regions, Preorder, Items, dirents, stack', f)
      <4> DEFINE u == stack'
                 s == stack
      <4>1. /\ Len(s) = m + 1 /\ Len(u) = m /\ (\A i \in 1 .. m : u[i] = s[i])
            /\ Rests(Regions, Preorder, Items, dirents, s, f)
        BY <3>5, <3>6, <3>7
      <4> HIDE DEF u, s, m
      <4>2. Rests(Regions, Preorder, Items, dirents, u, f)
        BY <3>7, <4>1, RestsPopped
      <4> QED BY <4>2 DEF u
    <3>9. f[0] = <<>>
      BY <3>6 DEF Rests
    <3> QED BY <3>1, <3>4, <3>5, <3>6, <3>8, <3>9
  <2>3. CASE n # 1
    <3>1. pc' = "walk"
      BY <2>1, <2>3
    <3>2. Unambiguous => Leaves(stack', out')
      BY <2>1, <2>2 DEF Leaves
    <3> QED BY <2>1, <3>1, <3>2, WalkGoesOn
  <2>4. CASE n = 1
    <3>1. pc' = "done" /\ rc' = 0 /\ out' = out
      BY <2>1, <2>4 DEF ListInv
    <3>2. ASSUME Unambiguous PROVE Tree = out
      <4>1. PICK f : Tree = out \o f[n - 1] /\ f[0] = <<>>
        BY <2>2, <3>2
      <4>2. n - 1 = 0
        BY <2>4
      <4> DEFINE o == out
      <4>3. o \o <<>> = o
        <5>1. o \in Seq(Items)
          BY <1>0
        <5> HIDE DEF o
        <5> QED BY ONLY <5>1
      <4> QED BY <4>1, <4>2, <4>3
    <3>3. Broken \notin Range(out)
      BY ListedAreItems DEF TypeOK
    <3>4. Tree' = Tree /\ (Unambiguous' <=> Unambiguous)
      BY <2>1, TreeStays
    <3>5. Unambiguous' => out' = Tree' /\ Broken \notin Range(Tree')
      BY <3>1, <3>2, <3>3, <3>4
    <3>6. ListIsLive'
      BY <3>1, <3>5 DEF ListIsLive
    <3> QED BY <3>1, <3>6 DEF ListInv
  <2> QED BY <2>3, <2>4
<1>13. CASE ReplayFragment \/ WriteFile
  <2>1. /\ pc = "file" /\ pc' \in {"walk", "file"}
        /\ UNCHANGED <<log, mode, rc, dirents, stack, out>>
    BY <1>13 DEF ReplayFragment, WriteFile
  <2> QED BY <2>1, WalkGoesOn DEF ListInv
<1> QED
  BY <1>1, <1>2, <1>5, <1>6, <1>7, <1>8, <1>9, <1>10, <1>11, <1>12, <1>13
  DEF Next, walk_directory, extract_regular_file

\* For every log in which no two nodes claim the same version: a walk that
\* succeeds has listed the live tree of the log, every live name once, in
\* order, a directory before its content; and a listing in which no allocation
\* fails gives up exactly when that tree has something broken in it.
THEOREM ListIsLiveHolds == Spec => []ListIsLive
<1>1. Init => ListInv
  BY DEF Init, ListInv, ListIsLive
<1>2. TypeOK /\ TypeOK' /\ Sorted /\ Sorted' /\ Gathered /\ Measures(stack) /\ StackBounded
        /\ ListInv /\ [Next]_vars => ListInv'
  BY ListStep
<1>3. ListInv => ListIsLive
  BY DEF ListInv
<1> QED BY <1>1, <1>2, <1>3, SortedHolds, GatheredHolds, Measured, StackBoundedHolds, PTL DEF Spec
=============================================================================

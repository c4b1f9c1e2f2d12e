---------------------------- MODULE CramfsProofs ----------------------------
(***************************************************************************)
(* The bounds of the cramfs walk, for every image: what it reads of a      *)
(* directory and of a file's blocks lies inside the declared size, the     *)
(* recursion is bounded, paths fit their buffers, files are complete, the  *)
(* disk shows the list, and the list is the tree of the image.             *)
(***************************************************************************)
EXTENDS Cramfs, SequenceTheorems, WellFoundedInduction, TLAPS

\* A sequence without its last element is a sequence over the same set.
LEMMA PrefixOfSequence ==
    ASSUME NEW S, NEW s \in Seq(S), s # <<>>
    PROVE  /\ Len(SubSeq(s, 1, Len(s) - 1)) = Len(s) - 1
           /\ \A i \in 1 .. Len(s) - 1 : SubSeq(s, 1, Len(s) - 1)[i] = s[i]
<1>1. PICK n \in Nat \ {0} : n = Len(s)
  OBVIOUS
<1>2. n - 1 \in Int /\ \A i \in 1 .. n - 1 : s[i] \in S
  BY <1>1
<1>3. /\ Len(SubSeq(s, 1, n - 1)) = IF 1 <= n - 1 THEN (n - 1) - 1 + 1 ELSE 0
      /\ \A i \in 1 .. (n - 1) - 1 + 1 : SubSeq(s, 1, n - 1)[i] = s[1 + i - 1]
  BY <1>2, SubSeqProperties
<1>4. (n - 1) - 1 + 1 = n - 1 /\ \A i \in 1 .. n - 1 : 1 + i - 1 = i
  BY <1>1
<1>5. 1 <= n - 1 \/ n - 1 = 0
  BY <1>1
<1> QED BY <1>1, <1>3, <1>4, <1>5

\* Whatever stands at the cursor decodes to a well-typed entry.
LEMMA ChildTyped ==
    ASSUME TypeOK
    PROVE  EntryOK(Child)
<1>1. ImageOK(im)
  BY CramfsAssumption DEF TypeOK
<1>2. \A x : EntryOK(Entry(x))
  BY <1>1 DEF ImageOK, Entry, EntryOK, Zero
<1> QED BY <1>2 DEF Child

\* Every block pointer is a natural number.
LEMMA PointerTyped == TypeOK => \A x : Pointer(x) \in Nat
  BY CramfsAssumption DEF TypeOK, ImageOK, Pointer

\* A file has a natural number of blocks.
LEMMA NBlocksTyped == \A n \in Nat : NBlocks(n) \in Nat
  BY CramfsAssumption DEF NBlocks

\* What an accepted entry does to the deepest frame: it moves on inside its
\* region, which stays the same.
LEMMA AdvancedFrames ==
    ASSUME TypeOK, AtEntry, EntryAccepted
    PROVE  /\ Advanced \in Seq(Frames) /\ Len(Advanced) = Len(stack)
           /\ \A i \in 1 .. Len(stack) :
                Advanced[i].pos + Advanced[i].remaining
                  = stack[i].pos + stack[i].remaining
           /\ ChildPath \in Seq(Names) /\ ChildLen \in Nat
<1> DEFINE n == Len(stack)
<1>1. n \in Nat \ {0} /\ stack \in Seq(Frames)
  BY DEF AtEntry, TypeOK
<1>2. stack[n] \in Frames
  BY <1>1
<1>3. EntryOK(Child) /\ Child.namelen \in Nat
  BY ChildTyped DEF EntryOK
<1> DEFINE step == INODE_SIZE + Child.namelen
<1>4. step \in Nat /\ step <= stack[n].remaining
  BY <1>2, <1>3 DEF EntryAccepted, Top, INODE_SIZE, Frames
<1> DEFINE moved == [pos |-> stack[n].pos + step,
                     remaining |-> stack[n].remaining - step,
                     path |-> stack[n].path, plen |-> stack[n].plen]
<1>5. Advanced = [stack EXCEPT ![n] = moved]
  BY DEF Advanced, Frame, Top
<1> HIDE DEF step
<1>6. moved \in Frames
  BY <1>2, <1>4 DEF Frames
<1>7. Advanced \in Seq(Frames) /\ Len(Advanced) = Len(stack)
  BY <1>1, <1>5, <1>6
<1>8. ASSUME NEW i \in 1 .. n
      PROVE  Advanced[i].pos + Advanced[i].remaining
               = stack[i].pos + stack[i].remaining
  BY <1>1, <1>2, <1>4, <1>5 DEF Frames
<1>9. Child.name \in Names /\ NameLen[Child.name] \in Nat
  BY <1>3, FsTreeAssumption DEF EntryOK, EntryAccepted
<1>10. Top.path \in Seq(Names) /\ Top.plen \in Nat
  BY <1>2 DEF Top, Frames
<1>11. ChildPath \in Seq(Names)
  BY <1>9, <1>10 DEF ChildPath
<1>12. ChildLen \in Nat
  BY <1>9, <1>10 DEF ChildLen, JoinedLen
<1> QED BY <1>7, <1>8, <1>11, <1>12

-----------------------------------------------------------------------------
\* The initial state has the types.
LEMMA TypeInit == Init => TypeOK
  BY DEF Init, TypeOK, NoFile, Files

\* Every step keeps the types.
LEMMA TypeStep == TypeOK /\ [Next]_vars => TypeOK'
<1> SUFFICES ASSUME TypeOK, [Next]_vars PROVE TypeOK'
  OBVIOUS
<1>0. /\ <<>> \in Seq(Frames) /\ NoFile \in Files
      /\ \A p \in Seq(Names), o, s, l \in Nat : Frame(o, s, p, l) \in Frames
  BY DEF Frame, Frames, NoFile, Files
<1> USE DEF TypeOK, Fail
<1>1. CASE UNCHANGED vars
  BY <1>1 DEF vars
<1>2. CASE Start
  <2>1. ImageOK(im)
    BY CramfsAssumption, FsTreeAssumption
  <2>2. im.root.offset \in Nat /\ im.root.size \in Nat
    BY <2>1 DEF ImageOK
  <2>3. Frame(im.root.offset, im.root.size, <<>>, 0) \in Frames
    BY <2>2 DEF Frame, Frames
  <2>4. <<Frame(im.root.offset, im.root.size, <<>>, 0)>> \in Seq(Frames)
    BY <2>3
  <2>5. stack' = <<>> \/ stack' = <<Frame(im.root.offset, im.root.size, <<>>, 0)>>
    BY <1>2 DEF Start
  <2> QED BY <1>0, <1>2, <2>4, <2>5 DEF Start
<1>3. CASE RejectEntry
  BY <1>0, <1>3 DEF RejectEntry
<1>4. CASE EnterDirectory
  <2>1. Advanced \in Seq(Frames) /\ ChildPath \in Seq(Names) /\ ChildLen \in Nat
    BY <1>4, AdvancedFrames DEF EnterDirectory
  <2>2. Frame(Child.offset, Child.size, ChildPath, ChildLen) \in Frames
    BY <1>0, <2>1, ChildTyped DEF EntryOK
  <2>3. stack' \in Seq(Frames)
    BY <1>4, <2>1, <2>2 DEF EnterDirectory
  <2> QED BY <1>4, <2>3 DEF EnterDirectory
<1>5. CASE RejectDirectory
  BY <1>0, <1>5 DEF RejectDirectory
<1>6. CASE VisitOther
  BY <1>6, AdvancedFrames DEF VisitOther
<1>7. CASE VisitRegular
  <2>1. Advanced \in Seq(Frames) /\ ChildPath \in Seq(Names)
    BY <1>7, AdvancedFrames DEF VisitRegular
  <2>2. Child.size \in Nat /\ Child.offset \in Nat /\ NBlocks(Child.size) \in Nat
    BY ChildTyped, NBlocksTyped DEF EntryOK
  <2>3. file' \in Files
    BY <1>7, <2>1, <2>2 DEF VisitRegular, Files
  <2> QED BY <1>7, <2>1, <2>3 DEF VisitRegular
<1>8. CASE RejectRegular
  BY <1>0, <1>8 DEF RejectRegular
<1>9. CASE LeaveDirectory
  <2>1. stack' \in Seq(Frames)
    BY <1>9 DEF LeaveDirectory, Front
  <2> QED BY <1>9, <2>1 DEF LeaveDirectory
<1>10. CASE WriteBlock
  <2> DEFINE block == [from |-> file.prev_end, to |-> NextEnd, len |-> expected_len]
  <2>1. NextEnd \in Nat
    BY PointerTyped DEF NextEnd
  <2>2. expected_len \in 0 .. BLOCK_SIZE
    BY CramfsAssumption DEF expected_len, BytesWritten, Files
  <2>3. block \in Blocks
    BY <2>1, <2>2 DEF Blocks, Files
  <2>4. Append(file.blocks, block) \in Seq(Blocks)
    BY <2>3 DEF Files
  <2>5. file' = [file EXCEPT !.blocks = Append(file.blocks, block),
                             !.prev_end = NextEnd]
    BY <1>10 DEF WriteBlock
  <2>6. file' \in Files
    BY <2>1, <2>4, <2>5 DEF Files
  <2> QED BY <1>10, <2>6 DEF WriteBlock
<1>11. CASE RejectBlock
  BY <1>0, <1>11 DEF RejectBlock
<1>12. CASE CloseFile
  BY <1>0, <1>12 DEF CloseFile
<1>13. CASE Returned
  BY <1>13 DEF Returned, vars
<1> QED
  BY <1>1, <1>2, <1>3, <1>4, <1>5, <1>6, <1>7, <1>8, <1>9, <1>10, <1>11,
     <1>12, <1>13 DEF Next, walk_directory, extract_regular_file

\* The variables keep their types: in particular no subtraction of the walk
\* leaves the naturals, so none of the C code's unsigned ones wraps.
THEOREM TypeCorrect == Spec => []TypeOK
  BY TypeInit, TypeStep, PTL DEF Spec

-----------------------------------------------------------------------------
(* The walk.                                                               *)

\* im.size and the region of every frame are known numbers.
LEMMA WalkStep ==
    ASSUME TypeOK, TypeOK', WalkInBounds, StackBounded, [Next]_vars
    PROVE  WalkInBounds' /\ StackBounded'
<1> USE DEF WalkInBounds, StackBounded
<1>0. /\ im \in Images /\ ImageOK(im) /\ im.size \in Nat
      /\ MAX_DIR_DEPTH \in Nat /\ stack \in Seq(Frames)
  BY CramfsAssumption, FsTreeAssumption DEF TypeOK, ImageOK
<1>1. CASE stack' = stack /\ im' = im
  BY <1>1
<1>2. CASE stack' = <<>> /\ im' = im
  BY <1>0, <1>2
<1>3. CASE Start
  <2>1. CASE stack' = <<Frame(im.root.offset, im.root.size, <<>>, 0)>>
             /\ im' = im /\ Enterable(im.root.offset, im.root.size, 0)
    <3>1. im.root.offset \in Nat /\ im.root.size \in Nat
      BY <1>0 DEF ImageOK
    <3>2. im.root.offset + im.root.size <= im.size
      BY <1>0, <2>1, <3>1 DEF Enterable
    <3> QED BY <1>0, <2>1, <3>1, <3>2 DEF Frame
  <2> QED BY <1>2, <1>3, <2>1 DEF Start, Fail
<1>4. ASSUME im' = im, stack' = Advanced, AtEntry, EntryAccepted
      PROVE  WalkInBounds' /\ StackBounded'
  BY <1>0, <1>4, AdvancedFrames
<1>5. CASE EnterDirectory
  <2> DEFINE sub == Frame(Child.offset, Child.size, ChildPath, ChildLen)
  <2>1. /\ Advanced \in Seq(Frames) /\ Len(Advanced) = Len(stack)
        /\ \A i \in 1 .. Len(stack) :
             Advanced[i].pos + Advanced[i].remaining
               = stack[i].pos + stack[i].remaining
    BY <1>5, AdvancedFrames DEF EnterDirectory
  <2>2. Child.offset \in Nat /\ Child.size \in Nat
    BY ChildTyped DEF EntryOK
  <2>3. /\ Child.offset + Child.size <= im.size
        /\ Len(stack) <= MAX_DIR_DEPTH
    BY <1>0, <1>5, <2>2 DEF EnterDirectory, Enterable
  <2>4. sub.pos + sub.remaining <= im.size
    BY <2>2, <2>3 DEF Frame
  <2>5. im' = im /\ stack' = Append(Advanced, sub)
    BY <1>5 DEF EnterDirectory
  <2> HIDE DEF sub
  <2>6. Len(stack') = Len(stack) + 1
    BY <2>1, <2>5
  <2>7. ASSUME NEW i \in 1 .. Len(stack')
        PROVE  stack'[i].pos + stack'[i].remaining <= im.size
    <3>1. CASE i <= Len(stack)
      BY <1>0, <2>1, <2>5, <2>6, <3>1
    <3>2. CASE i = Len(stack) + 1
      BY <1>0, <2>1, <2>4, <2>5, <3>2
    <3> QED BY <1>0, <2>6, <3>1, <3>2
  <2> QED BY <1>0, <2>3, <2>5, <2>6, <2>7
<1>6. CASE LeaveDirectory
  <2>1. im' = im /\ stack # <<>> /\ stack' = SubSeq(stack, 1, Len(stack) - 1)
    BY <1>6 DEF LeaveDirectory, Front
  <2>1a. /\ Len(stack') = Len(stack) - 1
        /\ \A i \in 1 .. Len(stack) - 1 : stack'[i] = stack[i]
    BY <1>0, <2>1, PrefixOfSequence DEF TypeOK
  <2>2. Len(stack') = Len(stack) - 1
        /\ \A i \in 1 .. Len(stack') : stack'[i] = stack[i]
    BY <2>1a
  <2> QED BY <1>0, <2>1, <2>2
<1>7. CASE RejectEntry \/ RejectDirectory \/ RejectRegular \/ RejectBlock
  BY <1>2, <1>7 DEF RejectEntry, RejectDirectory, RejectRegular, RejectBlock, Fail
<1>8. CASE VisitOther \/ VisitRegular
  BY <1>4, <1>8 DEF VisitOther, VisitRegular
<1>9. CASE WriteBlock \/ CloseFile \/ Returned \/ UNCHANGED vars
  BY <1>1, <1>9 DEF WriteBlock, CloseFile, Returned, vars
<1> QED
  BY <1>3, <1>5, <1>6, <1>7, <1>8, <1>9
  DEF Next, walk_directory, extract_regular_file

\* Whatever the image holds, no entry of a directory is read beyond the size
\* the superblock declares.
THEOREM WalkInBoundsHolds == Spec => []WalkInBounds
<1>1. Init => WalkInBounds /\ StackBounded
  BY CramfsAssumption, FsTreeAssumption DEF Init, WalkInBounds, StackBounded
<1>2. TypeOK /\ TypeOK' /\ (WalkInBounds /\ StackBounded) /\ [Next]_vars
        => (WalkInBounds /\ StackBounded)'
  BY WalkStep
<1> QED BY <1>1, <1>2, TypeCorrect, PTL DEF Spec

\* Whatever the image holds, cycles among its directories included, the
\* recursion stays within MAX_DIR_DEPTH + 1 frames.
THEOREM StackBoundedHolds == Spec => []StackBounded
<1>1. Init => WalkInBounds /\ StackBounded
  BY CramfsAssumption, FsTreeAssumption DEF Init, WalkInBounds, StackBounded
<1>2. TypeOK /\ TypeOK' /\ (WalkInBounds /\ StackBounded) /\ [Next]_vars
        => (WalkInBounds /\ StackBounded)'
  BY WalkStep
<1> QED BY <1>1, <1>2, TypeCorrect, PTL DEF Spec

-----------------------------------------------------------------------------
(* The blocks of a file.                                                   *)

\* prev_end is where the next block starts: behind the pointer array, or
\* where the last block ended.
PrevEnd ==
    pc = "file" =>
      file.prev_end = IF Len(file.blocks) = 0
                      THEN file.offset + 4 * NBlocks(file.size)
                      ELSE file.blocks[Len(file.blocks)].to

BlockInv == PrevEnd /\ BlocksFollowPointers

\* Every step keeps the chain of blocks and, with it, where it ends.
LEMMA BlockStep ==
    ASSUME TypeOK, TypeOK', BlockInv, [Next]_vars
    PROVE  BlockInv'
<1> USE DEF BlockInv, PrevEnd, BlocksFollowPointers
<1>0. file \in Files /\ file.blocks \in Seq(Blocks) /\ Len(file.blocks) \in Nat
  BY DEF TypeOK, Files
<1>1. CASE pc' # "file"
  BY <1>1
<1>2. CASE UNCHANGED vars \/ Returned
  BY <1>2 DEF vars, Returned, Pointer
<1>3. CASE VisitRegular
  BY <1>3 DEF VisitRegular
<1>4. CASE WriteBlock
  <2> DEFINE n == Len(file.blocks)
             block == [from |-> file.prev_end, to |-> NextEnd, len |-> expected_len]
  <2>1. /\ pc = "file" /\ im' = im
        /\ file' = [file EXCEPT !.blocks = Append(file.blocks, block),
                                !.prev_end = NextEnd]
    BY <1>4 DEF WriteBlock
  <2>2. /\ file'.blocks = Append(file.blocks, block) /\ file'.prev_end = NextEnd
        /\ file'.offset = file.offset /\ file'.size = file.size
    BY <1>0, <2>1 DEF Files
  <2>3. /\ Len(file'.blocks) = n + 1 /\ file'.blocks[n + 1] = block
        /\ \A i \in 1 .. n : file'.blocks[i] = file.blocks[i]
    BY <1>0, <2>2
  <2>4. /\ NextEnd = Pointer(file.offset + 4 * n)
        /\ file.prev_end <= NextEnd /\ NextEnd <= im.size
    BY <1>4, PointerTyped DEF WriteBlock, PointerAccepted, NextEnd, ptr_pos, Files, TypeOK
  <2>5. block.from = file.prev_end /\ block.to = NextEnd
    OBVIOUS
  <2>6. \A x : Pointer(x)' = Pointer(x)
    BY <2>1 DEF Pointer
  <2> HIDE DEF block
  <2>7. PrevEnd'
    BY <1>0, <2>2, <2>3, <2>5
  <2>8. ASSUME NEW i \in 1 .. n + 1
        PROVE  LET c == file'.blocks[i] IN
               /\ c.from = IF i = 1 THEN file.offset + 4 * NBlocks(file.size)
                                    ELSE file'.blocks[i - 1].to
               /\ c.to = Pointer(file.offset + 4 * (i - 1))
               /\ c.from <= c.to /\ c.to <= im.size
    <3>1. CASE i <= n
      <4>1. file'.blocks[i] = file.blocks[i]
            /\ (i # 1 => file'.blocks[i - 1] = file.blocks[i - 1])
        BY <1>0, <2>3, <3>1
      <4> QED BY <1>0, <2>1, <3>1, <4>1
    <3>2. CASE i = n + 1
      <4>1. file'.blocks[i] = block /\ (i # 1 => file'.blocks[i - 1] = file.blocks[n])
        BY <1>0, <2>3, <3>2
      <4>2. i - 1 = n /\ (i = 1 <=> n = 0)
        BY <1>0, <3>2
      <4>3. file'.blocks[i].from = file.prev_end /\ file'.blocks[i].to = NextEnd
        BY <2>5, <4>1
      <4>4. file.prev_end = IF i = 1 THEN file.offset + 4 * NBlocks(file.size)
                            ELSE file'.blocks[i - 1].to
        BY <2>1, <4>1, <4>2
      <4>5. NextEnd = Pointer(file.offset + 4 * (i - 1))
        BY <2>4, <4>2
      <4> QED BY <2>4, <4>3, <4>4, <4>5
    <3> QED BY <1>0, <3>1, <3>2
  <2>9. BlocksFollowPointers'
    <3>1. NBlocks(file'.size) = NBlocks(file.size)
      BY <2>2
    <3>2. ASSUME NEW i \in 1 .. Len(file'.blocks)
          PROVE  LET c == file'.blocks[i] IN
                 /\ c.from = IF i = 1 THEN file'.offset + 4 * NBlocks(file'.size)
                                      ELSE file'.blocks[i - 1].to
                 /\ c.to = Pointer(file'.offset + 4 * (i - 1))
                 /\ c.from <= c.to /\ c.to <= im'.size
      <4>1. i \in 1 .. n + 1
        BY <2>3
      <4>2. im' = im /\ file'.offset = file.offset
        BY <2>1, <2>2
      <4> DEFINE Of(o, m) ==
             LET c == file'.blocks[i] IN
             /\ c.from = IF i = 1 THEN o + 4 * m ELSE file'.blocks[i - 1].to
             /\ c.to = Pointer(o + 4 * (i - 1))
             /\ c.from <= c.to /\ c.to <= im.size
      <4>3. Of(file.offset, NBlocks(file.size))
        BY <2>8, <4>1
      <4>4. Of(file'.offset, NBlocks(file'.size))
        BY <3>1, <4>2, <4>3
      <4> QED BY <4>2, <4>4
    <3> QED BY <2>6, <3>2
  <2> QED BY <2>7, <2>9
<1>5. CASE Start \/ RejectEntry \/ EnterDirectory \/ RejectDirectory
           \/ VisitOther \/ RejectRegular \/ LeaveDirectory \/ RejectBlock
           \/ CloseFile
  BY <1>1, <1>5 DEF Start, RejectEntry, EnterDirectory, RejectDirectory, Fail,
     VisitOther, RejectRegular, LeaveDirectory, RejectBlock, CloseFile, AtEntry
<1> QED
  BY <1>2, <1>3, <1>4, <1>5 DEF Next, walk_directory, extract_regular_file

\* The blocks a file is made of are, for every image, the ones its pointers
\* name, one behind the other and inside the declared size.
THEOREM BlocksFollowPointersHolds == Spec => []BlocksFollowPointers
<1>1. Init => BlockInv
  BY DEF Init, BlockInv, PrevEnd, BlocksFollowPointers
<1>2. TypeOK /\ TypeOK' /\ BlockInv /\ [Next]_vars => BlockInv'
  BY BlockStep
<1>3. BlockInv => BlocksFollowPointers
  BY DEF BlockInv
<1> QED BY <1>1, <1>2, <1>3, TypeCorrect, PTL DEF Spec

-----------------------------------------------------------------------------
(* The disk and the list.                                                  *)

IsList(l) == \E S : l \in Seq(S)

\* The list after one more entry.
LEMMA ListGrows ==
    ASSUME NEW l, IsList(l), NEW x
    PROVE  /\ IsList(Append(l, x)) /\ Len(l) \in Nat
           /\ Len(Append(l, x)) = Len(l) + 1 /\ Append(l, x)[Len(l) + 1] = x
           /\ \A i \in 1 .. Len(l) : i \in 1 .. Len(l) + 1 /\ Append(l, x)[i] = l[i]
           /\ \A i \in 1 .. Len(l) + 1 : i \in 1 .. Len(l) \/ i = Len(l) + 1
           /\ Len(l) + 1 \in 1 .. Len(l) + 1
<1>1. PICK S : l \in Seq(S)
  BY DEF IsList
<1>2. l \in Seq(S \cup {x})
  BY <1>1
<1>3. Append(l, x) \in Seq(S \cup {x})
  BY <1>2
<1> QED BY <1>2, <1>3 DEF IsList

\* Something is listed, and what it is is put on disk where nothing else was.
LEMMA ThingMirrored ==
    ASSUME NEW tree, NEW list, NEW path, NEW x, NEW e,
           IsList(list), Mirrors(tree, list), e.path = path, e.kind = x.kind,
           path \in DOMAIN tree => tree[path].kind = x.kind
    PROVE  Mirrors(Put(tree, path, x), Append(list, e))
<1> DEFINE t == Put(tree, path, x)
           l == Append(list, e)
<1>1. /\ DOMAIN t = DOMAIN tree \cup {path} /\ t[path] = x
      /\ \A q \in DOMAIN tree : q # path => t[q] = tree[q]
  BY DEF Put
<1>2. /\ Len(list) \in Nat /\ Len(l) = Len(list) + 1 /\ l[Len(list) + 1] = e
      /\ \A i \in 1 .. Len(list) : i \in 1 .. Len(list) + 1 /\ l[i] = list[i]
      /\ \A i \in 1 .. Len(list) + 1 : i \in 1 .. Len(list) \/ i = Len(list) + 1
      /\ Len(list) + 1 \in 1 .. Len(list) + 1
  BY ListGrows
<1> HIDE DEF t, l
<1>3. ASSUME NEW q \in DOMAIN t
      PROVE  \E i \in 1 .. Len(l) : l[i].path = q /\ l[i].kind = t[q].kind
  <2>1. CASE q = path
    BY <1>1, <1>2, <2>1
  <2>2. CASE q # path
    <3>1. PICK i \in 1 .. Len(list) : list[i].path = q /\ list[i].kind = tree[q].kind
      BY <1>1, <2>2 DEF Mirrors
    <3> QED BY <1>1, <1>2, <2>2, <3>1
  <2> QED BY <2>1, <2>2
<1>4. ASSUME NEW i \in 1 .. Len(l), l[i].kind # "other"
      PROVE  l[i].path \in DOMAIN t /\ t[l[i].path].kind = l[i].kind
  <2>1. CASE i \in 1 .. Len(list)
    <3>1. /\ l[i] = list[i] /\ list[i].path \in DOMAIN tree
          /\ tree[list[i].path].kind = list[i].kind
      BY <1>2, <1>4, <2>1 DEF Mirrors
    <3> QED BY <1>1, <3>1
  <2>2. CASE i = Len(list) + 1
    BY <1>1, <1>2, <2>2
  <2> QED BY <1>2, <2>1, <2>2
<1>5. Mirrors(t, l)
  BY <1>3, <1>4 DEF Mirrors
<1> QED BY <1>5 DEF t, l

\* Something is listed of which nothing is put on disk.
LEMMA OtherMirrored ==
    ASSUME NEW tree, NEW list, NEW e, IsList(list), Mirrors(tree, list), e.kind = "other"
    PROVE  Mirrors(tree, Append(list, e))
<1> DEFINE l == Append(list, e)
<1>1. /\ Len(list) \in Nat /\ Len(l) = Len(list) + 1 /\ l[Len(list) + 1] = e
      /\ \A i \in 1 .. Len(list) : i \in 1 .. Len(list) + 1 /\ l[i] = list[i]
      /\ \A i \in 1 .. Len(list) + 1 : i \in 1 .. Len(list) \/ i = Len(list) + 1
  BY ListGrows
<1> HIDE DEF l
<1>2. ASSUME NEW q \in DOMAIN tree
      PROVE  \E i \in 1 .. Len(l) : l[i].path = q /\ l[i].kind = tree[q].kind
  <2>1. PICK i \in 1 .. Len(list) : list[i].path = q /\ list[i].kind = tree[q].kind
    BY DEF Mirrors
  <2> QED BY <1>1, <2>1
<1>3. ASSUME NEW i \in 1 .. Len(l), l[i].kind # "other"
      PROVE  l[i].path \in DOMAIN tree /\ tree[l[i].path].kind = l[i].kind
  <2>1. i \in 1 .. Len(list) /\ l[i] = list[i]
    BY <1>1, <1>3
  <2> QED BY <1>3, <2>1 DEF Mirrors
<1>4. Mirrors(tree, l)
  BY <1>2, <1>3 DEF Mirrors
<1> QED BY <1>4 DEF l

\* What is on disk is written again, as a thing of the same kind.
LEMMA RewrittenMirrored ==
    ASSUME NEW tree, NEW list, NEW path \in DOMAIN tree, NEW x, Mirrors(tree, list),
           tree[path].kind = x.kind
    PROVE  Mirrors(Put(tree, path, x), list)
<1> DEFINE t == Put(tree, path, x)
<1>1. DOMAIN t = DOMAIN tree /\ \A q \in DOMAIN tree : t[q].kind = tree[q].kind
  BY DEF Put
<1> HIDE DEF t
<1>2. Mirrors(t, list)
  BY <1>1 DEF Mirrors
<1> QED BY <1>2 DEF t

\* Inductive: during an extraction the disk shows the list at any time.
MirrorInv ==
    /\ IsList(out)
    /\ pc = "start" => out = <<>>
    /\ DiskMirrorsList
    /\ pc = "file" => file.path \in DOMAIN disk /\ disk[file.path].kind = "reg"

\* Every step keeps the disk and the list together, or gives up.
LEMMA MirrorStep ==
    ASSUME TypeOK, MirrorInv, [Next]_vars
    PROVE  MirrorInv'
<1> USE DEF MirrorInv, DiskMirrorsList
<1>0. IsList(<<>>)
  BY DEF IsList
<1>1. CASE UNCHANGED vars \/ Returned
  BY <1>1 DEF vars, Returned
<1>2. CASE RejectEntry \/ RejectDirectory \/ RejectRegular \/ RejectBlock
  BY <1>0, <1>2 DEF RejectEntry, RejectDirectory, RejectRegular, RejectBlock, Fail
<1>3. CASE Start
  BY <1>0, <1>3 DEF Start, Fail
<1>4. CASE EnterDirectory
  <2> DEFINE e == ListEntry(ChildPath, Child.kind, Child.size)
  <2>1. /\ pc = "walk" /\ UNCHANGED <<mode, pc, rc>>
        /\ out' = Append(out, e)
        /\ mode = "extract" => Creatable(disk, ChildPath) /\ disk' = Put(disk, ChildPath, Dir)
    BY <1>4 DEF EnterDirectory, AtEntry, Listed, DirectoryMade
  <2>2. e.path = ChildPath /\ e.kind = Dir.kind
    BY <1>4 DEF EnterDirectory, ListEntry, Dir
  <2>3. Creatable(disk, ChildPath) => (ChildPath \in DOMAIN disk => disk[ChildPath].kind = Dir.kind)
    BY DEF Creatable, Dir
  <2> HIDE DEF e
  <2>4. IsList(out')
    BY <2>1, ListGrows
  <2>5. mode = "extract" /\ rc = 0 => Mirrors(disk', out')
    BY <2>1, <2>2, <2>3, ThingMirrored
  <2> QED BY <2>1, <2>4, <2>5
<1>5. CASE VisitOther
  <2> DEFINE e == ListEntry(ChildPath, Child.kind, Child.size)
  <2>1. /\ pc = "walk" /\ UNCHANGED <<mode, pc, rc, disk>> /\ out' = Append(out, e)
        /\ mode = "extract" => e.kind = "other"
    BY <1>5 DEF VisitOther, AtEntry, Listed, ListEntry
  <2> HIDE DEF e
  <2>2. IsList(out')
    BY <2>1, ListGrows
  <2>3. mode = "extract" /\ rc = 0 => Mirrors(disk', out')
    BY <2>1, OtherMirrored
  <2> QED BY <2>1, <2>2, <2>3
<1>6. CASE VisitRegular
  <2> DEFINE e == ListEntry(ChildPath, Child.kind, Child.size)
             r == Regular(Child.size, <<>>, FALSE)
  <2>1. /\ pc = "walk" /\ pc' = "file" /\ UNCHANGED <<mode, rc>> /\ mode = "extract"
        /\ out' = Append(out, e) /\ disk' = Put(disk, ChildPath, r)
        /\ Openable(disk, ChildPath) /\ file'.path = ChildPath
    BY <1>6 DEF VisitRegular, AtEntry, Listed
  <2>2. e.path = ChildPath /\ e.kind = r.kind /\ r.kind = "reg"
    BY <1>6 DEF VisitRegular, ListEntry, Regular
  <2> HIDE DEF e, r
  <2>3. ChildPath \in DOMAIN disk => disk[ChildPath].kind = r.kind
    BY <2>1, <2>2 DEF Openable
  <2>4. IsList(out')
    BY <2>1, ListGrows
  <2>5. rc = 0 => Mirrors(disk', out')
    BY <2>1, <2>2, <2>3, ThingMirrored
  <2>6. ChildPath \in DOMAIN disk' /\ disk'[ChildPath] = r
    BY <2>1 DEF Put
  <2> QED BY <2>1, <2>2, <2>4, <2>5, <2>6
<1>7. CASE LeaveDirectory
  BY <1>7 DEF LeaveDirectory
<1>8. ASSUME NEW r, pc = "file", UNCHANGED <<mode, rc, out>>, r.kind = "reg",
             disk' = disk \/ disk' = Put(disk, file.path, r)
      PROVE  /\ IsList(out') /\ DiskMirrorsList'
             /\ file.path \in DOMAIN disk' /\ disk'[file.path].kind = "reg"
  <2>1. CASE disk' = disk
    BY <1>8, <2>1
  <2>2. CASE disk' = Put(disk, file.path, r)
    <3>1. file.path \in DOMAIN disk /\ disk[file.path].kind = r.kind
      BY <1>8
    <3>2. mode = "extract" /\ rc = 0 => Mirrors(disk', out)
      BY <2>2, <3>1, RewrittenMirrored
    <3>3. file.path \in DOMAIN disk' /\ disk'[file.path] = r
      BY <2>2 DEF Put
    <3> QED BY <1>8, <3>2, <3>3
  <2> QED BY <1>8, <2>1, <2>2
<1>9. CASE WriteBlock
  <2>1. PICK blocks :
          /\ file'.path = file.path
          /\ disk' = [disk EXCEPT ![file.path] = Regular(file.size, blocks, FALSE)]
    BY <1>9 DEF WriteBlock, TypeOK, Files
  <2> DEFINE r == Regular(file.size, blocks, FALSE)
  <2>2. pc = "file" /\ UNCHANGED <<mode, pc, rc, out>> /\ r.kind = "reg"
    BY <1>9 DEF WriteBlock, Regular
  <2>3. disk' = Put(disk, file.path, r)
    BY <2>1, <2>2 DEF Put
  <2> HIDE DEF r
  <2>4. /\ IsList(out') /\ DiskMirrorsList'
        /\ file.path \in DOMAIN disk' /\ disk'[file.path].kind = "reg"
    BY <1>8, <2>2, <2>3
  <2> QED BY <2>1, <2>2, <2>4
<1>10. CASE CloseFile
  <2>1. /\ pc = "file" /\ pc' = "walk" /\ UNCHANGED <<mode, rc, out>>
        /\ disk' = disk \/ \E left \in Torn : disk' = [disk EXCEPT ![file.path] = left]
    BY <1>10 DEF CloseFile
  <2>2. \A left \in Torn : left.kind = "reg"
    BY DEF Torn, Regular
  <2>3. PICK r : r.kind = "reg" /\ (disk' = disk \/ disk' = Put(disk, file.path, r))
    <3>1. Regular(0, <<>>, TRUE).kind = "reg"
      BY DEF Regular
    <3>2. \A left : disk' = [disk EXCEPT ![file.path] = left] => disk' = Put(disk, file.path, left)
      BY <2>1 DEF Put
    <3> QED BY <2>1, <2>2, <3>1, <3>2
  <2>4. IsList(out') /\ DiskMirrorsList'
    BY <1>8, <2>1, <2>3
  <2> QED BY <2>1, <2>4
<1> QED
  BY <1>1, <1>2, <1>3, <1>4, <1>5, <1>6, <1>7, <1>9, <1>10
  DEF Next, walk_directory, extract_regular_file

\* For every image, whatever names it repeats, and whichever calls fail: as
\* long as an extraction has not failed, the directories and regular files of
\* its list are on disk, each as what it is listed, and nothing else.
THEOREM DiskMirrorsListHolds == Spec => []DiskMirrorsList
<1>1. Init => MirrorInv
  <2>1. IsList(<<>>)
    BY DEF IsList
  <2> QED BY <2>1 DEF Init, MirrorInv, DiskMirrorsList, Mirrors
<1>2. TypeOK /\ MirrorInv /\ [Next]_vars => MirrorInv'
  BY MirrorStep
<1>3. MirrorInv => DiskMirrorsList
  BY DEF MirrorInv
<1> QED BY <1>1, <1>2, <1>3, TypeCorrect, PTL DEF Spec

-----------------------------------------------------------------------------
(* The content of the files.                                               *)

\* Rounding up: so many blocks hold the whole, one less does not.
LEMMA Rounded ==
    ASSUME NEW b \in Nat \ {0}, NEW s \in Nat
    PROVE  LET k == (s + b - 1) \div b IN
           /\ k \in Nat /\ s <= b * k
           /\ \A n \in Nat : b * n \in Nat /\ b * (n + 1) = b * n + b
                            /\ (n < k => b * n <= s)
<1> DEFINE x == s + b - 1
           k == x \div b
<1>1. x \in Nat /\ k \in Nat /\ b * k <= x /\ x < b * k + b /\ b * k \in Nat
  OBVIOUS
<1>2. s <= b * k
  BY <1>1
<1>3. ASSUME NEW n \in Nat
      PROVE  b * n \in Nat /\ b * (n + 1) = b * n + b
  OBVIOUS
<1>4. ASSUME NEW n \in Nat, n < k
      PROVE  b * n <= s
  <2>1. n + 1 \in Nat /\ n + 1 <= k
    BY <1>1, <1>4
  <2>2. b * (n + 1) <= b * k
    BY <1>1, <2>1
  <2> HIDE DEF k
  <2> QED BY <1>1, <1>3, <2>2
<1> QED BY <1>1, <1>2, <1>3, <1>4

\* A sequence of blocks is laid out for a size: all but the last are full.
LaidOut(size, blocks) ==
    /\ blocks \in Seq(Blocks) /\ Len(blocks) <= NBlocks(size)
    /\ \A i \in 1 .. Len(blocks) :
         blocks[i].len = IF i < NBlocks(size) THEN BLOCK_SIZE
                         ELSE size - BLOCK_SIZE * (NBlocks(size) - 1)

\* A file on disk; done is FALSE while it is being written.  It is whole then,
\* or torn.
FileOK(f, done) ==
    /\ f.size \in Nat /\ LaidOut(f.size, f.blocks)
    /\ done => Len(f.blocks) = NBlocks(f.size) \/ f.torn

\* Inductive: what is on disk is a directory, a whole file, or the file that
\* is being written, as far as its blocks go.
ContentInv ==
    /\ \A path \in DOMAIN disk :
         disk[path].kind = "reg" =>
           FileOK(disk[path], ~(pc = "file" /\ file.path = path))
    /\ pc = "file" => /\ file.path \in DOMAIN disk
                      /\ disk[file.path] = Regular(file.size, file.blocks, FALSE)

\* A file on which nothing has been written yet.
LEMMA EmptyLaidOut ==
    ASSUME NEW size \in Nat
    PROVE  LaidOut(size, <<>>) /\ FileOK(Regular(size, <<>>, FALSE), FALSE)
<1>1. NBlocks(size) \in Nat
  BY NBlocksTyped
<1>2. LaidOut(size, <<>>)
  BY <1>1 DEF LaidOut
<1> QED BY <1>2 DEF FileOK, Regular

\* What a failed fclose or remove leaves of a file is a beginning of it.
LEMMA TornLaidOut ==
    ASSUME TypeOK, LaidOut(file.size, file.blocks), file.size \in Nat, NEW left \in Torn
    PROVE  FileOK(left, TRUE)
<1>1. PICK n \in 0 .. Len(file.blocks) : left = Regular(file.size, SubSeq(file.blocks, 1, n), TRUE)
  BY DEF Torn
<1> DEFINE s == file.blocks
           t == SubSeq(s, 1, n)
<1>2. s \in Seq(Blocks) /\ Len(s) \in Nat /\ n \in Nat /\ n <= Len(s)
  BY DEF LaidOut
<1>3. t \in Seq(Blocks) /\ Len(t) = n /\ \A i \in 1 .. n : t[i] = s[i]
  <2> HIDE DEF s
  <2>1. \A i \in 1 .. n : i \in 1 .. Len(s)
    BY <1>2
  <2> QED BY <1>2, <2>1
<1> HIDE DEF t
<1>4. NBlocks(file.size) \in Nat
  BY NBlocksTyped
<1>5. LaidOut(file.size, t)
  BY <1>2, <1>3, <1>4 DEF LaidOut
<1> QED BY <1>1, <1>5 DEF FileOK, Regular, t

\* The next block has the length that belongs to its place.
LEMMA NextBlockLaidOut ==
    ASSUME TypeOK, TypeOK', LaidOut(file.size, file.blocks), WriteBlock
    PROVE  /\ file'.size = file.size /\ file'.path = file.path
           /\ LaidOut(file.size, file'.blocks)
           /\ disk' = [disk EXCEPT ![file.path] = Regular(file.size, file'.blocks, FALSE)]
<1> DEFINE b == BLOCK_SIZE
           s == file.size
           k == NBlocks(s)
           n == Len(file.blocks)
           block == [from |-> file.prev_end, to |-> NextEnd, len |-> expected_len]
<1>1. /\ b \in Nat \ {0} /\ s \in Nat /\ n \in Nat /\ file.blocks \in Seq(Blocks)
      /\ file' \in Files /\ file \in Files
  BY CramfsAssumption DEF TypeOK, Files
<1>2. /\ file' = [file EXCEPT !.blocks = Append(file.blocks, block), !.prev_end = NextEnd]
      /\ disk' = [disk EXCEPT ![file.path] =
                    Regular(file.size, Append(file.blocks, block), FALSE)]
      /\ n < k
  BY DEF WriteBlock, MoreBlocks
<1>3. /\ file'.blocks = Append(file.blocks, block) /\ file'.size = s
      /\ file'.path = file.path /\ file'.blocks \in Seq(Blocks)
  BY <1>1, <1>2 DEF Files
<1>4. /\ Len(file'.blocks) = n + 1 /\ file'.blocks[n + 1] = block
      /\ \A i \in 1 .. n : file'.blocks[i] = file.blocks[i]
  BY <1>1, <1>3
<1>5. /\ k \in Nat /\ s <= b * k
      /\ b * n \in Nat /\ b * (n + 1) = b * n + b /\ b * n <= s
      /\ (n + 1 < k => b * n + b <= s)
  <2>1. /\ k \in Nat /\ s <= b * k
        /\ \A m \in Nat : b * m \in Nat /\ b * (m + 1) = b * m + b
                         /\ (m < k => b * m <= s)
    <3> DEFINE c == BLOCK_SIZE
    <3>1. c \in Nat \ {0} /\ k = (s + c - 1) \div c
      BY <1>1 DEF NBlocks
    <3> HIDE DEF s, k, c
    <3>2. s \in Nat
      BY <1>1
    <3>3. LET l == (s + c - 1) \div c IN
          /\ l \in Nat /\ s <= c * l
          /\ \A m \in Nat : c * m \in Nat /\ c * (m + 1) = c * m + c
                           /\ (m < l => c * m <= s)
      BY ONLY <3>1, <3>2, Rounded
    <3> QED BY <3>1, <3>3 DEF c
  <2> HIDE DEF s, k, n
  <2>2. n \in Nat /\ n + 1 \in Nat /\ n < k
    BY <1>1, <1>2
  <2> QED BY <2>1, <2>2
<1>6. expected_len = IF b * n + b > s THEN s - b * n ELSE b
  <2>1. n * b = b * n
    BY <1>1
  <2>2. BytesWritten = b * n
    BY <1>1, <1>5, <2>1 DEF BytesWritten
  <2> QED BY <2>2 DEF expected_len
<1>7. expected_len = IF n + 1 < k THEN b ELSE s - b * (k - 1)
  <2> HIDE DEF s, k, n, b
  <2>1. CASE n + 1 < k
    BY <1>1, <1>5, <1>6, <2>1
  <2>2. CASE n + 1 = k
    <3>1. k - 1 = n /\ b * k = b * n + b
      BY <1>1, <1>5, <2>2
    <3> QED BY <1>1, <1>5, <1>6, <2>2, <3>1
  <2>3. n + 1 < k \/ n + 1 = k
    BY <1>1, <1>2, <1>5
  <2> QED BY <2>1, <2>2, <2>3
<1>8. block.len = expected_len
  OBVIOUS
<1> HIDE DEF block
<1>9. ASSUME NEW i \in 1 .. n + 1
      PROVE  file'.blocks[i].len = IF i < k THEN b ELSE s - b * (k - 1)
  <2>1. CASE i \in 1 .. n
    BY <1>4, <2>1 DEF LaidOut
  <2>2. CASE i = n + 1
    BY <1>4, <1>7, <1>8, <2>2
  <2> QED BY <1>1, <2>1, <2>2
<1>10. Len(file'.blocks) <= k
  BY <1>1, <1>2, <1>4, <1>5
<1>11. LaidOut(s, file'.blocks)
  BY <1>3, <1>4, <1>9, <1>10 DEF LaidOut
<1> QED BY <1>2, <1>3, <1>11

\* Every step keeps the files whole, the one being written apart.
LEMMA ContentStep ==
    ASSUME TypeOK, TypeOK', ContentInv, [Next]_vars
    PROVE  ContentInv'
<1> USE DEF ContentInv
<1>0. Dir.kind # "reg" /\ \A s, l, t : Regular(s, l, t).kind = "reg"
  BY DEF Dir, Regular
<1>1. CASE UNCHANGED vars \/ Returned
  BY <1>1 DEF vars, Returned
<1>2. CASE pc # "file" /\ pc' # "file" /\ disk' = disk
  BY <1>2
<1>3. CASE /\ pc # "file" /\ pc' # "file"
           /\ \E path : disk' = Put(disk, path, Dir)
  <2>1. PICK p : disk' = Put(disk, p, Dir)
    BY <1>3
  <2>2. ASSUME NEW q \in DOMAIN disk', disk'[q].kind = "reg"
        PROVE  q \in DOMAIN disk /\ disk'[q] = disk[q]
    BY <1>0, <2>1, <2>2 DEF Put
  <2> QED BY <1>3, <2>2
<1>4. CASE VisitRegular
  <2> DEFINE r == Regular(Child.size, <<>>, FALSE)
  <2>1. /\ disk' = Put(disk, ChildPath, r) /\ pc # "file" /\ pc' = "file"
        /\ file'.path = ChildPath /\ file'.size = Child.size /\ file'.blocks = <<>>
    BY <1>4 DEF VisitRegular, AtEntry
  <2>2. FileOK(r, FALSE)
    <3>1. Child.size \in Nat
      BY ChildTyped DEF EntryOK
    <3> QED BY <3>1, EmptyLaidOut
  <2> HIDE DEF r
  <2>3. /\ DOMAIN disk' = DOMAIN disk \cup {ChildPath} /\ disk'[ChildPath] = r
        /\ \A q \in DOMAIN disk : q # ChildPath => disk'[q] = disk[q]
    BY <2>1 DEF Put
  <2>4. ASSUME NEW q \in DOMAIN disk', disk'[q].kind = "reg"
        PROVE  FileOK(disk'[q], ~(pc' = "file" /\ file'.path = q))
    <3>1. CASE q = ChildPath
      <4>1. (~(pc' = "file" /\ file'.path = q)) = FALSE
        BY <2>1, <3>1
      <4> QED BY <2>2, <2>3, <3>1, <4>1
    <3>2. CASE q # ChildPath
      <4>1. q \in DOMAIN disk /\ disk'[q] = disk[q]
        BY <2>3, <3>2
      <4>2. FileOK(disk[q], TRUE)
        BY <2>1, <2>4, <4>1 DEF FileOK
      <4> QED BY <4>1, <4>2 DEF FileOK
    <3> QED BY <3>1, <3>2
  <2> QED BY <2>1, <2>3, <2>4 DEF r
<1>5. CASE WriteBlock
  <2> DEFINE r == Regular(file.size, file'.blocks, FALSE)
  <2>1. /\ pc = "file" /\ pc' = "file" /\ file.path \in DOMAIN disk
        /\ FileOK(Regular(file.size, file.blocks, FALSE), FALSE)
    <3>1. pc = "file" /\ pc' = "file" /\ file.path \in DOMAIN disk
      BY <1>5 DEF WriteBlock
    <3>2. /\ disk[file.path] = Regular(file.size, file.blocks, FALSE)
          /\ disk[file.path].kind = "reg"
      BY <3>1 DEF Regular
    <3>3. (~(pc = "file" /\ file.path = file.path)) = FALSE
      BY <3>1
    <3>4. FileOK(disk[file.path], FALSE)
      BY <3>1, <3>2, <3>3
    <3> QED BY <3>1, <3>2, <3>4
  <2>2. LaidOut(file.size, file.blocks)
    BY <2>1 DEF FileOK, Regular
  <2>3. /\ file'.size = file.size /\ file'.path = file.path
        /\ LaidOut(file.size, file'.blocks)
        /\ disk' = [disk EXCEPT ![file.path] = r]
    BY <1>5, <2>2, NextBlockLaidOut
  <2>4. FileOK(r, FALSE)
    BY <2>1, <2>3 DEF FileOK, Regular
  <2> HIDE DEF r
  <2>5. /\ DOMAIN disk' = DOMAIN disk /\ disk'[file.path] = r
        /\ \A q \in DOMAIN disk : q # file.path => disk'[q] = disk[q]
    BY <2>1, <2>3
  <2>6. ASSUME NEW q \in DOMAIN disk', disk'[q].kind = "reg"
        PROVE  FileOK(disk'[q], ~(pc' = "file" /\ file'.path = q))
    <3>1. CASE q = file.path
      <4>1. (~(pc' = "file" /\ file'.path = q)) = FALSE
        BY <2>1, <2>3, <3>1
      <4> QED BY <2>4, <2>5, <3>1, <4>1
    <3>2. CASE q # file.path
      <4>1. q \in DOMAIN disk /\ disk'[q] = disk[q]
        BY <2>5, <3>2
      <4>2. FileOK(disk[q], TRUE)
        BY <2>6, <3>2, <4>1 DEF FileOK
      <4> QED BY <4>1, <4>2 DEF FileOK
    <3> QED BY <3>1, <3>2
  <2> QED BY <2>1, <2>3, <2>5, <2>6 DEF r
<1>6. ASSUME pc = "file", pc' # "file",
             \/ disk' = Without(disk, file.path)
             \/ \E left \in Torn : disk' = [disk EXCEPT ![file.path] = left]
      PROVE  ContentInv'
  <2>1. /\ DOMAIN disk' \subseteq DOMAIN disk
        /\ \A q \in DOMAIN disk' : \/ q # file.path /\ disk'[q] = disk[q]
                                   \/ q = file.path /\ disk'[q] \in Torn
    <3>1. CASE disk' = Without(disk, file.path)
      BY <3>1 DEF Without
    <3>2. CASE \E left \in Torn : disk' = [disk EXCEPT ![file.path] = left]
      BY <3>2
    <3> QED BY <1>6, <3>1, <3>2
  <2>2. LaidOut(file.size, file.blocks) /\ file.size \in Nat
    BY <1>0, <1>6 DEF FileOK, Regular
  <2>3. \A left \in Torn : FileOK(left, TRUE)
    BY <2>2, TornLaidOut
  <2>4. ASSUME NEW q \in DOMAIN disk', disk'[q].kind = "reg"
        PROVE  FileOK(disk'[q], ~(pc' = "file" /\ file'.path = q))
    <3>1. CASE q # file.path /\ disk'[q] = disk[q]
      <4>1. FileOK(disk[q], TRUE)
        BY <2>1, <2>4, <3>1 DEF FileOK
      <4> QED BY <3>1, <4>1 DEF FileOK
    <3>2. CASE disk'[q] \in Torn
      BY <2>3, <3>2 DEF FileOK
    <3> QED BY <2>1, <3>1, <3>2
  <2> QED BY <1>6, <2>4
<1>7. CASE RejectBlock
  <2>1. /\ pc = "file" /\ pc' # "file"
        /\ \/ disk' = Without(disk, file.path)
           \/ \E left \in Torn : disk' = [disk EXCEPT ![file.path] = left]
    BY <1>7 DEF RejectBlock, Fail
  <2> QED BY <1>6, <2>1
<1>8. CASE CloseFile
  <2>1. /\ pc = "file" /\ pc' = "walk" /\ ~(Len(file.blocks) < NBlocks(file.size))
        /\ disk' = disk \/ \E left \in Torn : disk' = [disk EXCEPT ![file.path] = left]
    BY <1>8 DEF CloseFile, MoreBlocks
  <2>2. CASE disk' = disk
    <3>1. ASSUME NEW q \in DOMAIN disk, disk[q].kind = "reg"
          PROVE  FileOK(disk[q], TRUE)
      <4>1. CASE q # file.path
        BY <3>1, <4>1 DEF FileOK
      <4>2. CASE q = file.path
        <5>1. disk[q] = Regular(file.size, file.blocks, FALSE)
          BY <2>1, <4>2
        <5>2. FileOK(Regular(file.size, file.blocks, FALSE), FALSE)
          BY <3>1, <5>1 DEF FileOK
        <5>3. file.size \in Nat /\ LaidOut(file.size, file.blocks)
          BY <5>2 DEF FileOK, Regular
        <5>4. Len(file.blocks) \in Nat /\ NBlocks(file.size) \in Nat
          BY <5>3, NBlocksTyped DEF LaidOut
        <5>5. Len(file.blocks) = NBlocks(file.size)
          BY <2>1, <5>3, <5>4 DEF LaidOut
        <5> QED BY <5>1, <5>3, <5>5 DEF FileOK, Regular
      <4> QED BY <4>1, <4>2
    <3>2. ASSUME NEW q \in DOMAIN disk, disk[q].kind = "reg"
          PROVE  FileOK(disk[q], ~(pc' = "file" /\ file'.path = q))
      BY <3>1, <3>2 DEF FileOK
    <3> QED BY <2>1, <2>2, <3>2
  <2> QED BY <1>6, <2>1, <2>2
<1>9. CASE Start \/ RejectEntry \/ VisitOther \/ RejectRegular \/ LeaveDirectory
  BY <1>2, <1>9 DEF Start, RejectEntry, VisitOther, RejectRegular, LeaveDirectory,
     AtEntry, Fail
<1>10. CASE EnterDirectory \/ RejectDirectory
  BY <1>2, <1>3, <1>10 DEF EnterDirectory, RejectDirectory, AtEntry, Fail
<1> QED
  BY <1>1, <1>4, <1>5, <1>7, <1>8, <1>9, <1>10
  DEF Next, walk_directory, extract_regular_file

\* For every image and whichever calls fail: a file on disk that is not being
\* written, and whose own fclose or remove has not failed, has all its blocks,
\* full but the last, and they make up its size; any other is a beginning.
THEOREM FilesCompleteHolds == Spec => []FilesComplete
<1>1. Init => ContentInv
  BY DEF Init, ContentInv
<1>2. TypeOK /\ TypeOK' /\ ContentInv /\ [Next]_vars => ContentInv'
  BY ContentStep
<1>3. ContentInv => FilesComplete
  <2> SUFFICES ASSUME ContentInv, NEW path \in DOMAIN disk, disk[path].kind = "reg"
               PROVE  LET size   == disk[path].size
                          blocks == disk[path].blocks
                      IN  /\ Len(blocks) <= NBlocks(size)
                          /\ \/ Len(blocks) = NBlocks(size)
                             \/ pc = "file" /\ file.path = path
                             \/ disk[path].torn
                          /\ \A i \in 1 .. Len(blocks) :
                               blocks[i].len =
                                 IF i < NBlocks(size) THEN BLOCK_SIZE
                                 ELSE size - BLOCK_SIZE * (NBlocks(size) - 1)
    BY DEF FilesComplete
  <2>1. FileOK(disk[path], ~(pc = "file" /\ file.path = path))
    BY DEF ContentInv
  <2>2. /\ disk[path].size \in Nat /\ NBlocks(disk[path].size) \in Nat
        /\ Len(disk[path].blocks) \in Nat
    <3>1. /\ disk[path].size \in Nat
          /\ LaidOut(disk[path].size, disk[path].blocks)
      BY <2>1 DEF FileOK
    <3>2. Len(disk[path].blocks) \in Nat
      BY <3>1 DEF LaidOut
    <3> QED BY <3>1, <3>2, NBlocksTyped
  <2> QED BY <2>1, <2>2 DEF FileOK, LaidOut
<1> QED BY <1>1, <1>2, <1>3, TypeCorrect, PTL DEF Spec

-----------------------------------------------------------------------------
(* The lengths of the paths.  StrLen is recursive: that a function with its
   equation exists, and that two such functions agree, follows from the
   least index at which they would not.                                     *)

\* Every non-empty set of natural numbers has a least element.
LEMMA LeastNatural ==
    ASSUME NEW T, T \subseteq Nat, T # {}
    PROVE  \E x \in T : \A y \in T : x <= y
<1>1. IsWellFoundedOn(OpToRel(<, Nat), Nat)
  BY NatLessThanWellFounded
<1> DEFINE R == {ss \in Nat \X Nat : ss[1] < ss[2]}
<1>2. OpToRel(<, Nat) = R
  BY DEF OpToRel
<1>3. IsWellFoundedOn(R, Nat)
  BY <1>1, <1>2
<1>4. \A x, y \in Nat : x < y => <<x, y>> \in R
  OBVIOUS
<1> HIDE DEF R
<1>5. PICK x \in T : \A y \in T : ~ (<<y, x>> \in R)
  BY <1>3, WFMin
<1>6. ASSUME NEW y \in T PROVE x <= y
  <2>1. x \in Nat /\ y \in Nat
    OBVIOUS
  <2>2. ~ (y < x)
    BY <1>4, <1>5, <2>1
  <2> QED BY <2>1, <2>2
<1> QED BY <1>6

\* f is strlen of every prefix of path, up to m names.
IsLengths(path, m, f) ==
    f = [n \in 0 .. m |-> IF n = 0 THEN -1 ELSE f[n - 1] + 1 + NameLen[path[n]]]

\* Names have lengths, and a path has so many of them.
LEMMA NamesHaveLengths ==
    ASSUME NEW path \in Seq(Names)
    PROVE  Len(path) \in Nat /\ \A n \in 1 .. Len(path) : NameLen[path[n]] \in Nat \ {0}
  BY FsTreeAssumption

\* There is such a function.
LEMMA LengthsExist ==
    ASSUME NEW path \in Seq(Names), NEW m \in 0 .. Len(path)
    PROVE  \E f \in [0 .. m -> Int] : IsLengths(path, m, f)
<1> DEFINE T == {k \in 0 .. Len(path) : ~ \E f \in [0 .. k -> Int] : IsLengths(path, k, f)}
<1>0. Len(path) \in Nat /\ T \subseteq Nat
  BY NamesHaveLengths
<1>1. ASSUME T # {} PROVE FALSE
  <2>1. PICK k \in T : \A j \in T : k <= j
    <3> HIDE DEF T
    <3> QED BY <1>0, <1>1, LeastNatural
  <2>2. k # 0
    <3>1. IsLengths(path, 0, [n \in 0 .. 0 |-> -1])
      BY DEF IsLengths
    <3>2. [n \in 0 .. 0 |-> -1] \in [0 .. 0 -> Int]
      OBVIOUS
    <3> QED BY <2>1, <3>1, <3>2
  <2>3. k \in 1 .. Len(path) /\ k - 1 \in 0 .. Len(path) /\ k - 1 \notin T
    <3>1. k \in 0 .. Len(path)
      OBVIOUS
    <3>2. k \in 1 .. Len(path) /\ k - 1 \in 0 .. Len(path) /\ ~ (k <= k - 1)
      BY <1>0, <2>2, <3>1
    <3> QED BY <2>1, <3>2
  <2>4. PICK f \in [0 .. k - 1 -> Int] : IsLengths(path, k - 1, f)
    BY <2>3
  <2> DEFINE g == [n \in 0 .. k |-> IF n = k THEN f[k - 1] + 1 + NameLen[path[k]] ELSE f[n]]
  <2>5. k \in Nat /\ k - 1 \in 0 .. k - 1 /\ NameLen[path[k]] \in Nat
    BY <1>0, <2>3, NamesHaveLengths
  <2>6. g \in [0 .. k -> Int]
    BY <2>4, <2>5
  <2>7. ASSUME NEW n \in 0 .. k
        PROVE  g[n] = IF n = 0 THEN -1 ELSE g[n - 1] + 1 + NameLen[path[n]]
    <3>1. CASE n = k
      <4>1. n # 0 /\ n - 1 \in 0 .. k /\ n - 1 # k
        BY <2>3, <2>5, <3>1
      <4>2. g[n - 1] = f[k - 1]
        BY <3>1, <4>1
      <4> QED BY <3>1, <4>1, <4>2
    <3>2. CASE n # k
      <4>1. n \in 0 .. k - 1 /\ (n # 0 => n - 1 \in 0 .. k /\ n - 1 # k)
        BY <2>5, <3>2
      <4>2. f[n] = IF n = 0 THEN -1 ELSE f[n - 1] + 1 + NameLen[path[n]]
        BY <2>4, <4>1 DEF IsLengths
      <4> QED BY <3>2, <4>1, <4>2
    <3> QED BY <3>1, <3>2
  <2> HIDE DEF g
  <2>8. IsLengths(path, k, g)
    BY <2>6, <2>7 DEF IsLengths
  <2> QED BY <2>1, <2>6, <2>8
<1>2. m \notin T
  BY <1>1
<1> QED BY <1>2

\* Two paths with a prefix in common, and the lengths along it.
Agree(path, q, m, f, g) ==
    \A n \in 0 .. m :
        /\ f[n] = IF n = 0 THEN -1 ELSE f[n - 1] + 1 + NameLen[path[n]]
        /\ g[n] = IF n = 0 THEN -1 ELSE g[n - 1] + 1 + NameLen[q[n]]
        /\ n # 0 => q[n] = path[n]

\* The lengths of a prefix depend on nothing behind it.
LEMMA LengthsAgree ==
    ASSUME NEW path, NEW q, NEW m \in Nat, NEW f, NEW g, Agree(path, q, m, f, g)
    PROVE  f[m] = g[m]
<1> DEFINE T == {k \in 0 .. m : f[k] # g[k]}
<1>0. T \subseteq Nat
  OBVIOUS
<1>1. ASSUME T # {} PROVE FALSE
  <2>1. PICK k \in T : \A j \in T : k <= j
    <3> HIDE DEF T
    <3> QED BY <1>0, <1>1, LeastNatural
  <2>2. /\ f[k] = IF k = 0 THEN -1 ELSE f[k - 1] + 1 + NameLen[path[k]]
        /\ g[k] = IF k = 0 THEN -1 ELSE g[k - 1] + 1 + NameLen[q[k]]
        /\ k # 0 => q[k] = path[k]
    BY <2>1 DEF Agree
  <2>3. k # 0
    BY <2>1, <2>2
  <2>4. k \in 1 .. m /\ k - 1 \in 0 .. m /\ k - 1 \notin T
    BY <2>1, <2>3
  <2>5. f[k - 1] = g[k - 1]
    BY <2>4
  <2>6. f[k] = g[k]
    BY <2>2, <2>3, <2>4, <2>5
  <2> QED BY <2>1, <2>6
<1> QED BY <1>1

\* Lengths is such a function: its recursive equation holds.
LEMMA LengthsUnfold ==
    ASSUME NEW path \in Seq(Names)
    PROVE  IsLengths(path, Len(path), Lengths(path)) /\ StrLen(path) \in Int
<1> DEFINE F(f) == [n \in 0 .. Len(path) |->
                      IF n = 0 THEN -1 ELSE f[n - 1] + 1 + NameLen[path[n]]]
<1>0. Len(path) \in Nat /\ Len(path) \in 0 .. Len(path)
  BY NamesHaveLengths
<1>1. PICK f \in [0 .. Len(path) -> Int] : IsLengths(path, Len(path), f)
  BY <1>0, LengthsExist
<1>2. f = F(f)
  BY <1>1 DEF IsLengths
<1>3. Lengths(path) = CHOOSE g : g = F(g)
  BY DEF Lengths
<1> HIDE DEF F
<1>4. Lengths(path) = F(Lengths(path))
  BY <1>2, <1>3
<1>5. IsLengths(path, Len(path), Lengths(path))
  BY <1>4 DEF F, IsLengths
<1>6. f[Len(path)] = Lengths(path)[Len(path)]
  <2> DEFINE u == Lengths(path)
             m == Len(path)
  <2>1. Agree(path, path, m, f, u)
    BY <1>0, <1>1, <1>5 DEF Agree, IsLengths
  <2>2. m \in Nat
    BY <1>0
  <2> HIDE DEF u, m
  <2>3. f[m] = u[m]
    BY ONLY <2>1, <2>2, LengthsAgree
  <2> QED BY <2>3 DEF u, m
<1> QED BY <1>0, <1>1, <1>5, <1>6 DEF StrLen

\* The string of a path grows by a separator and the name.
LEMMA StrLenGrows ==
    ASSUME NEW path \in Seq(Names), NEW name \in Names
    PROVE  /\ StrLen(Append(path, name)) = StrLen(path) + 1 + NameLen[name]
           /\ StrLen(path) \in Int
           /\ StrLen(<<>>) = -1
<1> DEFINE q == Append(path, name)
           l == Len(path)
<1>1. l \in Nat /\ q \in Seq(Names) /\ Len(q) = l + 1 /\ q[l + 1] = name
      /\ \A n \in 1 .. l : q[n] = path[n]
  OBVIOUS
<1>2. IsLengths(path, l, Lengths(path)) /\ StrLen(path) \in Int
  BY LengthsUnfold
<1>3. IsLengths(q, l + 1, Lengths(q))
  BY <1>1, LengthsUnfold
<1>4. Lengths(q)[l + 1] = Lengths(q)[l] + 1 + NameLen[name]
  BY <1>1, <1>3 DEF IsLengths
<1>5. Lengths(q)[l] = Lengths(path)[l]
  <2> DEFINE f == Lengths(path)
             g == Lengths(q)
  <2>1. Agree(path, q, l, f, g)
    <3>1. ASSUME NEW n \in 0 .. l
          PROVE  n \in 0 .. l + 1 /\ (n # 0 => n \in 1 .. l)
      BY <1>1
    <3>2. ASSUME NEW n \in 0 .. l
          PROVE  /\ f[n] = IF n = 0 THEN -1 ELSE f[n - 1] + 1 + NameLen[path[n]]
                 /\ g[n] = IF n = 0 THEN -1 ELSE g[n - 1] + 1 + NameLen[q[n]]
                 /\ n # 0 => q[n] = path[n]
      <4> HIDE DEF l, q
      <4>1. n \in 0 .. l + 1 /\ (n # 0 => n \in 1 .. l)
        BY <3>1
      <4>2. f[n] = IF n = 0 THEN -1 ELSE f[n - 1] + 1 + NameLen[path[n]]
        <5>1. IsLengths(path, l, f)
          BY <1>2
        <5> HIDE DEF f
        <5> QED BY <5>1 DEF IsLengths
      <4>3. g[n] = IF n = 0 THEN -1 ELSE g[n - 1] + 1 + NameLen[q[n]]
        <5>1. IsLengths(q, l + 1, g)
          BY <1>3
        <5> HIDE DEF g
        <5> QED BY <4>1, <5>1 DEF IsLengths
      <4> QED BY <1>1, <4>1, <4>2, <4>3
    <3> HIDE DEF f, g, q, l
    <3> QED BY <3>2 DEF Agree
  <2>2. l \in Nat
    BY <1>1
  <2> HIDE DEF f, g, q, l
  <2>3. f[l] = g[l]
    BY ONLY <2>1, <2>2, LengthsAgree
  <2> QED BY <2>3 DEF f, g
<1>6. StrLen(<<>>) = -1
  <2>1. <<>> \in Seq(Names) /\ Len(<<>>) = 0
    OBVIOUS
  <2>2. IsLengths(<<>>, 0, Lengths(<<>>))
    BY <2>1, LengthsUnfold
  <2> QED BY <2>1, <2>2 DEF IsLengths, StrLen
<1> QED BY <1>1, <1>2, <1>4, <1>5, <1>6 DEF StrLen

\* What snprintf counts for a child is the length of its whole path.
LEMMA JoinedLenIsStrLen ==
    ASSUME NEW path \in Seq(Names), NEW plen, NEW name \in Names,
           path = <<>> \/ plen = StrLen(path)
    PROVE  JoinedLen(path, plen, name) = StrLen(Append(path, name))
<1>1. /\ StrLen(Append(path, name)) = StrLen(path) + 1 + NameLen[name]
      /\ StrLen(path) \in Int /\ StrLen(<<>>) = -1 /\ NameLen[name] \in Nat
  BY StrLenGrows, FsTreeAssumption
<1> QED BY <1>1 DEF JoinedLen

\* Inductive: the length each frame carries is that of its path.
PathInv ==
    /\ PathsFit
    /\ IsList(out)
    /\ \A i \in 1 .. Len(stack) :
         stack[i].path = <<>> \/ stack[i].plen = StrLen(stack[i].path)

\* The child that process_dir_entry looks at has the path it has measured.
LEMMA ChildMeasured ==
    ASSUME TypeOK, PathInv, AtEntry, EntryAccepted
    PROVE  /\ ChildLen = StrLen(ChildPath) /\ StrLen(ChildPath) < PATH_CAP
           /\ \A i \in 1 .. Len(Advanced) :
                Advanced[i].path = <<>> \/ Advanced[i].plen = StrLen(Advanced[i].path)
<1> DEFINE n == Len(stack)
<1>1. n \in Nat \ {0} /\ n \in 1 .. n /\ stack[n] \in Frames /\ Top = stack[n]
  BY DEF AtEntry, TypeOK, Top
<1>2. /\ Top.path \in Seq(Names)
      /\ Top.path = <<>> \/ Top.plen = StrLen(Top.path)
  BY <1>1 DEF PathInv, Frames
<1>3. Child.name \in Names
  BY ChildTyped DEF EntryOK, EntryAccepted
<1>4. ChildLen = StrLen(ChildPath)
  BY <1>2, <1>3, JoinedLenIsStrLen DEF ChildLen, ChildPath
<1>5. ASSUME NEW i \in 1 .. n
      PROVE  Advanced[i].path = stack[i].path /\ Advanced[i].plen = stack[i].plen
  BY <1>1 DEF Advanced, Frame, TypeOK
<1>6. Len(Advanced) = n
  BY AdvancedFrames
<1>7. ASSUME NEW i \in 1 .. Len(Advanced)
      PROVE  Advanced[i].path = <<>> \/ Advanced[i].plen = StrLen(Advanced[i].path)
  BY <1>5, <1>6 DEF PathInv
<1> QED BY <1>4, <1>7 DEF EntryAccepted

\* Every step measures the paths it adds.
LEMMA PathStep ==
    ASSUME TypeOK, PathInv, [Next]_vars
    PROVE  PathInv'
<1> DEFINE Measured(s) ==
      \A i \in 1 .. Len(s) : s[i].path = <<>> \/ s[i].plen = StrLen(s[i].path)
<1>0. IsList(<<>>) /\ Measured(<<>>) /\ stack \in Seq(Frames)
  BY DEF IsList, TypeOK
<1>1. CASE UNCHANGED vars \/ Returned
  BY <1>1 DEF vars, Returned, PathInv, PathsFit
<1>2. CASE out' = <<>> /\ Measured(stack') /\ DOMAIN disk' \subseteq DOMAIN disk
  BY <1>0, <1>2 DEF PathInv, PathsFit
<1>3. CASE out' = out /\ Measured(stack') /\ DOMAIN disk' \subseteq DOMAIN disk
  BY <1>3 DEF PathInv, PathsFit
<1>4. CASE /\ AtEntry /\ EntryAccepted /\ Measured(stack')
           /\ \/ out' = <<>>
              \/ \E x : out' = Append(out, x) /\ x.path = ChildPath
           /\ \/ DOMAIN disk' \subseteq DOMAIN disk
              \/ DOMAIN disk' = DOMAIN disk \cup {ChildPath} /\ Joinable(ChildLen)
  <2>1. ChildLen = StrLen(ChildPath) /\ StrLen(ChildPath) < PATH_CAP
    BY <1>4, ChildMeasured
  <2>2. CASE out' = <<>>
    BY <1>0, <1>4, <2>1, <2>2 DEF PathInv, PathsFit, Joinable
  <2>3. ASSUME NEW x, out' = Append(out, x), x.path = ChildPath
        PROVE  IsList(out') /\ \A i \in 1 .. Len(out') : StrLen(out'[i].path) < PATH_CAP
    <3>1. /\ IsList(Append(out, x)) /\ Len(out) \in Nat
          /\ Len(Append(out, x)) = Len(out) + 1 /\ Append(out, x)[Len(out) + 1] = x
          /\ \A i \in 1 .. Len(out) : i \in 1 .. Len(out) + 1 /\ Append(out, x)[i] = out[i]
          /\ \A i \in 1 .. Len(out) + 1 : i \in 1 .. Len(out) \/ i = Len(out) + 1
      BY ListGrows DEF PathInv
    <3> QED BY <2>1, <2>3, <3>1 DEF PathInv, PathsFit
  <2>5. \A path \in DOMAIN disk' : OUT_LEN + 1 + StrLen(path) < DISK_CAP
    BY <1>4, <2>1 DEF PathInv, PathsFit, Joinable
  <2> QED BY <1>4, <2>2, <2>3, <2>5 DEF PathInv, PathsFit
<1>5. \A path, x : DOMAIN Put(disk, path, x) = DOMAIN disk \cup {path}
  BY DEF Put
<1>6. \A d, s : ListEntry(ChildPath, d, s).path = ChildPath
  BY DEF ListEntry
<1>7. AtEntry /\ EntryAccepted => Measured(Advanced)
  BY ChildMeasured
<1>8. Measured(stack)
  BY DEF PathInv
<1>9. CASE Start
  <2>1. Measured(<<Frame(im.root.offset, im.root.size, <<>>, 0)>>)
    BY DEF Frame
  <2> HIDE DEF Measured
  <2> QED BY <1>0, <1>2, <1>3, <1>9, <2>1 DEF Start, Fail
<1>10. CASE RejectEntry \/ RejectRegular
  <2> HIDE DEF Measured
  <2> QED BY <1>0, <1>2, <1>10 DEF RejectEntry, RejectRegular, Fail
<1>11. CASE EnterDirectory
  <2> DEFINE sub == Frame(Child.offset, Child.size, ChildPath, ChildLen)
             x == ListEntry(ChildPath, Child.kind, Child.size)
  <2>1. /\ AtEntry /\ EntryAccepted /\ out' = Append(out, x)
        /\ stack' = Append(Advanced, sub)
        /\ \/ disk' = disk
           \/ Joinable(ChildLen) /\ disk' = Put(disk, ChildPath, Dir)
    BY <1>11 DEF EnterDirectory, DirectoryMade, Listed
  <2>2. sub.path = ChildPath /\ sub.plen = StrLen(ChildPath)
    BY <2>1, ChildMeasured DEF Frame
  <2>3. Advanced \in Seq(Frames)
    BY <2>1, AdvancedFrames
  <2>4. Measured(Append(Advanced, sub))
    <3> HIDE DEF sub
    <3>1. /\ Len(Append(Advanced, sub)) = Len(Advanced) + 1
          /\ \A i \in 1 .. Len(Advanced) : Append(Advanced, sub)[i] = Advanced[i]
          /\ Append(Advanced, sub)[Len(Advanced) + 1] = sub
          /\ Len(Advanced) \in Nat
      BY <2>3
    <3> QED BY <1>7, <2>1, <2>2, <3>1
  <2>5. x.path = ChildPath
    BY <1>6
  <2> HIDE DEF Measured, x, sub
  <2>6. \/ DOMAIN disk' \subseteq DOMAIN disk
        \/ DOMAIN disk' = DOMAIN disk \cup {ChildPath} /\ Joinable(ChildLen)
    BY <1>5, <2>1
  <2> QED BY <1>4, <2>1, <2>4, <2>5, <2>6
<1>12. CASE RejectDirectory
  <2>1. /\ AtEntry /\ EntryAccepted /\ out' = <<>> /\ stack' = <<>>
        /\ \/ disk' = disk
           \/ Joinable(ChildLen) /\ disk' = Put(disk, ChildPath, Dir)
    BY <1>12 DEF RejectDirectory, DirectoryMade, Fail
  <2> HIDE DEF Measured
  <2>3. \/ DOMAIN disk' \subseteq DOMAIN disk
        \/ DOMAIN disk' = DOMAIN disk \cup {ChildPath} /\ Joinable(ChildLen)
    BY <1>5, <2>1
  <2> QED BY <1>0, <1>4, <2>1, <2>3
<1>13. CASE VisitOther \/ VisitRegular
  <2> DEFINE x == ListEntry(ChildPath, Child.kind, Child.size)
  <2>1. /\ AtEntry /\ EntryAccepted /\ out' = Append(out, x) /\ stack' = Advanced
        /\ \/ disk' = disk
           \/ \E r : Joinable(ChildLen) /\ disk' = Put(disk, ChildPath, r)
    BY <1>13 DEF VisitOther, VisitRegular, Listed
  <2>2. x.path = ChildPath
    BY <1>6
  <2> HIDE DEF Measured, x
  <2>3. \/ DOMAIN disk' \subseteq DOMAIN disk
        \/ DOMAIN disk' = DOMAIN disk \cup {ChildPath} /\ Joinable(ChildLen)
    BY <1>5, <2>1
  <2> QED BY <1>4, <1>7, <2>1, <2>2, <2>3
<1>14. CASE LeaveDirectory
  <2>1. stack # <<>> /\ stack' = SubSeq(stack, 1, Len(stack) - 1)
        /\ out' = out /\ disk' = disk
    BY <1>14 DEF LeaveDirectory, Front
  <2>2. /\ Len(stack') = Len(stack) - 1
        /\ \A i \in 1 .. Len(stack) - 1 : stack'[i] = stack[i]
    BY <1>0, <2>1, PrefixOfSequence
  <2>3. Measured(stack')
    BY <1>0, <1>8, <2>2
  <2> HIDE DEF Measured
  <2> QED BY <1>3, <2>1, <2>3
<1>15. CASE WriteBlock
  <2>1. out' = out /\ stack' = stack /\ DOMAIN disk' = DOMAIN disk
    BY <1>15 DEF WriteBlock
  <2> QED BY <1>3, <1>8, <2>1
<1>16. CASE RejectBlock
  <2>1. out' = <<>> /\ stack' = <<>> /\ DOMAIN disk' \subseteq DOMAIN disk
    BY <1>16 DEF RejectBlock, Fail, Without
  <2> QED BY <1>0, <1>2, <2>1
<1>17. CASE CloseFile
  <2>1. out' = out /\ stack' = stack /\ DOMAIN disk' = DOMAIN disk
    BY <1>17 DEF CloseFile
  <2> QED BY <1>3, <1>8, <2>1
<1> QED
  BY <1>1, <1>9, <1>10, <1>11, <1>12, <1>13, <1>14, <1>15, <1>16, <1>17
  DEF Next, walk_directory, extract_regular_file

\* For every image: a path that is listed fits the buffer it was printed
\* into, and so does one that is created on disk; neither is ever cut.
THEOREM PathsFitHolds == Spec => []PathsFit
<1>1. Init => PathInv
  <2>1. IsList(<<>>)
    BY DEF IsList
  <2> QED BY <2>1 DEF Init, PathInv, PathsFit
<1>2. TypeOK /\ PathInv /\ [Next]_vars => PathInv'
  BY PathStep
<1>3. PathInv => PathsFit
  BY DEF PathInv
<1> QED BY <1>1, <1>2, <1>3, TypeCorrect, PTL DEF Spec

-----------------------------------------------------------------------------
(* The listing and the tree of the image.  Listing is recursive over the   *)
(* places of an image: that a function with its equation exists, and hence *)
(* that Listing satisfies it, follows by the least counterexample when     *)
(* every place is followed by places of a smaller rank only.               *)

\* What is listed from the place x on, if f lists the places behind it.
ListedFrom(places, f, x) ==
    places[x].items \o At(f, places[x].down) \o At(f, places[x].on)

\* Every place is followed by places of a smaller rank, and lists items of I.
Ranked(places, I, rank, R) ==
    \A x \in DOMAIN places :
        /\ rank[x] \in 0 .. R
        /\ places[x].items \in Seq(I)
        /\ \A y \in places[x].down \cup places[x].on :
             y \in DOMAIN places /\ rank[y] < rank[x]

\* f lists the places of a rank below r.
ListsBelow(places, rank, r, f) ==
    f = [x \in {x \in DOMAIN places : rank[x] < r} |-> ListedFrom(places, f, x)]

\* What is listed from a place on depends on the places behind it only.
LEMMA ListedAlike ==
    ASSUME NEW places, NEW x, NEW f, NEW g,
           \A y \in places[x].down \cup places[x].on : f[y] = g[y]
    PROVE  ListedFrom(places, f, x) = ListedFrom(places, g, x)
<1>1. ASSUME NEW S, S \subseteq places[x].down \cup places[x].on
      PROVE  At(f, S) = At(g, S)
  BY <1>1 DEF At
<1>2. At(f, places[x].down) = At(g, places[x].down)
  BY <1>1
<1>3. At(f, places[x].on) = At(g, places[x].on)
  BY <1>1
<1> QED BY <1>2, <1>3 DEF ListedFrom

\* There is such a function.
LEMMA ListsExist ==
    ASSUME NEW places, NEW I, NEW rank, NEW R \in Nat, Ranked(places, I, rank, R),
           NEW r \in Nat
    PROVE  \E f : ListsBelow(places, rank, r, f)
<1> DEFINE Below(k) == {x \in DOMAIN places : rank[x] < k}
           T == {k \in Nat : ~ \E f : ListsBelow(places, rank, k, f)}
<1>1. ASSUME T # {} PROVE FALSE
  <2>1. PICK k \in T : \A j \in T : k <= j
    <3>1. T \subseteq Nat
      OBVIOUS
    <3> HIDE DEF T
    <3> QED BY <1>1, <3>1, LeastNatural
  <2>2. k # 0
    <3> DEFINE none == [x \in {} |-> {}]
    <3>1. Below(0) = {}
      BY DEF Ranked
    <3>2. none = [x \in Below(0) |-> ListedFrom(places, none, x)]
      <4> HIDE DEF Below
      <4> QED BY <3>1
    <3>3. ListsBelow(places, rank, 0, none)
      BY <3>2 DEF ListsBelow
    <3> HIDE DEF none
    <3> QED BY <2>1, <3>3
  <2>3. k - 1 \in Nat /\ k - 1 \notin T
    BY <2>1, <2>2
  <2>4. PICK f : ListsBelow(places, rank, k - 1, f)
    BY <2>3
  <2> DEFINE g == [x \in Below(k) |-> ListedFrom(places, f, x)]
  <2>5. ASSUME NEW y \in Below(k - 1) PROVE y \in Below(k) /\ f[y] = g[y]
    <3>1. y \in Below(k)
      BY <2>3, <2>1 DEF Ranked
    <3>2. f[y] = ListedFrom(places, f, y)
      <4>1. f = [x \in Below(k - 1) |-> ListedFrom(places, f, x)]
        BY <2>4 DEF ListsBelow
      <4> HIDE DEF Below
      <4> QED BY <4>1, ZenonT(20)
    <3> HIDE DEF Below
    <3> QED BY <3>1, <3>2
  <2>6. ASSUME NEW x \in Below(k)
        PROVE  ListedFrom(places, f, x) = ListedFrom(places, g, x)
    <3>1. \A y \in places[x].down \cup places[x].on : y \in Below(k - 1)
      BY <2>1, <2>3 DEF Ranked
    <3> HIDE DEF Below, g
    <3>2. \A y \in places[x].down \cup places[x].on : f[y] = g[y]
      BY <2>5, <3>1
    <3> QED BY <3>2, ListedAlike
  <2>7. g = [x \in Below(k) |-> ListedFrom(places, g, x)]
    <3> HIDE DEF Below
    <3>1. \A x \in Below(k) : ListedFrom(places, f, x) = ListedFrom(places, g, x)
      BY <2>6
    <3> DEFINE h == g
    <3>2. \A x \in Below(k) : ListedFrom(places, f, x) = ListedFrom(places, h, x)
      BY <3>1
    <3> HIDE DEF h
    <3>3. [x \in Below(k) |-> ListedFrom(places, f, x)]
            = [x \in Below(k) |-> ListedFrom(places, h, x)]
      BY <3>2
    <3> QED BY <3>3 DEF h
  <2> HIDE DEF g
  <2>8. ListsBelow(places, rank, k, g)
    BY <2>7 DEF ListsBelow
  <2> QED BY <2>1, <2>8
<1> QED BY <1>1

\* Listing is one of them.
LEMMA ListingUnfolds ==
    ASSUME NEW places, NEW I, NEW rank, NEW R \in Nat, Ranked(places, I, rank, R),
           NEW x \in DOMAIN places
    PROVE  Listing(places)[x] = ListedFrom(places, Listing(places), x)
<1>1. R + 1 \in Nat
  OBVIOUS
<1>2. PICK f : ListsBelow(places, rank, R + 1, f)
  BY <1>1, ListsExist
<1>3. {z \in DOMAIN places : rank[z] < R + 1} = DOMAIN places
  <2>1. ASSUME NEW z \in DOMAIN places PROVE rank[z] < R + 1
    BY DEF Ranked
  <2> QED BY <2>1
<1>4. f = [z \in DOMAIN places |-> ListedFrom(places, f, z)]
  BY <1>2, <1>3 DEF ListsBelow
<1>5. Listing(places) = CHOOSE h : h = [z \in DOMAIN places |-> ListedFrom(places, h, z)]
  BY DEF Listing, ListedFrom
<1> DEFINE L == Listing(places)
<1>6. L = [z \in DOMAIN places |-> ListedFrom(places, L, z)]
  BY <1>4, <1>5
<1> HIDE DEF L
<1>7. L[x] = ListedFrom(places, L, x)
  BY <1>6, ZenonT(20)
<1> QED BY <1>7 DEF L

\* It lists items.
LEMMA ListingTyped ==
    ASSUME NEW places, NEW I, NEW rank, NEW R \in Nat, Ranked(places, I, rank, R)
    PROVE  \A x \in DOMAIN places : Listing(places)[x] \in Seq(I)
<1> DEFINE L == Listing(places)
           T == {rank[x] : x \in {x \in DOMAIN places : L[x] \notin Seq(I)}}
<1>1. ASSUME T # {} PROVE FALSE
  <2>1. PICK k \in T : \A j \in T : k <= j
    <3>1. T \subseteq Nat
      BY DEF Ranked
    <3> HIDE DEF T
    <3> QED BY <1>1, <3>1, LeastNatural
  <2>2. PICK x \in DOMAIN places : L[x] \notin Seq(I) /\ rank[x] = k
    BY <2>1
  <2>3. \A y \in places[x].down \cup places[x].on : L[y] \in Seq(I)
    <3> SUFFICES ASSUME NEW y \in places[x].down \cup places[x].on, L[y] \notin Seq(I)
                 PROVE  FALSE
      OBVIOUS
    <3>1. y \in DOMAIN places /\ rank[y] < rank[x] /\ rank[y] \in Nat /\ rank[x] \in Nat
      BY DEF Ranked
    <3>2. rank[y] \in T
      BY <3>1
    <3>3. k <= rank[y]
      <4> HIDE DEF T
      <4> QED BY <2>1, <3>2
    <3> HIDE DEF T, L
    <3> QED BY <2>2, <3>1, <3>3
  <2>4. L[x] = ListedFrom(places, L, x)
    BY ListingUnfolds
  <2>5. places[x].items \in Seq(I)
    BY DEF Ranked
  <2> HIDE DEF L, T
  <2>6. ASSUME NEW S, S \subseteq places[x].down \cup places[x].on
        PROVE  At(L, S) \in Seq(I)
    BY <2>3, <2>6 DEF At
  <2>7. At(L, places[x].down) \in Seq(I) /\ At(L, places[x].on) \in Seq(I)
    BY <2>6
  <2>8. ListedFrom(places, L, x) \in Seq(I)
    <3> DEFINE a == At(L, places[x].down)
               b == At(L, places[x].on)
               c == places[x].items
    <3>1. a \in Seq(I) /\ b \in Seq(I) /\ c \in Seq(I)
      BY <2>5, <2>7
    <3> HIDE DEF a, b, c
    <3>2. (c \o a) \o b \in Seq(I)
      BY <3>1
    <3> QED BY <3>2 DEF ListedFrom, a, b, c
  <2> QED BY <2>2, <2>4, <2>8
<1> QED BY <1>1

-----------------------------------------------------------------------------
(* What is left of the listing, frame by frame.                            *)

RegionOf(s, i) == Region(i - 1, s[i].pos, s[i].remaining, s[i].path)

\* f[i] is what the i outermost frames of s have still to list, if L is what
\* is listed from each place on.
Rests(L, I, s, f) ==
    /\ f[0] = <<>>
    /\ \A i \in 1 .. Len(s) :
         L[RegionOf(s, i)] \in Seq(I) /\ f[i] = L[RegionOf(s, i)] \o f[i - 1]
    /\ \A i \in 0 .. Len(s) : f[i] \in Seq(I)

\* A frame with nothing left to list is taken off.
LEMMA RestsPopped ==
    ASSUME NEW L, NEW I, NEW s, NEW u, NEW f, NEW n \in Nat, Len(s) = n + 1, Len(u) = n,
           \A i \in 1 .. n : u[i] = s[i],
           Rests(L, I, s, f), L[RegionOf(s, n + 1)] = <<>>
    PROVE  Rests(L, I, u, f) /\ f[n + 1] = f[n]
<1>1. \A i \in 1 .. n : i \in 1 .. n + 1 /\ RegionOf(u, i) = RegionOf(s, i)
  BY DEF RegionOf
<1>2. \A i \in 0 .. n : i \in 0 .. n + 1
  OBVIOUS
<1>3. Rests(L, I, u, f)
  BY <1>1, <1>2 DEF Rests
<1>4. n + 1 \in 1 .. n + 1 /\ (n + 1) - 1 = n /\ n \in 0 .. n + 1
  OBVIOUS
<1>5. f[n + 1] = <<>> \o f[n] /\ f[n] \in Seq(I)
  BY <1>4 DEF Rests
<1> DEFINE x == f[n]
<1>6. x \in Seq(I)
  BY <1>5
<1> HIDE DEF x
<1>7. <<>> \o x = x
  BY <1>6
<1> QED BY <1>3, <1>5, <1>7 DEF x

\* The innermost frame has listed c, and is now elsewhere.
Moved(L, I, s, u, n, c) ==
    /\ n \in Nat \ {0} /\ Len(s) = n /\ Len(u) = n
    /\ \A i \in 1 .. n - 1 : u[i] = s[i]
    /\ c \in Seq(I) /\ L[RegionOf(u, n)] \in Seq(I)
    /\ L[RegionOf(s, n)] = c \o L[RegionOf(u, n)]

\* The deepest frame moves on, and c is listed on the way.
LEMMA RestsMoved ==
    ASSUME NEW L, NEW I, NEW s, NEW u, NEW f, NEW n, NEW c,
           Moved(L, I, s, u, n, c), Rests(L, I, s, f)
    PROVE  \E g : Rests(L, I, u, g) /\ f[n] = c \o g[n]
<1> USE DEF Moved
<1> DEFINE here == L[RegionOf(u, n)]
           g == [i \in 0 .. n |-> IF i = n THEN here \o f[n - 1] ELSE f[i]]
           x == f[n - 1]
<1>1. /\ n \in 1 .. n /\ n \in 0 .. n /\ n - 1 \in 0 .. n /\ n - 1 # n /\ 0 \in 0 .. n /\ 0 # n
      /\ \A i \in 1 .. n : i \in 0 .. n /\ (i # n => i \in 1 .. n - 1 /\ i - 1 \in 0 .. n /\ i - 1 # n)
  OBVIOUS
<1>2. x \in Seq(I) /\ here \in Seq(I) /\ f[n] = (c \o here) \o x
  BY <1>1 DEF Rests
<1>3. g[n] = here \o x /\ (\A i \in 0 .. n : i # n => g[i] = f[i])
  BY <1>1
<1> HIDE DEF here, g, x
<1>4. here \o x \in Seq(I)
  BY <1>2, ConcatProperties
<1>5. (c \o here) \o x = c \o (here \o x)
  BY ONLY <1>2, c \in Seq(I), ConcatAssociative
<1>6. f[n] = c \o g[n]
  BY <1>2, <1>3, <1>5
<1>7. \A i \in 0 .. n : g[i] \in Seq(I)
  BY <1>1, <1>3, <1>4 DEF Rests
<1>8. g[0] = <<>>
  BY <1>1, <1>3 DEF Rests
<1>9. ASSUME NEW i \in 1 .. n
      PROVE  L[RegionOf(u, i)] \in Seq(I) /\ g[i] = L[RegionOf(u, i)] \o g[i - 1]
  <2>1. CASE i = n
    <3>1. g[n - 1] = x
      BY <1>1, <1>3 DEF x
    <3> QED BY <1>2, <1>3, <2>1, <3>1 DEF here
  <2>2. CASE i # n
    <3>1. RegionOf(u, i) = RegionOf(s, i)
      BY <1>1, <2>2 DEF RegionOf
    <3>2. g[i] = f[i] /\ g[i - 1] = f[i - 1]
      BY <1>1, <1>3, <2>2
    <3> QED BY <3>1, <3>2 DEF Rests
  <2> QED BY <2>1, <2>2
<1>10. Rests(L, I, u, g)
  BY <1>7, <1>8, <1>9 DEF Rests
<1> QED BY <1>6, <1>10

\* One more frame.
Pushed(L, I, s, u, n, m) ==
    /\ n \in Nat /\ m = n + 1 /\ Len(s) = n /\ Len(u) = m
    /\ \A i \in 1 .. n : u[i] = s[i]
    /\ L[RegionOf(u, m)] \in Seq(I)

PushedTo(L, I, u, f, n, m) ==
    \E g : Rests(L, I, u, g) /\ g[m] = L[RegionOf(u, m)] \o f[n]

\* A frame is put on the others, with its own listing ahead of it.
LEMMA RestsPushed ==
    ASSUME NEW L, NEW I, NEW s, NEW u, NEW f, NEW n, NEW m,
           Pushed(L, I, s, u, n, m), Rests(L, I, s, f)
    PROVE  PushedTo(L, I, u, f, n, m)
<1> USE DEF Pushed
<1> DEFINE here == L[RegionOf(u, m)]
           g == [i \in 0 .. m |-> IF i = m THEN here \o f[n] ELSE f[i]]
           x == f[n]
<1>1. /\ n \in 0 .. n /\ m \in 0 .. m /\ 0 \in 0 .. m /\ 0 # m
      /\ n \in 0 .. m /\ n # m
      /\ \A i \in 1 .. m : i # m => i \in 1 .. n /\ i \in 0 .. m
                                            /\ i - 1 \in 0 .. m /\ i - 1 # m
      /\ \A i \in 0 .. m : i # m => i \in 0 .. n
      /\ m - 1 = n
  OBVIOUS
<1>2. x \in Seq(I) /\ here \in Seq(I)
  BY <1>1 DEF Rests
<1>3. g[m] = here \o x /\ (\A i \in 0 .. m : i # m => g[i] = f[i])
  BY <1>1
<1> HIDE DEF here, g, x
<1>4. here \o x \in Seq(I)
  BY <1>2, ConcatProperties
<1>7. \A i \in 0 .. m : g[i] \in Seq(I)
  BY <1>1, <1>3, <1>4 DEF Rests
<1>8. g[0] = <<>>
  BY <1>1, <1>3 DEF Rests
<1>9. ASSUME NEW i \in 1 .. m
      PROVE  L[RegionOf(u, i)] \in Seq(I) /\ g[i] = L[RegionOf(u, i)] \o g[i - 1]
  <2>1. CASE i = m
    <3>1. g[n] = x
      BY <1>1, <1>3 DEF x
    <3> QED BY <1>1, <1>2, <1>3, <2>1, <3>1 DEF here
  <2>2. CASE i # m
    <3>1. RegionOf(u, i) = RegionOf(s, i)
      BY <1>1, <2>2 DEF RegionOf
    <3>2. g[i] = f[i] /\ g[i - 1] = f[i - 1]
      BY <1>1, <1>3, <2>2
    <3> QED BY <1>1, <2>2, <3>1, <3>2 DEF Rests
  <2> QED BY <2>1, <2>2
<1>10. Rests(L, I, u, g)
  BY <1>7, <1>8, <1>9 DEF Rests
<1> QED BY <1>3, <1>10 DEF here, x, PushedTo

\* Sequences of items.
LEMMA AppendThen ==
    ASSUME NEW I, NEW o \in Seq(I), NEW e \in I, NEW x \in Seq(I)
    PROVE  Append(o, e) \o x = o \o (<<e>> \o x)
<1>1. <<e>> \in Seq(I)
  OBVIOUS
<1>2. (o \o <<e>>) \o x = o \o (<<e>> \o x)
  BY <1>1, ConcatAssociative
<1>3. Append(o, e) = o \o <<e>>
  BY AppendIsConcat
<1> QED BY <1>2, <1>3

\* The elements of a concatenation.
LEMMA InConcat ==
    ASSUME NEW I, NEW a \in Seq(I), NEW b \in Seq(I), NEW x
    PROVE  x \in Range(a \o b) <=> x \in Range(a) \/ x \in Range(b)
<1>1. /\ Len(a) \in Nat /\ Len(b) \in Nat /\ Len(a \o b) = Len(a) + Len(b)
      /\ DOMAIN a = 1 .. Len(a) /\ DOMAIN b = 1 .. Len(b)
      /\ DOMAIN (a \o b) = 1 .. Len(a) + Len(b)
      /\ \A i \in 1 .. Len(a) + Len(b) : (a \o b)[i] = IF i <= Len(a) THEN a[i] ELSE b[i - Len(a)]
  OBVIOUS
<1> DEFINE c == a \o b
           m == Len(a)
           n == Len(b)
<1> HIDE DEF c, m, n
<1>2. /\ m \in Nat /\ n \in Nat /\ DOMAIN a = 1 .. m /\ DOMAIN b = 1 .. n /\ DOMAIN c = 1 .. m + n
      /\ \A i \in 1 .. m + n : c[i] = IF i <= m THEN a[i] ELSE b[i - m]
  BY <1>1 DEF c, m, n
<1>3. ASSUME NEW i \in 1 .. m + n PROVE c[i] \in Range(a) \cup Range(b)
  <2>1. CASE i <= m
    BY <1>2, <2>1 DEF Range
  <2>2. CASE ~ (i <= m)
    <3>1. i - m \in 1 .. n
      BY <1>2, <2>2
    <3> QED BY <1>2, <2>2, <3>1 DEF Range
  <2> QED BY <2>1, <2>2
<1>4. ASSUME NEW i \in 1 .. m PROVE a[i] \in Range(c)
  <2>1. i \in 1 .. m + n /\ i <= m
    BY <1>2
  <2> QED BY <1>2, <2>1 DEF Range
<1>5. ASSUME NEW i \in 1 .. n PROVE b[i] \in Range(c)
  <2>1. m + i \in 1 .. m + n /\ ~ (m + i <= m) /\ (m + i) - m = i
    BY <1>2
  <2>2. c[m + i] = b[i]
    BY <1>2, <2>1
  <2> QED BY <1>2, <2>1, <2>2 DEF Range
<1> QED BY <1>2, <1>3, <1>4, <1>5 DEF Range, c

-----------------------------------------------------------------------------
(* The places of an image.                                                 *)

Items  == [path : Seq(Names), kind : {"dir", "reg", "other"}, size : Int]
ListEntries == {x \in Items : x.size \in Nat}
Places == [r \in Regions |-> Place(r)]

\* A directory counts for more than all its bytes at the next depth.
Ranks    == [r \in Regions |-> (MAX_DIR_DEPTH - r.depth) * (im.size + 1) + r.remaining]
MaxRank  == (MAX_DIR_DEPTH + 1) * (im.size + 1)

\* A step within a directory, or one level down, lowers the rank.
LEMMA RanksFall ==
    ASSUME NEW K \in Nat, NEW M \in Nat, NEW d \in 0 .. K, NEW s \in 0 .. M
    PROVE  /\ (K - d) * (M + 1) + s \in 0 .. (K + 1) * (M + 1)
           /\ d # K => \A t \in 0 .. M :
                (K - (d + 1)) * (M + 1) + t < (K - d) * (M + 1) + s
<1> DEFINE a == K - d
<1>1. a \in Nat /\ a <= K
  OBVIOUS
<1> HIDE DEF a
<1>2. a * (M + 1) + s \in 0 .. (K + 1) * (M + 1)
  <2>1. (a + 1) * (M + 1) = a * (M + 1) + (M + 1) /\ a * (M + 1) \in Nat
    BY <1>1
  <2> DEFINE b == a + 1
             k == K + 1
  <2>2. b \in Nat /\ k \in Nat /\ b <= k
    BY <1>1
  <2> HIDE DEF b, k
  <2>3. b * (M + 1) <= k * (M + 1) /\ k * (M + 1) \in Nat
    BY <2>2
  <2>4. a * (M + 1) + s <= k * (M + 1)
    BY <2>1, <2>3 DEF b
  <2> QED BY <2>1, <2>3, <2>4 DEF k
<1>3. ASSUME d # K, NEW t \in 0 .. M
      PROVE  (K - (d + 1)) * (M + 1) + t < a * (M + 1) + s
  <2> DEFINE e == K - (d + 1)
  <2>1. e \in Nat /\ a = e + 1
    BY <1>3 DEF a
  <2> HIDE DEF e
  <2>2. (e + 1) * (M + 1) = e * (M + 1) + (M + 1) /\ e * (M + 1) \in Nat
    BY <2>1
  <2> DEFINE p == e * (M + 1)
  <2>3. a * (M + 1) = p + (M + 1) /\ p \in Nat
    BY <2>1, <2>2
  <2> HIDE DEF p
  <2>4. p + t < (p + (M + 1)) + s
    BY <2>3
  <2> QED BY <2>3, <2>4 DEF p, e
<1> QED BY <1>2, <1>3 DEF a

\* Every place is followed by places of a smaller rank, a directory that
\* contains itself included.
LEMMA PlacesRanked ==
    ASSUME im \in Images
    PROVE  /\ Ranked(Places, Items, Ranks, MaxRank) /\ MaxRank \in Nat
           /\ DOMAIN Places = Regions
<1>1. ImageOK(im) /\ im.size \in Nat /\ im.len \in Nat /\ MAX_DIR_DEPTH \in Nat
  BY CramfsAssumption, FsTreeAssumption DEF ImageOK
<1>2. MaxRank \in Nat
  <2> DEFINE a == MAX_DIR_DEPTH + 1
             b == im.size + 1
  <2>1. a \in Nat /\ b \in Nat
    BY <1>1
  <2> HIDE DEF a, b
  <2>2. a * b \in Nat
    BY <2>1
  <2> QED BY <2>2 DEF MaxRank, a, b
<1>3. DOMAIN Places = Regions
  BY DEF Places
<1>4. ASSUME NEW r \in Regions
      PROVE  /\ Ranks[r] \in 0 .. MaxRank
             /\ Places[r].items \in Seq(Items)
             /\ \A y \in Places[r].down \cup Places[r].on : y \in Regions /\ Ranks[y] < Ranks[r]
  <2>1. /\ r.depth \in 0 .. MAX_DIR_DEPTH /\ r.remaining \in 0 .. im.size
        /\ r.pos \in Nat /\ r.path \in Seq(Names)
    BY DEF Regions
  <2>2. Ranks[r] = (MAX_DIR_DEPTH - r.depth) * (im.size + 1) + r.remaining
    BY DEF Ranks
  <2>3. Ranks[r] \in 0 .. MaxRank
    BY <1>1, <2>1, <2>2, RanksFall DEF MaxRank
  <2> DEFINE e    == Entry(r.pos)
             step == INODE_SIZE + e.namelen
             path == Append(r.path, e.name)
             entry == [path |-> path, kind |-> e.kind,
                       size |-> IF e.kind = "dir" THEN 0 ELSE e.size]
             broken == \/ e.namelen = 0 \/ e.name = Unsafe
                       \/ step > r.remaining \/ r.pos + step > im.len
                       \/ StrLen(path) >= PATH_CAP
             inside == r.depth < MAX_DIR_DEPTH /\ e.offset + e.size <= im.size
             sub    == Region(r.depth + 1, e.offset, e.size, path)
             next   == Region(r.depth, r.pos + step, r.remaining - step, r.path)
  <2>4. /\ Places[r] = Place(r)
        /\ r.remaining = 0 => Place(r) = [items |-> <<>>, down |-> {}, on |-> {}]
        /\ r.remaining # 0 /\ broken => Place(r) = [items |-> <<Broken>>, down |-> {}, on |-> {}]
        /\ r.remaining # 0 /\ ~broken =>
             Place(r) = [items |-> IF e.kind = "dir" /\ ~inside THEN <<entry, Broken>> ELSE <<entry>>,
                         down  |-> IF e.kind = "dir" /\ inside THEN {sub} ELSE {},
                         on    |-> {next}]
    BY DEF Places, Place
  <2>5. EntryOK(e) /\ e.namelen \in Nat /\ e.offset \in Nat /\ e.size \in Nat
    BY <1>1 DEF ImageOK, EntryOK, Entry, Zero
  <2>6. Broken \in Items
    BY DEF Broken, Items
  <2>7. ASSUME r.remaining # 0, ~broken
        PROVE  /\ entry \in Items
               /\ next \in Regions /\ Ranks[next] < Ranks[r]
               /\ inside => sub \in Regions /\ Ranks[sub] < Ranks[r]
    <3>1. e.name \in Names /\ e.namelen # 0 /\ ~ (step > r.remaining)
      BY <2>5, <2>7 DEF EntryOK
    <3>2. path \in Seq(Names)
      BY <2>1, <3>1
    <3>3. entry \in Items
      <4>1. e.kind \in {"dir", "reg", "other"} /\ (IF e.kind = "dir" THEN 0 ELSE e.size) \in Int
        BY <2>5 DEF EntryOK
      <4> HIDE DEF path, e
      <4> QED BY <3>2, <4>1 DEF Items
    <3>4. step \in Nat \ {0} /\ r.remaining - step \in 0 .. im.size /\ r.pos + step \in Nat
          /\ r.remaining - step < r.remaining
      <4>1. step = 12 + e.namelen
        BY DEF INODE_SIZE
      <4> DEFINE l == r.remaining
                 k == e.namelen
                 m == step
      <4>2. k \in Nat /\ l \in 0 .. im.size /\ m = 12 + k /\ ~ (m > l)
        BY <2>1, <2>5, <3>1, <4>1
      <4> HIDE DEF k, l, m
      <4>3. m \in Nat \ {0} /\ l - m \in 0 .. im.size /\ l - m < l
        BY <1>1, <4>2
      <4>4. r.pos + m \in Nat
        BY <2>1, <4>3
      <4> QED BY <4>3, <4>4 DEF l, m
    <3> HIDE DEF step, path, e
    <3>5. next \in Regions
      BY <2>1, <3>4 DEF Regions, Region
    <3>6. Ranks[next] = (MAX_DIR_DEPTH - r.depth) * (im.size + 1) + (r.remaining - step)
      <4>1. next.depth = r.depth /\ next.remaining = r.remaining - step
        BY DEF Region
      <4> HIDE DEF next
      <4> QED BY <3>5, <4>1 DEF Ranks
    <3>7. Ranks[next] < Ranks[r]
      <4> DEFINE w == (MAX_DIR_DEPTH - r.depth) * (im.size + 1)
      <4>1. w \in Int
        BY <1>1, <2>1
      <4>2. Ranks[r] = w + r.remaining /\ Ranks[next] = w + (r.remaining - step)
        BY <2>2, <3>6
      <4> HIDE DEF w, next
      <4>3. r.remaining \in Int /\ step \in Int
        BY <2>1, <3>4
      <4> QED BY <3>4, <4>1, <4>2, <4>3
    <3>8. ASSUME inside PROVE sub \in Regions /\ Ranks[sub] < Ranks[r]
      <4>1. e.size \in 0 .. im.size /\ r.depth + 1 \in 0 .. MAX_DIR_DEPTH /\ r.depth # MAX_DIR_DEPTH
        BY <1>1, <2>1, <2>5, <3>8
      <4>2. sub \in Regions
        BY <2>5, <3>2, <4>1 DEF Regions, Region
      <4>3. Ranks[sub] = (MAX_DIR_DEPTH - (r.depth + 1)) * (im.size + 1) + e.size
        <5>1. sub.depth = r.depth + 1 /\ sub.remaining = e.size
          BY DEF Region
        <5> HIDE DEF sub
        <5> QED BY <4>2, <5>1 DEF Ranks
      <4>4. \A t \in 0 .. im.size :
              (MAX_DIR_DEPTH - (r.depth + 1)) * (im.size + 1) + t
                < (MAX_DIR_DEPTH - r.depth) * (im.size + 1) + r.remaining
        BY <1>1, <2>1, <4>1, RanksFall
      <4> HIDE DEF sub, next
      <4> QED BY <2>2, <4>1, <4>2, <4>3, <4>4
    <3> QED BY <3>3, <3>5, <3>7, <3>8
  <2> HIDE DEF e, step, path, entry, broken, inside, sub, next
  <2>8. Places[r].items \in Seq(Items)
    <3>1. <<>> \in Seq(Items) /\ <<Broken>> \in Seq(Items)
      BY <2>6
    <3>2. r.remaining # 0 /\ ~broken => <<entry>> \in Seq(Items) /\ <<entry, Broken>> \in Seq(Items)
      BY <2>6, <2>7
    <3>3. CASE r.remaining = 0 \/ broken
      <4>1. Places[r].items = <<>> \/ Places[r].items = <<Broken>>
        BY <2>4, <3>3
      <4> QED BY <3>1, <4>1
    <3>4. CASE r.remaining # 0 /\ ~broken
      <4>1. Places[r].items = IF e.kind = "dir" /\ ~inside THEN <<entry, Broken>> ELSE <<entry>>
        BY <2>4, <3>4
      <4> QED BY <3>2, <3>4, <4>1
    <3> QED BY <3>3, <3>4
  <2>9. \A y \in Places[r].down \cup Places[r].on : y \in Regions /\ Ranks[y] < Ranks[r]
    BY <2>4, <2>7
  <2> QED BY <2>3, <2>8, <2>9
<1>5. ASSUME NEW r \in DOMAIN Places
      PROVE  /\ Ranks[r] \in 0 .. MaxRank
             /\ Places[r].items \in Seq(Items)
             /\ \A y \in Places[r].down \cup Places[r].on : y \in DOMAIN Places /\ Ranks[y] < Ranks[r]
  BY <1>3, <1>4
<1>6. Ranked(Places, Items, Ranks, MaxRank)
  BY <1>5 DEF Ranked
<1> QED BY <1>2, <1>3, <1>6

\* What is listed from a region on.
LEMMA PreorderUnfolds ==
    ASSUME im \in Images, NEW r \in Regions
    PROVE  /\ Preorder[r] \in Seq(Items)
           /\ Preorder[r] = ListedFrom(Places, Preorder, r)
<1>1. Preorder = Listing(Places)
  BY DEF Preorder, Places
<1>2. Ranked(Places, Items, Ranks, MaxRank) /\ MaxRank \in Nat /\ r \in DOMAIN Places
  BY PlacesRanked
<1>3. Listing(Places)[r] \in Seq(Items)
  BY <1>2, ListingTyped
<1>4. Listing(Places)[r] = ListedFrom(Places, Listing(Places), r)
  BY <1>2, ListingUnfolds
<1> QED BY <1>1, <1>3, <1>4

-----------------------------------------------------------------------------
(* The walk and the listing.                                               *)

Here == Region(Len(stack) - 1, Top.pos, Top.remaining, Top.path)
NextPlace == Region(Len(stack) - 1, Top.pos + (INODE_SIZE + Child.namelen),
                Top.remaining - (INODE_SIZE + Child.namelen), Top.path)
SubPlace == Region(Len(stack), Child.offset, Child.size, ChildPath)
Item  == ListEntry(ChildPath, Child.kind, Child.size)

\* What is listed from the entry on at which the walk is.
LEMMA ListedHere ==
    ASSUME TypeOK, PathInv, WalkInBounds, StackBounded, pc = "walk", stack # <<>>
    PROVE  /\ Here \in Regions /\ Preorder[Here] \in Seq(Items)
           /\ Top.remaining = 0 => Preorder[Here] = <<>>
           /\ AtEntry /\ ~EntryAccepted => Broken \in Range(Preorder[Here])
           /\ AtEntry /\ EntryAccepted =>
                /\ Item \in ListEntries /\ NextPlace \in Regions /\ Preorder[NextPlace] \in Seq(Items)
                /\ Child.kind # "dir" => Preorder[Here] = <<Item>> \o Preorder[NextPlace]
                /\ Child.kind = "dir" /\ Enterable(Child.offset, Child.size, Len(stack)) =>
                     /\ SubPlace \in Regions /\ Preorder[SubPlace] \in Seq(Items)
                     /\ Preorder[Here] = (<<Item>> \o Preorder[SubPlace]) \o Preorder[NextPlace]
                /\ Child.kind = "dir" /\ ~Enterable(Child.offset, Child.size, Len(stack)) =>
                     Broken \in Range(Preorder[Here])
<1> DEFINE n == Len(stack)
           step == INODE_SIZE + Child.namelen
<1>1. /\ n \in Nat \ {0} /\ n \in 1 .. n /\ stack[n] \in Frames /\ Top = stack[n] /\ im \in Images
  BY DEF TypeOK, Top
<1>2. /\ Top.pos \in Nat /\ Top.remaining \in Nat /\ Top.path \in Seq(Names)
      /\ Top.pos + Top.remaining <= im.size
      /\ n - 1 \in 0 .. MAX_DIR_DEPTH /\ (n <= MAX_DIR_DEPTH <=> n - 1 < MAX_DIR_DEPTH)
  BY <1>1, FsTreeAssumption DEF WalkInBounds, StackBounded, Frames
<1>3. im.size \in Nat /\ im.len \in Nat /\ EntryOK(Child)
  BY <1>1, CramfsAssumption, ChildTyped DEF ImageOK
<1>4. Here \in Regions
  BY <1>2, <1>3 DEF Here, Region, Regions
<1>5. Preorder[Here] \in Seq(Items) /\ Preorder[Here] = ListedFrom(Places, Preorder, Here)
  BY <1>1, <1>4, PreorderUnfolds
<1>6. Places[Here] = Place(Here)
  BY <1>4 DEF Places
<1>7. /\ Here.pos = Top.pos /\ Here.remaining = Top.remaining /\ Here.path = Top.path
      /\ Here.depth = n - 1
  BY DEF Here, Region
<1> DEFINE p == Places[Here]
<1>8. Preorder[Here] = (p.items \o At(Preorder, p.down)) \o At(Preorder, p.on)
  BY <1>5 DEF ListedFrom
<1>9. \A f : At(f, {}) = <<>> /\ \A y : At(f, {y}) = f[y]
  BY DEF At
<1> DEFINE broken == \/ Child.namelen = 0 \/ Child.name = Unsafe
                     \/ step > Top.remaining \/ Top.pos + step > im.len
                     \/ StrLen(ChildPath) >= PATH_CAP
           inside == n <= MAX_DIR_DEPTH /\ Child.offset + Child.size <= im.size
<1>10. Item = [path |-> ChildPath, kind |-> Child.kind,
               size |-> IF Child.kind = "dir" THEN 0 ELSE Child.size]
  BY DEF Item, ListEntry
<1>11. /\ Top.remaining = 0 => p = [items |-> <<>>, down |-> {}, on |-> {}]
       /\ Top.remaining # 0 /\ broken => p = [items |-> <<Broken>>, down |-> {}, on |-> {}]
       /\ Top.remaining # 0 /\ ~broken =>
            p = [items |-> IF Child.kind = "dir" /\ ~inside THEN <<Item, Broken>> ELSE <<Item>>,
                 down  |-> IF Child.kind = "dir" /\ inside THEN {SubPlace} ELSE {},
                 on    |-> {NextPlace}]
  <2> DEFINE r == Here
  <2>1. n - 1 + 1 = n
    BY <1>1
  <2>2. r.pos = Top.pos /\ r.remaining = Top.remaining /\ r.path = Top.path /\ r.depth = n - 1
    BY <1>7
  <2>3. p = Place(r)
    BY <1>6
  <2> HIDE DEF r, p
  <2>4. Entry(r.pos) = Child
    BY <2>2 DEF Child
  <2>5. Append(r.path, Child.name) = ChildPath
    BY <2>2 DEF ChildPath
  <2>6. /\ Region(r.depth, r.pos + step, r.remaining - step, r.path) = NextPlace
        /\ Region(r.depth + 1, Child.offset, Child.size, ChildPath) = SubPlace
    BY <2>1, <2>2 DEF NextPlace, SubPlace
  <2>7. inside <=> r.depth < MAX_DIR_DEPTH /\ Child.offset + Child.size <= im.size
    BY <1>2, <2>2
  <2>8. broken <=> \/ Child.namelen = 0 \/ Child.name = Unsafe
                   \/ step > r.remaining \/ r.pos + step > im.len
                   \/ StrLen(ChildPath) >= PATH_CAP
    BY <2>2
  <2> HIDE DEF inside, broken, step
  <2>9. p = IF r.remaining = 0 THEN [items |-> <<>>, down |-> {}, on |-> {}]
            ELSE IF broken THEN [items |-> <<Broken>>, down |-> {}, on |-> {}]
            ELSE [items |-> IF Child.kind = "dir" /\ ~inside THEN <<Item, Broken>> ELSE <<Item>>,
                  down  |-> IF Child.kind = "dir" /\ inside THEN {SubPlace} ELSE {},
                  on    |-> {NextPlace}]
    BY <1>10, <2>3, <2>4, <2>5, <2>6, <2>7, <2>8 DEF Place, step
  <2> QED BY <2>2, <2>9
<1>12. AtEntry => (EntryAccepted <=> ~broken)
  <2> SUFFICES ASSUME AtEntry PROVE EntryAccepted <=> ~broken
    OBVIOUS
  <2>1. Child.namelen \in Nat
    BY <1>3 DEF EntryOK
  <2>2. Child.name # Unsafe => ChildLen = StrLen(ChildPath) /\ ChildLen \in Int
    <3> SUFFICES ASSUME Child.name # Unsafe PROVE ChildLen = StrLen(ChildPath) /\ ChildLen \in Int
      OBVIOUS
    <3>1. Child.name \in Names
      BY <1>3 DEF EntryOK
    <3>2. Top.path = <<>> \/ Top.plen = StrLen(Top.path)
      BY <1>1 DEF PathInv
    <3>3. ChildLen = StrLen(ChildPath)
      BY <1>2, <3>1, <3>2, JoinedLenIsStrLen DEF ChildLen, ChildPath
    <3>4. /\ StrLen(Append(Top.path, Child.name)) = StrLen(Top.path) + 1 + NameLen[Child.name]
          /\ StrLen(Top.path) \in Int /\ NameLen[Child.name] \in Nat
      BY <1>2, <3>1, StrLenGrows, FsTreeAssumption
    <3>5. StrLen(ChildPath) \in Int
      BY <3>4 DEF ChildPath
    <3> QED BY <3>3, <3>5
  <2>3. PATH_CAP \in Nat
    BY FsTreeAssumption
  <2> DEFINE k == Child.namelen
             l == Top.remaining
             x == Top.pos
             fits == Child.name # Unsafe /\ ChildLen < PATH_CAP
  <2>4. k \in Nat /\ l \in Nat /\ x \in Nat
    BY <1>2, <2>1
  <2>5. broken <=> k = 0 \/ 12 + k > l \/ x + (12 + k) > im.len \/ ~fits
    BY <2>2, <2>3 DEF INODE_SIZE
  <2>6. EntryAccepted <=> /\ l >= 12 /\ x + 12 <= im.len /\ k # 0 /\ k <= l - 12
                          /\ x + 12 + k <= im.len /\ fits
    BY DEF EntryAccepted, INODE_SIZE
  <2> HIDE DEF k, l, x, fits, broken
  <2> QED BY <1>3, <2>4, <2>5, <2>6
<1>13. Child.offset \in Nat /\ Child.size \in Nat /\ MAX_DIR_DEPTH \in Nat
  BY <1>3, FsTreeAssumption DEF EntryOK
<1>14. Enterable(Child.offset, Child.size, n) <=> inside
  BY <1>1, <1>3, <1>13 DEF Enterable
<1>15. Broken \in Items /\ Broken \in Range(<<Broken>>) /\ <<Broken>> \in Seq(Items)
       /\ <<>> \in Seq(Items)
  <2>1. 1 \in DOMAIN <<Broken>> /\ <<Broken>>[1] = Broken
    OBVIOUS
  <2>2. Broken \in Items
    BY DEF Broken, Items
  <2> QED BY <2>1, <2>2 DEF Range
<1>16. AtEntry => Top.remaining # 0
  BY <1>2 DEF AtEntry
<1>17. \A x \in Seq(Items) : x \o <<>> = x /\ <<>> \o x = x
  OBVIOUS
<1>18. Top.remaining = 0 => Preorder[Here] = <<>>
  <2> SUFFICES ASSUME Top.remaining = 0 PROVE Preorder[Here] = <<>>
    OBVIOUS
  <2>1. p.items = <<>> /\ p.down = {} /\ p.on = {}
    BY <1>11
  <2> HIDE DEF p
  <2> QED BY <1>8, <1>9, <1>15, <1>17, <2>1
<1>19. ASSUME AtEntry, ~EntryAccepted PROVE Broken \in Range(Preorder[Here])
  <2>1. p.items = <<Broken>> /\ p.down = {} /\ p.on = {}
    BY <1>11, <1>12, <1>16, <1>19
  <2> HIDE DEF p
  <2> DEFINE b == <<Broken>>
  <2>2. Preorder[Here] = (b \o <<>>) \o <<>>
    BY <1>8, <1>9, <2>1
  <2>3. b \in Seq(Items)
    BY <1>15
  <2> HIDE DEF b
  <2>4. Preorder[Here] = b
    BY <1>17, <2>2, <2>3
  <2> USE DEF b
  <2> QED BY <1>15, <2>4
<1>20. ASSUME AtEntry, EntryAccepted
       PROVE  /\ Item \in ListEntries /\ NextPlace \in Regions /\ Preorder[NextPlace] \in Seq(Items)
              /\ Child.kind # "dir" => Preorder[Here] = <<Item>> \o Preorder[NextPlace]
              /\ Child.kind = "dir" /\ inside =>
                   /\ SubPlace \in Regions /\ Preorder[SubPlace] \in Seq(Items)
                   /\ Preorder[Here] = (<<Item>> \o Preorder[SubPlace]) \o Preorder[NextPlace]
              /\ Child.kind = "dir" /\ ~inside => Broken \in Range(Preorder[Here])
  <2>1. ChildPath \in Seq(Names)
    BY <1>1, <1>20, AdvancedFrames
  <2>2. Item \in ListEntries /\ Item \in Items /\ <<Item>> \in Seq(Items)
    <3>1. Item \in Items /\ Item.size \in Nat
      BY <1>10, <1>13, <2>1, ChildTyped DEF Items, EntryOK
    <3> QED BY <3>1 DEF ListEntries
  <2>3. /\ p.items = IF Child.kind = "dir" /\ ~inside THEN <<Item, Broken>> ELSE <<Item>>
        /\ p.down  = IF Child.kind = "dir" /\ inside THEN {SubPlace} ELSE {}
        /\ p.on    = {NextPlace}
    <3> HIDE DEF broken, inside
    <3>1. Top.remaining # 0 /\ ~broken
      BY <1>12, <1>16, <1>20
    <3>2. p = [items |-> IF Child.kind = "dir" /\ ~inside THEN <<Item, Broken>> ELSE <<Item>>,
               down  |-> IF Child.kind = "dir" /\ inside THEN {SubPlace} ELSE {},
               on    |-> {NextPlace}]
      BY <1>11, <3>1
    <3> HIDE DEF p
    <3> QED BY <3>2
  <2>4. Ranked(Places, Items, Ranks, MaxRank) /\ DOMAIN Places = Regions
    BY <1>1, PlacesRanked
  <2>5. \A y \in p.down \cup p.on : y \in Regions
    BY <1>4, <2>4 DEF Ranked
  <2> HIDE DEF p, inside
  <2>6. NextPlace \in Regions /\ Preorder[NextPlace] \in Seq(Items)
    BY <1>1, <2>3, <2>5, PreorderUnfolds
  <2>7. At(Preorder, p.on) = Preorder[NextPlace]
    BY <1>9, <2>3
  <2>8. ASSUME Child.kind # "dir" PROVE Preorder[Here] = <<Item>> \o Preorder[NextPlace]
    <3>1. p.items = <<Item>> /\ At(Preorder, p.down) = <<>>
      BY <1>9, <2>3, <2>8
    <3> QED BY <1>8, <1>17, <2>2, <2>7, <3>1
  <2>9. ASSUME Child.kind = "dir", inside
        PROVE  /\ SubPlace \in Regions /\ Preorder[SubPlace] \in Seq(Items)
               /\ Preorder[Here] = (<<Item>> \o Preorder[SubPlace]) \o Preorder[NextPlace]
    <3>1. p.items = <<Item>> /\ p.down = {SubPlace}
      BY <2>3, <2>9
    <3>2. At(Preorder, p.down) = Preorder[SubPlace]
      BY <1>9, <3>1
    <3>3. SubPlace \in Regions /\ Preorder[SubPlace] \in Seq(Items)
      BY <1>1, <2>5, <3>1, PreorderUnfolds
    <3> QED BY <1>8, <2>7, <3>1, <3>2, <3>3
  <2>10. ASSUME Child.kind = "dir", ~inside PROVE Broken \in Range(Preorder[Here])
    <3>1. p.items = <<Item, Broken>> /\ At(Preorder, p.down) = <<>>
      BY <1>9, <2>3, <2>10
    <3> DEFINE two == <<Item, Broken>>
               rest == Preorder[NextPlace]
    <3>2. two \in Seq(Items) /\ Broken \in Range(two)
      <4>1. 2 \in DOMAIN two /\ two[2] = Broken
        OBVIOUS
      <4> QED BY <1>15, <2>2, <4>1 DEF Range
    <3>3. rest \in Seq(Items)
      BY <2>6
    <3> HIDE DEF two, rest
    <3>4. Broken \in Range(two \o rest)
      BY <3>2, <3>3, InConcat
    <3>5. Preorder[Here] = two \o rest
      <4>1. two \o <<>> = two
        BY <1>17, <3>2
      <4> QED BY <1>8, <2>7, <3>1, <4>1 DEF two, rest
    <3> QED BY <3>4, <3>5
  <2> QED BY <2>2, <2>6, <2>8, <2>9, <2>10
<1> HIDE DEF p, broken, inside
<1> QED BY <1>4, <1>5, <1>14, <1>18, <1>19, <1>20

-----------------------------------------------------------------------------
(* The inductive invariant.                                                *)

RootFits ==
    /\ im.len >= SUPER_SIZE /\ im.size >= SUPER_SIZE
    /\ im.root.offset + im.root.size <= im.size

\* Inductive: what is listed and what the frames have still to list is the tree.
ListInv ==
    /\ out \in Seq(ListEntries)
    /\ pc = "start" => out = <<>>
    /\ pc # "done" => rc = 0
    /\ pc = "file" => mode = "extract"
    /\ pc \in {"walk", "file"} =>
         /\ RootFits
         /\ \E f : /\ Rests(Preorder, Items, stack, f)
                   /\ Tree = out \o f[Len(stack)]
    /\ ListIsPreorder

\* What the walk has listed is sound.
LEMMA ListedAreItems == \A x \in Seq(ListEntries) : x \in Seq(Items) /\ Broken \notin Range(x)
<1> SUFFICES ASSUME NEW x \in Seq(ListEntries)
             PROVE  x \in Seq(Items) /\ Broken \notin Range(x)
  OBVIOUS
<1>1. Len(x) \in Nat /\ DOMAIN x = 1 .. Len(x) /\ \A i \in 1 .. Len(x) : x[i] \in ListEntries
  OBVIOUS
<1>2. ListEntries \subseteq Items /\ Broken \notin ListEntries
  BY DEF ListEntries, Broken
<1>3. x \in Seq(Items)
  BY <1>2
<1>4. Broken \notin Range(x)
  BY <1>1, <1>2 DEF Range
<1> QED BY <1>3, <1>4

\* The tree is that of the image, which stays.
LEMMA TreeStays == im' = im => Preorder' = Preorder /\ Tree' = Tree
<1> SUFFICES ASSUME im' = im PROVE Preorder' = Preorder /\ Tree' = Tree
  OBVIOUS
<1>1. Preorder' = Preorder
  BY DEF Preorder, Regions, Place, Entry
<1> QED BY <1>1 DEF Tree

\* A failure while listing is one of the tree.
LEMMA FailedListing ==
    ASSUME ListInv, Fail, im' = im, mode' = mode,
           mode = "list" /\ ~MayFail => Broken \in Range(Tree)
    PROVE  ListInv'
<1>1. pc' = "done" /\ rc' = -1 /\ out' = <<>>
  BY DEF Fail
<1>2. Tree' = Tree
  BY TreeStays
<1>3. <<>> \in Seq(ListEntries)
  OBVIOUS
<1>4. MayFail' <=> MayFail
  BY DEF MayFail
<1>5. ListIsPreorder'
  BY <1>1, <1>2, <1>4 DEF ListIsPreorder
<1> QED BY <1>1, <1>3, <1>5 DEF ListInv

\* Every step keeps the list and what is left to list together the tree.
LEMMA ListStep ==
    TypeOK /\ TypeOK' /\ PathInv /\ WalkInBounds /\ StackBounded
      /\ ListInv /\ [Next]_vars => ListInv'
<1> SUFFICES ASSUME TypeOK, TypeOK', PathInv, WalkInBounds, StackBounded, ListInv,
                    [Next]_vars
             PROVE  ListInv'
  OBVIOUS
<1> DEFINE n == Len(stack)
<1>0. n \in Nat /\ stack \in Seq(Frames) /\ im \in Images
  BY DEF TypeOK
<1>1. CASE UNCHANGED vars \/ Returned
  <2>1. im' = im /\ UNCHANGED <<mode, pc, rc, stack, out>>
    BY <1>1 DEF vars, Returned
  <2>2. Preorder' = Preorder /\ Tree' = Tree
    BY <2>1, TreeStays
  <2>3. ListIsPreorder'
    BY <2>1, <2>2 DEF ListInv, ListIsPreorder, MayFail
  <2>4. RootFits' <=> RootFits
    BY <2>1 DEF RootFits
  <2>5. \A f : (Rests(Preorder, Items, stack, f) /\ Tree = out \o f[Len(stack)])
               => (Rests(Preorder', Items, stack', f) /\ Tree' = out' \o f[Len(stack')])
    BY <2>1, <2>2
  <2> QED BY <2>1, <2>3, <2>4, <2>5 DEF ListInv, Items
<1>2. CASE Start
  <2>1. ImageOK(im) /\ im.root.offset \in Nat /\ im.root.size \in Nat /\ im.size \in Nat
        /\ im.len \in Nat /\ MAX_DIR_DEPTH \in Nat
    BY <1>0, CramfsAssumption, FsTreeAssumption DEF ImageOK
  <2>2. Enterable(im.root.offset, im.root.size, 0) <=> im.root.offset + im.root.size <= im.size
    BY <2>1 DEF Enterable
  <2>3. pc = "start" /\ im' = im /\ mode' = mode
    BY <1>2 DEF Start
  <2>4. CASE Fail
    <3>1. mode = "list" /\ ~MayFail => ~RootFits
      <4>1. pc' = "done"
        BY <2>4 DEF Fail
      <4>2. im.len < SUPER_SIZE \/ im.size < SUPER_SIZE
            \/ ~Enterable(im.root.offset, im.root.size, 0) \/ MayFail
        BY <1>2, <4>1 DEF Start
      <4>3. \A x \in Nat : x < SUPER_SIZE => ~ (x >= SUPER_SIZE)
        BY DEF SUPER_SIZE
      <4> QED BY <2>1, <2>2, <4>2, <4>3 DEF RootFits
    <3>2. ~RootFits => Tree = <<Broken>>
      BY <2>1 DEF RootFits, Tree, SUPER_SIZE
    <3>3. Broken \in Range(<<Broken>>)
      <4>1. 1 \in DOMAIN <<Broken>> /\ <<Broken>>[1] = Broken
        OBVIOUS
      <4> QED BY <4>1 DEF Range
    <3> QED BY <2>3, <2>4, <3>1, <3>2, <3>3, FailedListing
  <2>5. CASE ~Fail
    <3> DEFINE root == Frame(im.root.offset, im.root.size, <<>>, 0)
               r == Region(0, im.root.offset, im.root.size, <<>>)
    <3>1. stack' = <<root>> /\ pc' = "walk" /\ rc' = rc /\ out' = out /\ RootFits
      BY <1>2, <2>2, <2>5 DEF Start, RootFits
    <3>2. r \in Regions
      BY <2>1, <3>1 DEF Regions, Region, RootFits
    <3>3. Preorder[r] \in Seq(Items) /\ Tree = Preorder[r]
      <4>1. Preorder[r] \in Seq(Items)
        BY <1>0, <3>2, PreorderUnfolds
      <4>2. Tree = Preorder[r]
        BY <2>1, <3>1 DEF Tree, RootFits, SUPER_SIZE
      <4> QED BY <4>1, <4>2
    <3> DEFINE s == <<root>>
               x == Preorder[r]
               f == [i \in 0 .. 1 |-> IF i = 0 THEN <<>> ELSE x]
    <3>4. Len(s) = 1 /\ RegionOf(s, 1) = r
      BY DEF RegionOf, Frame, Region
    <3>5. f[0] = <<>> /\ f[1] = x /\ x \o <<>> = x /\ <<>> \o x = x
      <4>1. x \in Seq(Items)
        BY <3>3
      <4> HIDE DEF x
      <4> QED BY <4>1
    <3>6. Rests(Preorder, Items, s, f)
      <4>1. \A i \in 1 .. 1 : i = 1 /\ i - 1 = 0
        OBVIOUS
      <4>2. \A i \in 0 .. 1 : i = 0 \/ i = 1
        OBVIOUS
      <4>3. <<>> \in Seq(Items)
        OBVIOUS
      <4>4. 1 .. Len(s) = 1 .. 1 /\ 0 .. Len(s) = 0 .. 1
        BY <3>4
      <4> HIDE DEF f, s, r
      <4>5. ASSUME NEW i \in 1 .. Len(s)
            PROVE  /\ Preorder[RegionOf(s, i)] \in Seq(Items)
                   /\ f[i] = Preorder[RegionOf(s, i)] \o f[i - 1]
        <5>1. i = 1 /\ i - 1 = 0
          BY <4>1, <4>4
        <5> QED BY <3>3, <3>4, <3>5, <5>1
      <4>6. ASSUME NEW i \in 0 .. Len(s) PROVE f[i] \in Seq(Items)
        <5>1. i = 0 \/ i = 1
          BY <4>2, <4>4
        <5> QED BY <3>3, <3>5, <4>3, <5>1
      <4> QED BY <3>5, <4>5, <4>6 DEF Rests
    <3>7. Preorder' = Preorder /\ Tree' = Tree
      BY <2>3, TreeStays
    <3>8. stack' = s /\ out' = <<>> /\ Tree' = out' \o f[Len(stack')]
      <4>1. out' = <<>> /\ stack' = s
        BY <2>3, <3>1 DEF ListInv
      <4> HIDE DEF f, s, r
      <4> QED BY <3>3, <3>4, <3>5, <3>7, <4>1
    <3>9. Rests(Preorder', Items, stack', f)
      <4> HIDE DEF f, s
      <4> QED BY <3>6, <3>7, <3>8
    <3>10. RootFits' /\ rc' = 0 /\ out' \in Seq(ListEntries) /\ pc' = "walk"
      BY <2>3, <3>1, <3>8 DEF ListInv, RootFits
    <3>11. ListIsPreorder'
      BY <3>10 DEF ListIsPreorder
    <3> HIDE DEF f, s, r
    <3> QED BY <3>8, <3>9, <3>10, <3>11 DEF ListInv, Items
  <2> QED BY <2>4, <2>5
<1> DEFINE top == Len(stack)
\* A walk that goes on: the frames left are those of u, e has been listed.
<1>3. ASSUME pc \in {"walk", "file"}, pc' \in {"walk", "file"}, im' = im, mode' = mode, rc' = rc,
             out' \in Seq(ListEntries), pc' = "file" => mode = "extract",
             NEW f, Rests(Preorder, Items, stack', f), Tree = out' \o f[Len(stack')]
      PROVE  ListInv'
  <2>1. Preorder' = Preorder /\ Tree' = Tree
    BY <1>3, TreeStays
  <2>2. RootFits'
    BY <1>3 DEF ListInv, RootFits
  <2>3. pc' # "done" /\ pc' # "start" /\ rc' = 0
    BY <1>3 DEF ListInv
  <2>4. Rests(Preorder', Items, stack', f) /\ Tree' = out' \o f[Len(stack')]
    BY <1>3, <2>1
  <2>5. ListIsPreorder'
    BY <2>3 DEF ListIsPreorder
  <2> QED BY <1>3, <2>2, <2>3, <2>4, <2>5 DEF ListInv, Items
\* The region the walk is in.
<1>4. ASSUME pc = "walk", stack # <<>>
      PROVE  /\ n \in Nat \ {0} /\ RegionOf(stack, n) = Here
             /\ \E f : /\ Rests(Preorder, Items, stack, f) /\ Tree = out \o f[n]
                       /\ f[n] \in Seq(Items)
                       /\ f[n] = Preorder[Here] \o f[n - 1] /\ f[n - 1] \in Seq(Items)
  <2>1. n \in Nat \ {0} /\ n \in 1 .. n /\ n \in 0 .. n /\ n - 1 \in 0 .. n
    BY <1>0, <1>4
  <2>2. RegionOf(stack, n) = Here
    BY DEF RegionOf, Here, Top
  <2>3. PICK f : Rests(Preorder, Items, stack, f) /\ Tree = out \o f[n]
    BY <1>4 DEF ListInv
  <2>4. /\ f[n] \in Seq(Items) /\ f[n - 1] \in Seq(Items)
        /\ f[n] = Preorder[Here] \o f[n - 1]
    BY <2>1, <2>2, <2>3 DEF Rests
  <2> QED BY <2>1, <2>2, <2>3, <2>4
\* What is wrong here is wrong with the tree.
<1>5. ASSUME pc = "walk", stack # <<>>, Broken \in Range(Preorder[Here])
      PROVE  Broken \in Range(Tree)
  <2>1. PICK f : /\ Tree = out \o f[n] /\ f[n] \in Seq(Items)
                 /\ f[n] = Preorder[Here] \o f[n - 1] /\ f[n - 1] \in Seq(Items)
    BY <1>4, <1>5
  <2>2. Preorder[Here] \in Seq(Items)
    BY <1>5, ListedHere
  <2> DEFINE x == Preorder[Here]
             y == f[n - 1]
             z == f[n]
  <2>3. x \in Seq(Items) /\ y \in Seq(Items) /\ z \in Seq(Items) /\ z = x \o y
        /\ Tree = out \o z /\ Broken \in Range(x)
    BY <1>5, <2>1, <2>2
  <2>4. out \in Seq(Items)
    BY ListedAreItems DEF ListInv
  <2> HIDE DEF x, y, z
  <2>5. Broken \in Range(z)
    BY <2>3, InConcat
  <2>6. Broken \in Range(out \o z)
    BY <2>3, <2>4, <2>5, InConcat
  <2> QED BY <2>3, <2>6
<1>6. CASE RejectEntry
  <2>1. AtEntry /\ (~EntryAccepted \/ MayFail) /\ Fail /\ im' = im /\ mode' = mode
    BY <1>6 DEF RejectEntry
  <2>2. pc = "walk" /\ stack # <<>>
    BY <2>1 DEF AtEntry
  <2>3. ~EntryAccepted => Broken \in Range(Preorder[Here])
    BY <2>1, <2>2, ListedHere
  <2> QED BY <1>5, <2>1, <2>2, <2>3, FailedListing
<1>7. CASE RejectRegular
  <2>1. mode = "extract" /\ Fail /\ im' = im /\ mode' = mode
    BY <1>7 DEF RejectRegular
  <2> QED BY <2>1, FailedListing
<1>8. CASE RejectDirectory
  <2>1. /\ AtEntry /\ EntryAccepted /\ Child.kind = "dir" /\ Fail /\ im' = im /\ mode' = mode
        /\ ~DirectoryMade \/ ~Enterable(Child.offset, Child.size, Len(stack))
    BY <1>8 DEF RejectDirectory
  <2>2. pc = "walk" /\ stack # <<>>
    BY <2>1 DEF AtEntry
  <2>3. mode = "list" => DirectoryMade
    BY DEF DirectoryMade
  <2>4. mode = "list" => Broken \in Range(Preorder[Here])
    BY <2>1, <2>2, <2>3, ListedHere
  <2> QED BY <1>5, <2>1, <2>2, <2>4, FailedListing
\* The entry is taken, and everything in it if it is a directory.
<1>9. ASSUME AtEntry, EntryAccepted, NEW c \in Seq(Items),
             Preorder[Here] = c \o Preorder[NextPlace]
      PROVE  \E f, g : /\ Rests(Preorder, Items, Advanced, g) /\ Len(Advanced) = n
                       /\ Tree = out \o f /\ f = c \o g[n] /\ g[n] \in Seq(Items)
  <2>1. pc = "walk" /\ stack # <<>>
    BY <1>9 DEF AtEntry
  <2>2. PICK f : Rests(Preorder, Items, stack, f) /\ Tree = out \o f[n]
    BY <1>4, <2>1
  <2>3. n \in Nat \ {0} /\ RegionOf(stack, n) = Here
    BY <1>4, <2>1
  <2>4. Len(Advanced) = n /\ (\A i \in 1 .. n - 1 : Advanced[i] = stack[i])
        /\ RegionOf(Advanced, n) = NextPlace
    <3>1. Advanced = [stack EXCEPT ![n] = Frame(Top.pos + (INODE_SIZE + Child.namelen),
                          Top.remaining - (INODE_SIZE + Child.namelen), Top.path, Top.plen)]
      BY DEF Advanced
    <3>2. Advanced[n] = Frame(Top.pos + (INODE_SIZE + Child.namelen),
                          Top.remaining - (INODE_SIZE + Child.namelen), Top.path, Top.plen)
      BY <1>0, <2>3, <3>1
    <3>3. RegionOf(Advanced, n) = NextPlace
      BY <3>2 DEF RegionOf, NextPlace, Frame
    <3>4. Len(Advanced) = n
      BY <1>9, AdvancedFrames
    <3>5. \A i \in 1 .. n - 1 : Advanced[i] = stack[i]
      BY <1>0, <2>3, <3>1
    <3> QED BY <3>3, <3>4, <3>5
  <2>5. Preorder[NextPlace] \in Seq(Items)
    BY <1>9, <2>1, ListedHere
  <2> DEFINE u == Advanced
             s == stack
             L == Preorder
             I == Items
             m == n
  <2>6. /\ m \in Nat \ {0} /\ Len(s) = m /\ Len(u) = m /\ (\A i \in 1 .. m - 1 : u[i] = s[i])
        /\ Rests(L, I, s, f) /\ L[RegionOf(u, m)] \in Seq(I) /\ c \in Seq(I)
        /\ L[RegionOf(s, m)] = c \o L[RegionOf(u, m)]
    BY <1>9, <2>2, <2>3, <2>4, <2>5
  <2> HIDE DEF u, s, L, I, m
  <2>7. PICK g : Rests(L, I, u, g) /\ f[m] = c \o g[m]
    <3>1. \E g : Rests(L, I, u, g) /\ f[m] = c \o g[m]
      <4>1. Moved(L, I, s, u, m, c) /\ Rests(L, I, s, f)
        BY <2>6 DEF Moved
      <4> QED BY <4>1, RestsMoved
    <3> QED BY <3>1
  <2>8. m \in 0 .. m
    BY <2>6
  <2>9. g[m] \in Seq(I)
    BY <2>6, <2>7, <2>8 DEF Rests
  <2>10. Tree = out \o f[m]
    BY <2>2 DEF m
  <2>11. Rests(Preorder, Items, Advanced, g) /\ Len(Advanced) = m
    BY <2>6, <2>7 DEF u, L, I
  <2>12. g[m] \in Seq(Items)
    BY <2>9 DEF I
  <2>13. \E h, k : /\ Rests(Preorder, Items, Advanced, k) /\ Len(Advanced) = m
                   /\ Tree = out \o h /\ h = c \o k[m] /\ k[m] \in Seq(Items)
    <3> DEFINE h == f[m]
    <3>1. Tree = out \o h /\ h = c \o g[m]
      BY <2>7, <2>10
    <3> HIDE DEF h
    <3> QED BY <2>11, <2>12, <3>1
  <2> QED BY <2>13 DEF m
<1>10. CASE VisitOther \/ VisitRegular
  <2>1. /\ AtEntry /\ EntryAccepted /\ Child.kind # "dir"
        /\ stack' = Advanced /\ out' = Append(out, Item)
        /\ im' = im /\ mode' = mode /\ rc' = rc /\ pc = "walk" /\ pc' \in {"walk", "file"}
        /\ pc' = "file" => mode = "extract"
        /\ stack # <<>>
    BY <1>10 DEF VisitOther, VisitRegular, Listed, Item, AtEntry
  <2>2. /\ Item \in ListEntries /\ Preorder[Here] = <<Item>> \o Preorder[NextPlace]
    BY <2>1, ListedHere
  <2>3. Item \in Items /\ <<Item>> \in Seq(Items)
    BY <2>2 DEF ListEntries
  <2>4. PICK f, g : /\ Rests(Preorder, Items, Advanced, g) /\ Len(Advanced) = n
                    /\ Tree = out \o f /\ f = <<Item>> \o g[n] /\ g[n] \in Seq(Items)
    BY <1>9, <2>1, <2>2, <2>3
  <2>5. out \in Seq(Items) /\ out \in Seq(ListEntries)
    BY ListedAreItems DEF ListInv
  <2>6. Append(out, Item) \o g[n] = out \o (<<Item>> \o g[n])
    <3> DEFINE o == out
               x == g[n]
               e == Item
               I == Items
    <3>1. o \in Seq(I) /\ e \in I /\ x \in Seq(I)
      BY <2>3, <2>4, <2>5
    <3> HIDE DEF o, x, e, I
    <3>2. Append(o, e) \o x = o \o (<<e>> \o x)
      BY ONLY <3>1, AppendThen
    <3> QED BY <3>2 DEF o, x, e
  <2>7. Tree = out' \o g[Len(stack')]
    BY <2>1, <2>4, <2>6
  <2>8. out' \in Seq(ListEntries)
    BY <2>1, <2>2, <2>5
  <2> QED BY <1>3, <2>1, <2>4, <2>7, <2>8
<1>11. CASE EnterDirectory
  <2> DEFINE sub == Frame(Child.offset, Child.size, ChildPath, ChildLen)
  <2>1. /\ AtEntry /\ EntryAccepted /\ Child.kind = "dir"
        /\ Enterable(Child.offset, Child.size, Len(stack))
        /\ stack' = Append(Advanced, sub) /\ out' = Append(out, Item)
        /\ im' = im /\ mode' = mode /\ rc' = rc /\ pc = "walk" /\ pc' = "walk"
        /\ stack # <<>>
    BY <1>11 DEF EnterDirectory, Listed, Item, AtEntry
  <2>2. /\ Item \in ListEntries /\ Preorder[SubPlace] \in Seq(Items)
        /\ Preorder[Here] = (<<Item>> \o Preorder[SubPlace]) \o Preorder[NextPlace]
    BY <2>1, ListedHere
  <2> DEFINE b == Preorder[SubPlace]
             a == <<Item>>
  <2>3. Item \in Items /\ a \in Seq(Items) /\ b \in Seq(Items) /\ a \o b \in Seq(Items)
    <3>1. Item \in Items /\ a \in Seq(Items) /\ b \in Seq(Items)
      BY <2>2 DEF ListEntries
    <3> HIDE DEF a, b
    <3> QED BY <3>1, ConcatProperties
  <2>4. Preorder[Here] = (a \o b) \o Preorder[NextPlace]
    BY <2>2
  <2> HIDE DEF a, b
  <2>5. PICK f, g : /\ Rests(Preorder, Items, Advanced, g) /\ Len(Advanced) = n
                    /\ Tree = out \o f /\ f = (a \o b) \o g[n] /\ g[n] \in Seq(Items)
    BY <1>9, <2>1, <2>3, <2>4
  <2>6. /\ Len(stack') = n + 1 /\ (\A i \in 1 .. n : stack'[i] = Advanced[i])
        /\ stack'[n + 1] = sub
    <3>1. Advanced \in Seq(Frames)
      BY <2>1, AdvancedFrames
    <3> HIDE DEF sub
    <3> QED BY <2>1, <2>5, <3>1
  <2>7. RegionOf(stack', n + 1) = SubPlace
    <3>1. (n + 1) - 1 = n
      BY <1>0
    <3> QED BY <2>6, <3>1 DEF RegionOf, SubPlace, Frame
  <2>8. PICK h : /\ Rests(Preorder, Items, stack', h) /\ h[n + 1] = b \o g[n]
    <3> DEFINE u == stack'
               s == Advanced
               L == Preorder
    <3>1. /\ Len(s) = n /\ Len(u) = n + 1 /\ (\A i \in 1 .. n : u[i] = s[i])
          /\ Rests(L, Items, s, g) /\ L[RegionOf(u, n + 1)] \in Seq(Items)
          /\ L[RegionOf(u, n + 1)] = b
      BY <2>2, <2>5, <2>6, <2>7 DEF b
    <3> DEFINE I == Items
               m == n
    <3>2. /\ m \in Nat /\ Len(s) = m /\ Len(u) = m + 1 /\ (\A i \in 1 .. m : u[i] = s[i])
          /\ Rests(L, I, s, g) /\ L[RegionOf(u, m + 1)] \in Seq(I)
      BY <1>0, <3>1
    <3> HIDE DEF u, s, L, I, m
    <3>3. \E h : Rests(L, I, u, h) /\ h[m + 1] = L[RegionOf(u, m + 1)] \o g[m]
      <4> DEFINE k == m + 1
      <4>1. Pushed(L, I, s, u, m, k) /\ Rests(L, I, s, g)
        BY <3>2 DEF Pushed
      <4> HIDE DEF k
      <4>2. \E h : Rests(L, I, u, h) /\ h[k] = L[RegionOf(u, k)] \o g[m]
        <5>1. PushedTo(L, I, u, g, m, k)
          BY <4>1, RestsPushed
        <5> QED BY <5>1 DEF PushedTo
      <4> QED BY <4>2 DEF k
    <3> QED BY <3>1, <3>3 DEF u, L, I, m
  <2>9. out \in Seq(Items) /\ out \in Seq(ListEntries)
    BY ListedAreItems DEF ListInv
  <2> DEFINE y == g[n]
  <2>10. y \in Seq(Items) /\ Tree = out \o ((a \o b) \o y) /\ h[n + 1] = b \o y
    BY <2>5, <2>8
  <2> HIDE DEF y
  <2>11. (a \o b) \o y = a \o (b \o y)
    <3>1. a \in Seq(Items) /\ b \in Seq(Items) /\ y \in Seq(Items)
      BY <2>3, <2>10
    <3> QED BY ONLY <3>1, ConcatAssociative
  <2>12. b \o y \in Seq(Items)
    BY <2>3, <2>10, ConcatProperties
  <2> DEFINE z == b \o y
  <2>13. z \in Seq(Items) /\ Tree = out \o (a \o z) /\ h[n + 1] = z
    BY <2>10, <2>11, <2>12
  <2> HIDE DEF z
  <2>14. Append(out, Item) \o z = out \o (<<Item>> \o z)
    <3> DEFINE o == out
               e == Item
               I == Items
    <3>1. o \in Seq(I) /\ e \in I /\ z \in Seq(I)
      BY <2>3, <2>9, <2>13
    <3> HIDE DEF o, e, I
    <3>2. Append(o, e) \o z = o \o (<<e>> \o z)
      BY ONLY <3>1, AppendThen
    <3> QED BY <3>2 DEF o, e
  <2>15. Tree = out' \o h[Len(stack')]
    BY <2>1, <2>6, <2>13, <2>14 DEF a
  <2>16. out' \in Seq(ListEntries)
    BY <2>1, <2>2, <2>9
  <2> QED BY <1>3, <2>1, <2>8, <2>15, <2>16
<1>12. CASE LeaveDirectory
  <2>1. /\ pc = "walk" /\ stack # <<>> /\ Top.remaining = 0
        /\ stack' = SubSeq(stack, 1, Len(stack) - 1)
        /\ pc' = IF Len(stack) = 1 THEN "done" ELSE "walk"
        /\ im' = im /\ mode' = mode /\ rc' = rc /\ out' = out
    BY <1>12 DEF LeaveDirectory, Front
  <2>2. PICK f : Rests(Preorder, Items, stack, f) /\ Tree = out \o f[n]
    BY <1>4, <2>1
  <2>3. n \in Nat \ {0} /\ RegionOf(stack, n) = Here
    BY <1>4, <2>1
  <2>4. Preorder[Here] = <<>>
    BY <2>1, ListedHere
  <2>5. Len(stack') = n - 1 /\ \A i \in 1 .. n - 1 : stack'[i] = stack[i]
    BY <1>0, <2>1, PrefixOfSequence
  <2>6. Rests(Preorder, Items, stack', f) /\ f[n] = f[n - 1]
    <3> DEFINE u == stack'
               s == stack
               L == Preorder
               m == n - 1
    <3>1. m \in Nat /\ n = m + 1
      BY <2>3
    <3>2. /\ Len(s) = m + 1 /\ Len(u) = m /\ (\A i \in 1 .. m : u[i] = s[i])
          /\ Rests(L, Items, s, f) /\ L[RegionOf(s, m + 1)] = <<>>
      BY <2>2, <2>3, <2>4, <2>5, <3>1
    <3> DEFINE I == Items
    <3>3. m \in Nat /\ Rests(L, I, s, f)
      BY <3>1, <3>2
    <3> HIDE DEF u, s, L, m, I
    <3>4. Rests(L, I, u, f) /\ f[m + 1] = f[m]
      BY ONLY <3>2, <3>3, RestsPopped
    <3> QED BY <3>1, <3>4 DEF u, L, m, I
  <2>7. Tree = out' \o f[Len(stack')]
    BY <2>1, <2>2, <2>5, <2>6
  <2>8. CASE pc' = "walk"
    BY <1>3, <2>1, <2>6, <2>7, <2>8 DEF ListInv
  <2>9. CASE pc' = "done"
    <3>1. n = 1
      BY <2>1, <2>9
    <3>2. f[0] = <<>>
      BY <2>2 DEF Rests
    <3>3. out \in Seq(Items) /\ Broken \notin Range(out)
      BY ListedAreItems DEF ListInv
    <3>4. Tree = out
      <4>1. out \o <<>> = out
        <5> DEFINE o == out
        <5>1. o \in Seq(Items)
          BY <3>3
        <5> HIDE DEF o
        <5>2. o \o <<>> = o
          BY ONLY <5>1
        <5> QED BY <5>2 DEF o
      <4>2. f[n] = <<>>
        <5>1. n - 1 = 0
          BY <3>1
        <5> QED BY <2>6, <3>2, <5>1
      <4> QED BY <2>2, <4>1, <4>2
    <3>5. Tree' = Tree
      BY <2>1, TreeStays
    <3>6. rc' = 0 /\ out' = Tree' /\ Broken \notin Range(Tree')
      BY <2>1, <3>3, <3>4, <3>5 DEF ListInv
    <3>7. ListIsPreorder'
      BY <3>6 DEF ListIsPreorder
    <3> QED BY <2>1, <2>9, <3>7 DEF ListInv
  <2> QED BY <2>1, <2>8, <2>9
<1>13. CASE WriteBlock \/ CloseFile
  <2>1. /\ pc = "file" /\ pc' \in {"walk", "file"} /\ im' = im /\ mode' = mode /\ rc' = rc
        /\ stack' = stack /\ out' = out
    BY <1>13 DEF WriteBlock, CloseFile
  <2>2. PICK f : Rests(Preorder, Items, stack, f) /\ Tree = out \o f[n]
    BY <2>1 DEF ListInv
  <2>3. Rests(Preorder, Items, stack', f) /\ Tree = out' \o f[Len(stack')]
    BY <2>1, <2>2
  <2>4. out' \in Seq(ListEntries)
    BY <2>1 DEF ListInv
  <2>5. mode = "extract"
    BY <2>1 DEF ListInv
  <2> QED BY <1>3, <2>1, <2>3, <2>4, <2>5
<1>14. CASE RejectBlock
  <2>1. Fail /\ im' = im /\ mode' = mode /\ pc = "file"
    BY <1>14 DEF RejectBlock
  <2>2. mode = "extract"
    BY <2>1 DEF ListInv
  <2> QED BY <2>1, <2>2, FailedListing
<1> QED
  BY <1>1, <1>2, <1>6, <1>7, <1>8, <1>10, <1>11, <1>12, <1>13, <1>14
  DEF Next, walk_directory, extract_regular_file

\* For every image: a walk that succeeds has listed the whole tree of the
\* image, depth first and in image order, and a listing in which no allocation
\* fails gives up exactly on an image whose tree has something broken in it.
THEOREM ListIsPreorderHolds == Spec => []ListIsPreorder
<1>1. Init => ListInv
  <2>1. <<>> \in Seq(ListEntries)
    OBVIOUS
  <2> QED BY <2>1 DEF Init, ListInv, ListIsPreorder
<1>2. TypeOK /\ TypeOK' /\ PathInv /\ WalkInBounds /\ StackBounded
        /\ ListInv /\ [Next]_vars => ListInv'
  BY ListStep
<1>3. ListInv => ListIsPreorder
  BY DEF ListInv
<1>4. Spec => []PathInv
  <2>1. Init => PathInv
    <3>1. IsList(<<>>)
      BY DEF IsList
    <3> QED BY <3>1 DEF Init, PathInv, PathsFit
  <2>2. TypeOK /\ PathInv /\ [Next]_vars => PathInv'
    BY PathStep
  <2> QED BY <2>1, <2>2, TypeCorrect, PTL DEF Spec
<1> QED
  BY <1>1, <1>2, <1>3, <1>4, TypeCorrect, WalkInBoundsHolds, StackBoundedHolds, PTL DEF Spec
=============================================================================

--------------------------- MODULE SquashfsProofs ----------------------------
(***************************************************************************)
(* The bounds of the squashfs walk, the content of extracted files, and    *)
(* that the list is the tree of the image, for every image.                *)
(***************************************************************************)
EXTENDS Squashfs, SequenceTheorems, FiniteSetTheorems, WellFoundedInduction, TLAPS

\* A sequence without its last element is a sequence over the same set.
LEMMA PrefixOfSequence ==
    ASSUME NEW S, NEW s \in Seq(S), s # <<>>
    PROVE  /\ Len(SubSeq(s, 1, Len(s) - 1)) = Len(s) - 1
           /\ \A i \in 1 .. Len(s) - 1 : SubSeq(s, 1, Len(s) - 1)[i] = s[i]
<1>1. PICK n \in Nat \ {0} : n = Len(s)
  OBVIOUS
<1>2. n - 1 \in Int /\ \A i \in 1 .. n - 1 : s[i] \in S
  BY <1>1
<1>3. /\ Len(SubSeq(s, 1, n - 1)) = IF 1 <= n - 1 THEN (n - 1) - 1 + 1 ELSE 0
      /\ \A i \in 1 .. (n - 1) - 1 + 1 : SubSeq(s, 1, n - 1)[i] = s[1 + i - 1]
  BY <1>2, SubSeqProperties
<1>4. (n - 1) - 1 + 1 = n - 1 /\ \A i \in 1 .. n - 1 : 1 + i - 1 = i
  BY <1>1
<1>5. 1 <= n - 1 \/ n - 1 = 0
  BY <1>1
<1> QED BY <1>1, <1>3, <1>4, <1>5

\* As long as there are more blocks, the blocks so far are no more than the
\* file: with a last block that is short, and with whole blocks only.
LEMMA BlocksFit ==
    ASSUME NEW b \in Nat \ {0}, NEW s \in Nat, NEW n \in Nat
    PROVE  /\ n < (s + b - 1) \div b => b * n <= s
           /\ n <= s \div b => b * n <= s
           /\ b * (n + 1) = b * n + b /\ b * n \in Nat
<1>1. b * (n + 1) = b * n + b /\ b * n \in Nat
  OBVIOUS
<1>2. ASSUME NEW x \in Nat, NEW q \in Nat, q <= x \div b
      PROVE  b * q <= x
  <2>1. x \div b \in Nat /\ b * (x \div b) <= x
    OBVIOUS
  <2>2. b * q <= b * (x \div b)
    BY <1>2, <2>1
  <2>3. b * q \in Nat /\ b * (x \div b) \in Nat
    BY <2>1
  <2> QED BY <2>1, <2>2, <2>3
<1>3. n <= s \div b => b * n <= s
  BY <1>2
<1>4. ASSUME n < (s + b - 1) \div b PROVE b * n <= s
  <2>1. n + 1 <= (s + b - 1) \div b /\ s + b - 1 \in Nat
    BY <1>4
  <2>2. b * (n + 1) <= s + b - 1
    BY <1>2, <2>1
  <2> QED BY <1>1, <2>2
<1> QED BY <1>1, <1>3, <1>4

-----------------------------------------------------------------------------
(* Types.                                                                  *)

\* What an accepted entry decodes to, and where it leads.
LEMMA ChildTyped ==
    ASSUME TypeOK, AtEntry, EntryAccepted
    PROVE  /\ Top \in Frames /\ Len(stack) \in Nat \ {0}
           /\ InodeOK(ChildNode) /\ ChildNode \in Inodes
           /\ name_len \in Nat \ {0} /\ Child.name_size \in Nat
           /\ Child.name_size + 1 = name_len
           /\ ChildPath \in Seq(Names) /\ ChildLen \in Nat
<1>1. Len(stack) \in Nat \ {0} /\ stack \in Seq(Frames)
  BY DEF AtEntry, TypeOK
<1>2. Top \in Frames
  BY <1>1 DEF Top
<1>3. EntryOK(Child) /\ InodeOK(ChildNode)
  BY DEF TypeOK, ImageOK, EntryAccepted, Child, ChildNode
<1>4. ChildNode \in Inodes /\ Child.name_size \in Nat
  BY <1>3 DEF InodeOK, EntryOK
<1>5. Child.name \in Names /\ NameLen[Child.name] \in Nat
  BY <1>3, FsTreeAssumption DEF EntryOK, EntryAccepted
<1>6. Top.path \in Seq(Names) /\ Top.plen \in Nat
  BY <1>2 DEF Frames
<1>7. ChildPath \in Seq(Names) /\ ChildLen \in Nat
  BY <1>5, <1>6 DEF ChildPath, ChildLen, JoinedLen
<1> QED BY <1>1, <1>2, <1>3, <1>4, <1>7 DEF name_len

\* The arithmetic of an entry: what the cursor gains `remaining' loses.
LEMMA MoveOn ==
    ASSUME NEW p \in Nat, NEW r \in Nat, NEW n \in Nat, NEW l \in 1 .. MAX_GROUP,
           8 + n <= r
    PROVE  /\ p + 8 + n \in Nat /\ r - 8 - n \in Nat /\ l - 1 \in 0 .. MAX_GROUP
           /\ p + 8 + n >= p
           /\ (p + 8 + n) + (r - 8 - n) = p + r
  BY SquashfsAssumption

\* What an accepted entry does to the deepest frame: it moves on, and its
\* listing ends where it ended.
LEMMA AdvancedFrames ==
    ASSUME TypeOK, AtEntry, EntryAccepted
    PROVE  /\ Advanced \in Seq(Frames) /\ Len(Advanced) = Len(stack)
           /\ \A i \in 1 .. Len(stack) :
                /\ Advanced[i].pos >= stack[i].pos
                /\ Advanced[i].pos + Advanced[i].remaining
                     = stack[i].pos + stack[i].remaining
<1> DEFINE n     == Len(stack)
           moved == [pos |-> Top.pos + ENT_SIZE + name_len,
                     remaining |-> Top.remaining - ENT_SIZE - name_len,
                     left |-> Top.left - 1, start |-> Top.start,
                     path |-> Top.path, plen |-> Top.plen]
<1>1. n \in Nat \ {0} /\ stack \in Seq(Frames) /\ Top = stack[n] /\ Top \in Frames
  BY ChildTyped DEF Top, TypeOK
<1>2. /\ Top.pos \in Nat /\ Top.remaining \in Nat /\ Top.left \in 1 .. MAX_GROUP
      /\ Top.start \in Nat /\ Top.path \in Seq(Names) /\ Top.plen \in Nat
  BY <1>1, SquashfsAssumption DEF Frames, AtEntry
<1>3. name_len \in Nat /\ ENT_SIZE + name_len <= Top.remaining
  BY <1>2, ChildTyped DEF EntryAccepted, ENT_SIZE
<1>4. /\ Top.pos + 8 + name_len \in Nat /\ Top.remaining - 8 - name_len \in Nat
      /\ Top.left - 1 \in 0 .. MAX_GROUP
      /\ Top.pos + 8 + name_len >= Top.pos
      /\ (Top.pos + 8 + name_len) + (Top.remaining - 8 - name_len)
           = Top.pos + Top.remaining
  <2>2. 8 + name_len <= Top.remaining
    BY <1>3 DEF ENT_SIZE
  <2>3. PICK p, r, k \in Nat, l \in 1 .. MAX_GROUP :
          p = Top.pos /\ r = Top.remaining /\ k = name_len /\ l = Top.left
    BY <1>2, <1>3
  <2>4. 8 + k <= r
    BY <2>2, <2>3
  <2>5. /\ p + 8 + k \in Nat /\ r - 8 - k \in Nat /\ l - 1 \in 0 .. MAX_GROUP
        /\ p + 8 + k >= p
        /\ (p + 8 + k) + (r - 8 - k) = p + r
    BY <2>4, MoveOn
  <2> QED BY <2>3, <2>5
<1>5. /\ moved \in Frames
      /\ moved.pos >= Top.pos
      /\ moved.pos + moved.remaining = Top.pos + Top.remaining
  BY <1>2, <1>4 DEF Frames, ENT_SIZE
<1>6. Advanced = [stack EXCEPT ![n] = moved]
  BY DEF Advanced
<1> HIDE DEF moved
<1>7. Advanced \in Seq(Frames) /\ Len(Advanced) = n
  BY <1>1, <1>5, <1>6
<1>8. ASSUME NEW i \in 1 .. n
      PROVE  /\ Advanced[i].pos >= stack[i].pos
             /\ Advanced[i].pos + Advanced[i].remaining
                  = stack[i].pos + stack[i].remaining
  <2>1. stack[i] \in Frames
    BY <1>1
  <2>2. stack[i].pos \in Nat
    BY <2>1 DEF Frames
  <2> QED BY <1>1, <1>5, <1>6, <2>2
<1> QED BY <1>7, <1>8

\* A header read moves the deepest frame in the same way.
LEMMA HeaderFrames ==
    ASSUME TypeOK, ReadHeader
    PROVE  /\ stack' \in Seq(Frames) /\ Len(stack') = Len(stack)
           /\ \A i \in 1 .. Len(stack) :
                /\ stack'[i].pos >= stack[i].pos
                /\ stack'[i].pos + stack'[i].remaining
                     = stack[i].pos + stack[i].remaining
<1> DEFINE n     == Len(stack)
           h     == im.hdr[Top.pos]
           moved == [pos |-> Top.pos + HDR_SIZE, remaining |-> Top.remaining - HDR_SIZE,
                     left |-> entry_count(h.count),
                     start |-> h.start, path |-> Top.path, plen |-> Top.plen]
<1>1. n \in Nat \ {0} /\ stack \in Seq(Frames) /\ Top = stack[n] /\ Top \in Frames
  BY DEF Top, TypeOK, ReadHeader, AtHeader
<1>2. /\ Top.pos \in Nat /\ Top.remaining \in Nat /\ Top.remaining >= 12
      /\ Top.path \in Seq(Names) /\ Top.plen \in Nat
  BY <1>1 DEF Frames, ReadHeader, HeaderAccepted, HDR_SIZE
<1>3. h.count \in 0 .. U32 - 1 /\ h.start \in Nat
  BY DEF TypeOK, ImageOK, ReadHeader, HeaderAccepted
<1>4. entry_count(h.count) \in 0 .. MAX_GROUP
  <2>1. entry_count(h.count) \in Nat
    BY <1>3, SquashfsAssumption DEF entry_count
  <2> QED BY <2>1, SquashfsAssumption DEF ReadHeader, HeaderAccepted
<1>5. moved \in Frames
  BY <1>2, <1>3, <1>4 DEF Frames, HDR_SIZE
<1>6. /\ moved.pos >= Top.pos
      /\ moved.pos + moved.remaining = Top.pos + Top.remaining
  BY <1>2 DEF HDR_SIZE
<1>7. stack' = [stack EXCEPT ![n] = moved]
  BY DEF ReadHeader
<1> HIDE DEF moved
<1>8. stack' \in Seq(Frames) /\ Len(stack') = n
  BY <1>1, <1>5, <1>7
<1>9. ASSUME NEW i \in 1 .. n
      PROVE  /\ stack'[i].pos >= stack[i].pos
             /\ stack'[i].pos + stack'[i].remaining
                  = stack[i].pos + stack[i].remaining
  <2>1. stack[i] \in Frames
    BY <1>1
  <2>2. stack[i].pos \in Nat
    BY <2>1 DEF Frames
  <2> QED BY <1>1, <1>6, <1>7, <2>2
<1> QED BY <1>8, <1>9

\* Entering a directory adds at most its own frame, with its whole listing.
LEMMA EnteredFrames ==
    ASSUME NEW frames \in Seq(Frames), NEW r, InodeOK(r), NEW depth,
           Enterable(r, depth), NEW path \in Seq(Names), NEW plen \in Nat
    PROVE  /\ Entered(frames, r, path, plen) \in Seq(Frames)
           /\ \/ Entered(frames, r, path, plen) = frames
              \/ /\ Entered(frames, r, path, plen)
                      = Append(frames, Frame(r, path, plen))
                 /\ Frame(r, path, plen) \in Frames
                 /\ Frame(r, path, plen).pos = r.dir
                 /\ Frame(r, path, plen).pos + Frame(r, path, plen).remaining
                      = r.dir + r.dir_size - 3
<1>1. r.dir \in Nat \cup {NoPos} /\ r.dir_size \in Nat
  BY DEF InodeOK, Inodes
<1>2. CASE IsEmpty(r)
  BY <1>2 DEF Entered
<1>3. CASE ~IsEmpty(r)
  <2>1. r.dir \in Nat /\ r.dir_size - 3 \in Nat
    BY <1>1, <1>3 DEF Enterable, IsEmpty
  <2>2. /\ Frame(r, path, plen) \in Frames
        /\ Frame(r, path, plen).pos = r.dir
        /\ Frame(r, path, plen).pos + Frame(r, path, plen).remaining
             = r.dir + r.dir_size - 3
    BY <2>1, SquashfsAssumption DEF Frame, Frames
  <2> QED BY <1>3, <2>2 DEF Entered
<1> QED BY <1>2, <1>3

-----------------------------------------------------------------------------
\* What read_superblock and read_inode have established before the content of
\* a file is read: the block size is no zero to divide by, and there is a
\* block_sizes entry for every block.
Readable ==
    /\ mode = "extract" /\ pc \in {"walk", "file"} => im.block_size > 0
    /\ pc = "file" => mode = "extract" /\ ContentReadable(file.inode)

TypeInv == TypeOK /\ Readable

\* The initial state has the types.
LEMMA TypeInit == Init => TypeInv
  BY SquashfsAssumption
  DEF Init, TypeInv, Readable, TypeOK, NoFile, ZeroInode, Inodes, Files

\* The locals of extract_regular_file after one more piece.
LEMMA FileMoved ==
    ASSUME NEW f \in Files, NEW p \in Seq(Pieces), NEW o \in Nat, NEW b \in Nat
    PROVE  /\ [f EXCEPT !.pieces = p, !.block_offset = o, !.bytes_before = b] \in Files
           /\ [f EXCEPT !.pieces = p, !.bytes_before = b] \in Files
  BY DEF Files

\* The file being written, while there are blocks to come.
LEMMA BlockTyped ==
    ASSUME TypeInv, pc = "file"
    PROVE  /\ file.inode \in Inodes /\ file.pieces \in Seq(Pieces)
           /\ file.inode.file_size \in Nat /\ file.bytes_before \in Nat
           /\ file.block_offset \in Nat /\ im.block_size \in Nat \ {0}
           /\ NBlocks(file.inode) \in Nat /\ Len(file.pieces) \in Nat
           /\ tail_len \in Nat /\ expected_len \in 0 .. tail_len
           /\ MoreBlocks => NextSize \in BlockSizes /\ NextSize.size \in Nat
<1>1. /\ file.inode \in Inodes /\ file.pieces \in Seq(Pieces)
      /\ file.bytes_before \in Nat /\ file.block_offset \in Nat
      /\ file.bytes_before <= file.inode.file_size
  BY DEF TypeInv, TypeOK, Files
<1>2. file.inode.file_size \in Nat /\ file.inode.sizes \in Seq(BlockSizes)
  BY <1>1 DEF Inodes
<1>3. im.block_size \in Nat \ {0}
  BY DEF TypeInv, TypeOK, Readable, ImageOK
<1>4. NBlocks(file.inode) \in Nat
  <2>1. \A s \in Nat, d \in Nat \ {0} :
          (s + d - 1) \div d \in Nat /\ s \div d \in Nat
    OBVIOUS
  <2> QED BY <1>2, <1>3, <2>1 DEF NBlocks
<1>5. tail_len \in Nat /\ expected_len \in 0 .. tail_len
  BY <1>1, <1>2, <1>3 DEF tail_len, expected_len
<1>6. ASSUME MoreBlocks PROVE NextSize \in BlockSizes
  <2>1. NBlocks(file.inode) <= Len(file.inode.sizes)
    BY DEF TypeInv, Readable, ContentReadable
  <2>2. Len(file.pieces) + 1 \in 1 .. Len(file.inode.sizes)
    BY <1>1, <1>2, <1>4, <1>6, <2>1 DEF MoreBlocks
  <2> QED BY <1>2, <2>2 DEF NextSize
<1>7. Len(file.pieces) \in Nat
  BY <1>1
<1>8. \A z \in BlockSizes : z.size \in Nat
  BY DEF BlockSizes
<1> QED BY <1>1, <1>2, <1>3, <1>4, <1>5, <1>6, <1>7, <1>8

\* A block that is written: its length and place are numbers, and the file
\* stays inside its size.
LEMMA BlockWritten ==
    ASSUME TypeInv, WriteBlock
    PROVE  /\ file' \in Files /\ file'.path = file.path /\ file'.inode = file.inode
           /\ file'.pieces = Append(file.pieces,
                  [kind |-> IF NextSize.size = 0 THEN "hole" ELSE "block",
                   at |-> file.block_offset, len |-> expected_len])
           /\ file'.block_offset = file.block_offset + NextSize.size
           /\ file'.bytes_before = file.bytes_before + expected_len
           /\ file'.bytes_before <= file.inode.file_size
           /\ disk' = [disk EXCEPT ![file.path] = Regular(file.inode, file'.pieces, FALSE)]
<1> DEFINE piece == [kind |-> IF NextSize.size = 0 THEN "hole" ELSE "block",
                     at |-> file.block_offset, len |-> expected_len]
<1>1. pc = "file" /\ MoreBlocks /\ BlockLen = expected_len
  BY DEF WriteBlock, BlockAccepted
<1>2. NextSize.size \in Nat /\ expected_len \in Nat /\ expected_len <= tail_len
  BY <1>1, BlockTyped
<1>3. piece \in Pieces
  BY <1>1, <1>2, BlockTyped DEF Pieces
<1>4. /\ file' = [file EXCEPT !.pieces = Append(file.pieces, piece),
                              !.block_offset = file.block_offset + NextSize.size,
                              !.bytes_before = file.bytes_before + expected_len]
      /\ Written(piece)
  BY <1>1 DEF WriteBlock
<1> HIDE DEF piece
<1>5. /\ Append(file.pieces, piece) \in Seq(Pieces)
      /\ file.block_offset + NextSize.size \in Nat
      /\ file.bytes_before + expected_len \in Nat
      /\ file.bytes_before + expected_len <= file.inode.file_size
  <2>1. /\ file.pieces \in Seq(Pieces) /\ file.block_offset \in Nat
        /\ file.bytes_before \in Nat /\ file.inode.file_size \in Nat
    BY <1>1, BlockTyped
  <2>2. expected_len <= file.inode.file_size - file.bytes_before
    BY <1>2 DEF tail_len
  <2>3. Append(file.pieces, piece) \in Seq(Pieces)
    BY <1>3, <2>1
  <2> QED BY <1>2, <2>1, <2>2, <2>3
<1>6. file \in Files
  BY DEF TypeInv, TypeOK
<1>7. file' \in Files
  BY <1>4, <1>5, <1>6, FileMoved
<1>8. /\ file'.path = file.path /\ file'.inode = file.inode
      /\ file'.pieces = Append(file.pieces, piece)
      /\ file'.block_offset = file.block_offset + NextSize.size
      /\ file'.bytes_before = file.bytes_before + expected_len
  BY <1>4, <1>6 DEF Files
<1> QED BY <1>4, <1>5, <1>7, <1>8 DEF piece, Written

\* The tail of a file: what is left of its size.
LEMMA TailWritten ==
    ASSUME TypeInv, WriteTail
    PROVE  /\ file' \in Files /\ file'.path = file.path /\ file'.inode = file.inode
           /\ file'.pieces = Append(file.pieces,
                  [kind |-> "tail", at |-> file.inode.frag_offset, len |-> tail_len])
           /\ file'.bytes_before = file.inode.file_size
           /\ disk' = [disk EXCEPT ![file.path] = Regular(file.inode, file'.pieces, FALSE)]
<1> DEFINE piece == [kind |-> "tail", at |-> file.inode.frag_offset, len |-> tail_len]
<1>1. pc = "file"
  BY DEF WriteTail
<1>2. file.inode.frag_offset \in Nat
  BY <1>1, BlockTyped DEF Inodes
<1>3. piece \in Pieces
  BY <1>1, <1>2, BlockTyped DEF Pieces
<1>4. /\ file' = [file EXCEPT !.pieces = Append(file.pieces, piece),
                              !.bytes_before = file.inode.file_size]
      /\ Written(piece)
  BY DEF WriteTail
<1> HIDE DEF piece
<1>5. file \in Files /\ Append(file.pieces, piece) \in Seq(Pieces)
  BY <1>1, <1>3, BlockTyped DEF TypeInv, TypeOK
<1>6. file' \in Files
  BY <1>1, <1>4, <1>5, FileMoved, BlockTyped
<1>7. /\ file'.path = file.path /\ file'.inode = file.inode
      /\ file'.pieces = Append(file.pieces, piece)
      /\ file'.bytes_before = file.inode.file_size
  BY <1>4, <1>5 DEF Files
<1> QED BY <1>4, <1>6, <1>7 DEF piece, Written

\* Every step keeps the types.
LEMMA TypeStep == TypeInv /\ [Next]_vars => TypeInv'
<1> SUFFICES ASSUME TypeInv, [Next]_vars PROVE TypeInv'
  OBVIOUS
<1>0. <<>> \in Seq(Frames) /\ NoFile \in Files /\ ImageOK(im)
      /\ NoFile.bytes_before <= NoFile.inode.file_size
      /\ TypeOK
  BY DEF NoFile, ZeroInode, Inodes, Files, TypeInv, TypeOK
<1>a. ASSUME im' = im PROVE ImageOK(im')
  BY <1>0, <1>a
<1> USE DEF TypeInv, Readable, TypeOK, Fail
<1>1. CASE UNCHANGED vars
  BY <1>0, <1>1 DEF vars, ContentReadable, NBlocks
<1>2. CASE Start
  <2> DEFINE root == im.inode[im.root]
  <2>1. CASE RootAccepted /\ stack' = Entered(<<>>, root, <<>>, 0)
             /\ pc' = IF IsEmpty(root) THEN "done" ELSE "walk"
    <3>1. InodeOK(root) /\ Enterable(root, 0)
      BY <1>0, <2>1 DEF RootAccepted, ImageOK
    <3>2. <<>> \in Seq(Names) /\ 0 \in Nat
      OBVIOUS
    <3>3. stack' \in Seq(Frames)
      BY <1>0, <2>1, <3>1, <3>2, EnteredFrames
    <3>4. mode = "extract" => im.block_size > 0
      BY <1>0, <2>1, SquashfsAssumption DEF RootAccepted, ValidBlockSize, ImageOK
    <3> QED BY <1>2, <1>a, <2>1, <3>3, <3>4 DEF Start
  <2> QED BY <1>0, <1>2, <1>a, <2>1 DEF Start
<1>3. CASE ReadHeader
  BY <1>3, <1>a, HeaderFrames DEF ReadHeader, AtHeader
<1>4. CASE RejectHeader
  BY <1>0, <1>4, <1>a DEF RejectHeader
<1>5. CASE LeaveDirectory
  <2>1. stack' \in Seq(Frames)
    BY <1>5 DEF LeaveDirectory, Front
  <2> QED BY <1>5, <1>a, <2>1 DEF LeaveDirectory
<1>6. CASE RejectEntry
  BY <1>0, <1>6, <1>a DEF RejectEntry
<1>7. CASE EnterDirectory
  <2>1. AtEntry /\ EntryAccepted /\ Enterable(ChildNode, Len(stack))
        /\ stack' = Entered(Advanced, ChildNode, ChildPath, ChildLen)
    BY <1>7 DEF EnterDirectory
  <2>2. stack' \in Seq(Frames)
    BY <1>0, <2>1, ChildTyped, AdvancedFrames, EnteredFrames
  <2>3. pc = "walk"
    BY <2>1 DEF AtEntry
  <2> QED BY <1>7, <1>a, <2>2, <2>3 DEF EnterDirectory
<1>8. CASE RejectDirectory
  BY <1>0, <1>8, <1>a DEF RejectDirectory
<1>9. CASE VisitOther
  <2>1. stack' \in Seq(Frames) /\ pc = "walk"
    BY <1>0, <1>9, AdvancedFrames DEF VisitOther, AtEntry
  <2> QED BY <1>9, <1>a, <2>1 DEF VisitOther
<1>10. CASE VisitRegular
  <2>1. /\ AtEntry /\ EntryAccepted /\ stack' = Advanced
        /\ pc = "walk" /\ mode = "extract" /\ mode' = mode /\ im' = im
        /\ ContentReadable(ChildNode)
        /\ file' = [path |-> ChildPath, inode |-> ChildNode, pieces |-> <<>>,
                    block_offset |-> ChildNode.start, bytes_before |-> 0]
    BY <1>10 DEF VisitRegular, AtEntry, EntryAccepted
  <2>2. ChildPath \in Seq(Names) /\ ChildNode \in Inodes
    BY <1>0, <2>1, ChildTyped
  <2>3. ChildNode.start \in Nat /\ ChildNode.file_size \in Nat
    BY <2>2 DEF Inodes
  <2>4. /\ file' \in Files /\ file'.bytes_before <= file'.inode.file_size
        /\ file'.inode = ChildNode
    BY <2>1, <2>2, <2>3 DEF Files
  <2>5. stack' \in Seq(Frames)
    BY <1>0, <2>1, AdvancedFrames
  <2>6. ContentReadable(file.inode)'
    BY <2>1, <2>4 DEF ContentReadable, NBlocks
  <2> QED BY <1>10, <1>a, <2>1, <2>4, <2>5, <2>6 DEF VisitRegular
<1>11. CASE RejectRegular
  BY <1>0, <1>11, <1>a DEF RejectRegular
<1>12. CASE WriteBlock
  <2>1. /\ file' \in Files /\ file'.bytes_before <= file'.inode.file_size
        /\ file'.inode = file.inode
    BY <1>12, BlockWritten
  <2>2. ContentReadable(file.inode)'
    BY <1>12, <2>1 DEF WriteBlock, ContentReadable, NBlocks
  <2> QED BY <1>12, <1>a, <2>1, <2>2 DEF WriteBlock
<1>13. CASE WriteTail
  <2>1. /\ file' \in Files /\ file'.bytes_before = file'.inode.file_size
        /\ file'.inode = file.inode /\ file.inode.file_size \in Nat
    BY <1>13, TailWritten, BlockTyped DEF WriteTail
  <2>2. ContentReadable(file.inode)'
    BY <1>13, <2>1 DEF WriteTail, ContentReadable, NBlocks
  <2> QED BY <1>13, <1>a, <2>1, <2>2 DEF WriteTail
<1>14. CASE RejectContent
  BY <1>0, <1>14, <1>a DEF RejectContent
<1>15. CASE CloseFile
  BY <1>0, <1>15, <1>a DEF CloseFile
<1>16. CASE Returned
  BY <1>0, <1>16 DEF Returned, vars, ContentReadable, NBlocks
<1> QED
  BY <1>1, <1>2, <1>3, <1>4, <1>5, <1>6, <1>7, <1>8, <1>9, <1>10, <1>11,
     <1>12, <1>13, <1>14, <1>15, <1>16
  DEF Next, walk_directory, process_dir_entry, extract_regular_file

\* TypeInv holds of every reachable state.
LEMMA TypeInvHolds == Spec => []TypeInv
  BY TypeInit, TypeStep, PTL DEF Spec

\* The variables keep their types: in particular no subtraction of the walk
\* leaves the naturals, so none of the C code's unsigned ones wraps.
THEOREM TypeCorrect == Spec => []TypeOK
<1>1. TypeInv => TypeOK
  BY DEF TypeInv
<1> QED BY <1>1, TypeInvHolds, PTL

-----------------------------------------------------------------------------
(* The walk.                                                               *)

\* Where a frame starts and ends in the directory table.
InListing(frame, m) ==
    \E x \in DOMAIN m.inode :
      /\ m.inode[x].dir <= frame.pos
      /\ frame.pos + frame.remaining = m.inode[x].dir + m.inode[x].dir_size - 3

\* Every step keeps the frames in their listings and their number bounded.
LEMMA WalkStep ==
    ASSUME TypeInv, TypeInv', WalkInListing, StackBounded, [Next]_vars
    PROVE  WalkInListing' /\ StackBounded'
<1> USE DEF StackBounded
<1>0. /\ TypeOK /\ TypeOK' /\ ImageOK(im) /\ MAX_DIR_DEPTH \in Nat
      /\ stack \in Seq(Frames) /\ Len(stack) \in Nat
      /\ \A x \in DOMAIN im.inode : InodeOK(im.inode[x])
  BY FsTreeAssumption DEF TypeInv, TypeOK, ImageOK
<1>b. /\ WalkInListing  <=> \A i \in 1 .. Len(stack) : InListing(stack[i], im)
      /\ WalkInListing' <=> \A i \in 1 .. Len(stack') : InListing(stack'[i], im')
  BY DEF WalkInListing, InListing
<1>1. CASE stack' = stack /\ im' = im
  BY <1>1, <1>b
<1>2. CASE stack' = <<>>
  BY <1>0, <1>2, <1>b
<1>3. ASSUME NEW frames \in Seq(Frames), im' = im, Len(frames) = Len(stack),
             \A i \in 1 .. Len(stack) :
                /\ frames[i].pos >= stack[i].pos
                /\ frames[i].pos + frames[i].remaining
                     = stack[i].pos + stack[i].remaining
      PROVE  \A i \in 1 .. Len(stack) : InListing(frames[i], im)
  <2> SUFFICES ASSUME NEW i \in 1 .. Len(stack) PROVE InListing(frames[i], im)
    OBVIOUS
  <2>1. PICK x \in DOMAIN im.inode :
          /\ im.inode[x].dir <= stack[i].pos
          /\ stack[i].pos + stack[i].remaining
               = im.inode[x].dir + im.inode[x].dir_size - 3
    BY <1>b DEF InListing
  <2>2. im.inode[x].dir \in Int
    BY <1>0, <2>1 DEF InodeOK, Inodes, NoPos
  <2>3. stack[i] \in Frames /\ frames[i] \in Frames
    BY <1>0, <1>3
  <2>4. stack[i].pos \in Nat /\ frames[i].pos \in Nat
    BY <2>3 DEF Frames
  <2>5. im.inode[x].dir <= frames[i].pos
    BY <1>3, <2>1, <2>2, <2>4
  <2> QED BY <1>3, <2>1, <2>5 DEF InListing
<1>4. ASSUME NEW frames \in Seq(Frames), NEW depth \in Nat, im' = im,
             Len(frames) = depth,
             depth <= MAX_DIR_DEPTH,
             \A i \in 1 .. depth : InListing(frames[i], im),
             NEW x \in DOMAIN im.inode, Enterable(im.inode[x], depth),
             NEW path \in Seq(Names), NEW plen \in Nat,
             stack' = Entered(frames, im.inode[x], path, plen)
      PROVE  WalkInListing' /\ StackBounded'
  <2> DEFINE r == im.inode[x]
             sub == Frame(r, path, plen)
  <2>1. \/ stack' = frames
        \/ /\ stack' = Append(frames, sub) /\ sub \in Frames
           /\ sub.pos = r.dir
           /\ sub.pos + sub.remaining = r.dir + r.dir_size - 3
    <3>1. InodeOK(r)
      BY <1>0, <1>4
    <3> HIDE DEF r
    <3>2. /\ frames \in Seq(Frames) /\ depth \in Nat /\ Enterable(r, depth)
          /\ path \in Seq(Names) /\ plen \in Nat
          /\ stack' = Entered(frames, r, path, plen)
      BY <1>4 DEF r
    <3> QED BY <3>1, <3>2, EnteredFrames
  <2>2. CASE stack' = frames
    BY <1>0, <1>b, <1>4, <2>2
  <2>3. CASE /\ stack' = Append(frames, sub) /\ sub \in Frames
             /\ sub.pos = r.dir
             /\ sub.pos + sub.remaining = r.dir + r.dir_size - 3
    <3>1. sub.pos \in Nat
      BY <2>3 DEF Frames
    <3>2. InListing(sub, im)
      BY <2>3, <3>1 DEF InListing
    <3> HIDE DEF sub
    <3>3. Len(stack') = depth + 1
      BY <1>4, <2>3
    <3>4. ASSUME NEW i \in 1 .. depth + 1 PROVE InListing(stack'[i], im)
      <4>1. CASE i <= depth
        <5>1. stack'[i] = frames[i] /\ i \in 1 .. depth
          BY <1>4, <2>3, <4>1
        <5> QED BY <1>4, <5>1
      <4>2. CASE i = depth + 1
        BY <1>4, <2>3, <3>2, <4>2
      <4> QED BY <1>4, <4>1, <4>2
    <3> QED BY <1>0, <1>b, <1>4, <3>3, <3>4
  <2> QED BY <2>1, <2>2, <2>3
<1>5. CASE Start
  <2>1. CASE RootAccepted /\ im' = im
             /\ stack' = Entered(<<>>, im.inode[im.root], <<>>, 0)
    <3>1. /\ im.root \in DOMAIN im.inode /\ Enterable(im.inode[im.root], 0)
      BY <2>1 DEF RootAccepted
    <3>2. /\ <<>> \in Seq(Frames) /\ Len(<<>>) = 0 /\ <<>> \in Seq(Names)
          /\ 0 <= MAX_DIR_DEPTH /\ 0 \in Nat /\ \A i \in 1 .. 0 : FALSE
      BY <1>0
    <3> QED BY <1>4, <2>1, <3>1, <3>2
  <2> QED BY <1>2, <1>5, <2>1 DEF Start, Fail
<1>6. CASE EnterDirectory
  <2>1. /\ AtEntry /\ EntryAccepted /\ Enterable(ChildNode, Len(stack)) /\ im' = im
        /\ stack' = Entered(Advanced, ChildNode, ChildPath, ChildLen)
    BY <1>6 DEF EnterDirectory
  <2>2. /\ ChildRef \in DOMAIN im.inode /\ ChildNode = im.inode[ChildRef]
        /\ Len(stack) <= MAX_DIR_DEPTH
    BY <2>1 DEF EntryAccepted, ChildNode, Enterable
  <2>3. /\ Advanced \in Seq(Frames) /\ Len(Advanced) = Len(stack)
        /\ \A i \in 1 .. Len(stack) :
              /\ Advanced[i].pos >= stack[i].pos
              /\ Advanced[i].pos + Advanced[i].remaining
                   = stack[i].pos + stack[i].remaining
        /\ ChildPath \in Seq(Names) /\ ChildLen \in Nat
    BY <1>0, <2>1, AdvancedFrames, ChildTyped
  <2>4. \A i \in 1 .. Len(stack) : InListing(Advanced[i], im)
    BY <1>3, <2>1, <2>3
  <2> QED BY <1>0, <1>4, <2>1, <2>2, <2>3, <2>4
<1>7. CASE ReadHeader
  <2>1. im' = im
    BY <1>7 DEF ReadHeader
  <2>2. /\ stack' \in Seq(Frames) /\ Len(stack') = Len(stack)
        /\ \A i \in 1 .. Len(stack) :
              /\ stack'[i].pos >= stack[i].pos
              /\ stack'[i].pos + stack'[i].remaining
                   = stack[i].pos + stack[i].remaining
    BY <1>0, <1>7, HeaderFrames
  <2> QED BY <1>b, <1>3, <2>1, <2>2
<1>8. CASE VisitOther \/ VisitRegular
  <2>1. AtEntry /\ EntryAccepted /\ im' = im /\ stack' = Advanced
    BY <1>8 DEF VisitOther, VisitRegular
  <2>2. /\ Advanced \in Seq(Frames) /\ Len(Advanced) = Len(stack)
        /\ \A i \in 1 .. Len(stack) :
              /\ Advanced[i].pos >= stack[i].pos
              /\ Advanced[i].pos + Advanced[i].remaining
                   = stack[i].pos + stack[i].remaining
    BY <1>0, <2>1, AdvancedFrames
  <2> QED BY <1>b, <1>3, <2>1, <2>2
<1>9. CASE LeaveDirectory
  <2>1. im' = im /\ stack # <<>> /\ stack' = SubSeq(stack, 1, Len(stack) - 1)
    BY <1>9 DEF LeaveDirectory, Front
  <2>2. /\ Len(stack') = Len(stack) - 1
        /\ \A i \in 1 .. Len(stack) - 1 : stack'[i] = stack[i]
    BY <1>0, <2>1, PrefixOfSequence
  <2> QED BY <1>0, <1>b, <2>1, <2>2
<1>10. CASE RejectHeader \/ RejectEntry \/ RejectDirectory \/ RejectRegular
            \/ RejectContent
  BY <1>2, <1>10
  DEF RejectHeader, RejectEntry, RejectDirectory, RejectRegular, RejectContent, Fail
<1>11. CASE WriteBlock \/ WriteTail \/ CloseFile \/ Returned \/ UNCHANGED vars
  BY <1>1, <1>11 DEF WriteBlock, WriteTail, CloseFile, Returned, vars
<1> QED
  BY <1>5, <1>6, <1>7, <1>8, <1>9, <1>10, <1>11
  DEF Next, walk_directory, process_dir_entry, extract_regular_file

\* Whatever the image holds, no directory is read on beyond the end of its
\* listing, and the recursion stays within MAX_DIR_DEPTH + 1 frames.
LEMMA WalkBounded == Spec => [](WalkInListing /\ StackBounded)
<1>1. Init => WalkInListing /\ StackBounded
  BY FsTreeAssumption DEF Init, WalkInListing, StackBounded
<1>2. TypeInv /\ TypeInv' /\ (WalkInListing /\ StackBounded) /\ [Next]_vars
        => (WalkInListing /\ StackBounded)'
  BY WalkStep
<1> QED BY <1>1, <1>2, TypeInvHolds, PTL DEF Spec

\* The cursor of every directory being walked stays inside the listing the
\* directory's inode declares (walk_directory's and process_dir_entry's
\* `remaining').
THEOREM WalkInListingHolds == Spec => []WalkInListing
  BY WalkBounded, PTL

\* The recursion of walk_directory is never deeper than MAX_DIR_DEPTH + 1
\* frames, cycles among the directories included.
THEOREM StackBoundedHolds == Spec => []StackBounded
  BY WalkBounded, PTL

-----------------------------------------------------------------------------
(* The content of the files.                                               *)

\* The pieces so far are the ones the inode describes.
Described(r, pieces) ==
    /\ r.file_size <= MAX_EXTRACTED_FILE_SIZE
    /\ Len(pieces) <= NPieces(r)
    /\ \A i \in 1 .. Len(pieces) : PieceIs(pieces, i, r)

\* Every regular file on the disk is as its inode describes it, and whole
\* unless it is being written or torn.
OnDisk ==
    \A path \in DOMAIN disk : disk[path].kind = "reg" =>
      /\ Described(disk[path].inode, disk[path].pieces)
      /\ \/ Len(disk[path].pieces) = NPieces(disk[path].inode)
         \/ pc = "file" /\ file.path = path
         \/ disk[path].torn

\* The file being written: what it holds on the disk, and that bytes_before
\* and block_offset are where the pieces so far end.
BeingWritten ==
    pc = "file" =>
      LET r == file.inode
          n == Len(file.pieces)
          b == im.block_size
      IN  /\ file.path \in DOMAIN disk
          /\ disk[file.path] = Regular(r, file.pieces, FALSE)
          /\ file.bytes_before = IF n <= NBlocks(r) /\ b * n <= r.file_size
                                 THEN b * n ELSE r.file_size
          /\ n <= NBlocks(r) =>
               file.block_offset = IF n = 0 THEN r.start
                                   ELSE file.pieces[n].at + r.sizes[n].size

FileInv == OnDisk /\ BeingWritten

\* The piece a step adds is the one the inode describes next.
LEMMA NextPiece ==
    ASSUME NEW r, NEW pieces \in Seq(Pieces), NEW piece \in Pieces,
           Described(r, pieces), Len(pieces) + 1 <= NPieces(r),
           PieceIs(Append(pieces, piece), Len(pieces) + 1, r)
    PROVE  Described(r, Append(pieces, piece))
<1> DEFINE n    == Len(pieces)
           more == Append(pieces, piece)
<1>1. n \in Nat /\ Len(more) = n + 1 /\ \A i \in 1 .. n : more[i] = pieces[i]
  OBVIOUS
<1>2. ASSUME NEW i \in 1 .. n PROVE PieceIs(more, i, r)
  <2>1. PieceIs(pieces, i, r) /\ more[i] = pieces[i]
        /\ (i # 1 => more[i - 1] = pieces[i - 1])
    BY <1>1 DEF Described
  <2> HIDE DEF more
  <2> QED BY <2>1 DEF PieceIs
<1>3. \A i \in 1 .. n + 1 : i \in 1 .. n \/ i = n + 1
  BY <1>1
<1>4. \A i \in 1 .. Len(more) : PieceIs(more, i, r)
  BY <1>1, <1>2, <1>3
<1> QED BY <1>1, <1>4 DEF Described

\* What a failed fclose or remove leaves of a file is a beginning of it.
LEMMA TornDescribed ==
    ASSUME file.pieces \in Seq(Pieces), NPieces(file.inode) \in Nat,
           Described(file.inode, file.pieces), NEW left \in Torn
    PROVE  left.kind = "reg" /\ left.torn /\ Described(left.inode, left.pieces)
<1>1. PICK n \in 0 .. Len(file.pieces) :
        left = Regular(file.inode, SubSeq(file.pieces, 1, n), TRUE)
  BY DEF Torn
<1> DEFINE r == file.inode
           s == file.pieces
           t == SubSeq(s, 1, n)
<1>2. Len(s) \in Nat /\ n \in Nat /\ n <= Len(s) /\ Len(s) <= NPieces(r)
  BY DEF Described
<1>3. Len(t) = n /\ \A i \in 1 .. n : t[i] = s[i]
  <2> HIDE DEF s
  <2>1. \A i \in 1 .. n : i \in 1 .. Len(s)
    BY <1>2
  <2> QED BY <1>2, <2>1
<1> HIDE DEF t
<1>4. ASSUME NEW i \in 1 .. n PROVE PieceIs(t, i, r)
  <2>1. i \in 1 .. Len(s) /\ t[i] = s[i] /\ (i # 1 => t[i - 1] = s[i - 1])
    BY <1>2, <1>3
  <2>2. PieceIs(s, i, r)
    BY <2>1 DEF Described
  <2> HIDE DEF s, r
  <2> QED BY <2>1, <2>2 DEF PieceIs
<1>5. Described(r, t)
  BY <1>2, <1>3, <1>4 DEF Described
<1> QED BY <1>1, <1>5 DEF Regular, t

\* A data block or a hole: where it begins is where the blocks so far end.
LEMMA BlockStep ==
    ASSUME TypeInv, FileInv, WriteBlock
    PROVE  /\ Described(file.inode, file'.pieces)
           /\ BeingWritten'
<1> DEFINE r == file.inode
           n == Len(file.pieces)
           b == im.block_size
           s == r.file_size
           z == NextSize.size
           piece == [kind |-> IF z = 0 THEN "hole" ELSE "block",
                     at |-> file.block_offset, len |-> expected_len]
<1>1. /\ pc = "file" /\ pc' = "file" /\ im' = im /\ MoreBlocks
      /\ file'.path = file.path /\ file'.inode = r
      /\ file'.pieces = Append(file.pieces, piece)
      /\ file'.block_offset = file.block_offset + z
      /\ file'.bytes_before = file.bytes_before + expected_len
      /\ disk' = [disk EXCEPT ![file.path] = Regular(r, file'.pieces, FALSE)]
  BY BlockWritten DEF WriteBlock
<1>2. /\ r \in Inodes /\ file.pieces \in Seq(Pieces) /\ s \in Nat
      /\ b \in Nat \ {0} /\ NBlocks(r) \in Nat /\ n \in Nat
      /\ z \in Nat /\ file.block_offset \in Nat /\ expected_len \in Nat
  BY <1>1, BlockTyped
<1>3. /\ file.path \in DOMAIN disk /\ disk[file.path] = Regular(r, file.pieces, FALSE)
      /\ file.bytes_before = IF n <= NBlocks(r) /\ b * n <= s THEN b * n ELSE s
      /\ n <= NBlocks(r) =>
           file.block_offset = IF n = 0 THEN r.start
                               ELSE file.pieces[n].at + r.sizes[n].size
  BY <1>1 DEF FileInv, BeingWritten
<1>4. n < NBlocks(r) /\ z = r.sizes[n + 1].size
  BY <1>1 DEF MoreBlocks, NextSize
<1>5. b * n <= s /\ b * (n + 1) = b * n + b /\ b * n \in Nat
  <2>1. NBlocks(r) = (s + b - 1) \div b \/ NBlocks(r) = s \div b
    BY DEF NBlocks
  <2>2. /\ n < (s + b - 1) \div b => b * n <= s
        /\ n <= s \div b => b * n <= s
        /\ b * (n + 1) = b * n + b /\ b * n \in Nat
    BY <1>2, BlocksFit
  <2>3. s \div b \in Nat
    BY <1>2
  <2> QED BY <1>2, <1>4, <2>1, <2>2, <2>3
<1>6. file.bytes_before = b * n
  BY <1>2, <1>3, <1>4, <1>5
<1>7. expected_len = IF b * n + b <= s THEN b ELSE s - b * n
  BY <1>2, <1>5, <1>6 DEF expected_len
<1>8. piece \in Pieces
  BY <1>2 DEF Pieces
<1>9. /\ piece.kind = IF z = 0 THEN "hole" ELSE "block"
      /\ piece.at = file.block_offset /\ piece.len = expected_len
  OBVIOUS
<1>10. Described(r, file.pieces)
  BY <1>1, <1>3 DEF FileInv, OnDisk, Regular
<1> DEFINE more == file'.pieces
<1>11. /\ Len(more) = n + 1 /\ more[n + 1] = piece
       /\ (n # 0 => more[n] = file.pieces[n])
  <2> HIDE DEF piece
  <2> QED BY <1>1, <1>2, <1>8
<1>12. PieceIs(more, n + 1, r)
  <2>1. (n + 1) - 1 = n /\ n + 1 <= NBlocks(r) /\ (n + 1 = 1 <=> n = 0)
    BY <1>2, <1>4
  <2>2. piece.at = IF n + 1 = 1 THEN r.start ELSE more[n].at + r.sizes[n].size
    BY <1>2, <1>3, <1>4, <1>9, <1>11, <2>1
  <2> HIDE DEF piece, more
  <2>3. piece = [kind |-> IF r.sizes[n + 1].size = 0 THEN "hole" ELSE "block",
                 at   |-> IF n + 1 = 1 THEN r.start
                          ELSE more[n].at + r.sizes[n].size,
                 len  |-> IF b * n + b <= s THEN b ELSE s - b * n]
    BY <1>4, <1>7, <2>2 DEF piece
  <2> QED BY <1>11, <2>1, <2>3 DEF PieceIs
<1>13. n + 1 <= NPieces(r)
  BY <1>2, <1>4 DEF NPieces
<1>14. Described(r, more)
  <2> HIDE DEF piece
  <2> QED BY <1>1, <1>2, <1>8, <1>10, <1>12, <1>13, NextPiece
<1>15. BeingWritten'
  <2> HIDE DEF piece, more
  <2>1. file'.path \in DOMAIN disk' /\ disk'[file'.path] = Regular(r, more, FALSE)
    BY <1>1, <1>3 DEF more
  <2>2. file'.bytes_before
          = IF n + 1 <= NBlocks(r) /\ b * (n + 1) <= s THEN b * (n + 1) ELSE s
    <3>1. \A m \in Nat : m <= s => m + (s - m) = s
      BY <1>2
    <3>2. n + 1 <= NBlocks(r)
      BY <1>2, <1>4
    <3>3. CASE b * n + b <= s
      BY <1>1, <1>5, <1>6, <1>7, <3>2, <3>3
    <3>4. CASE ~(b * n + b <= s)
      BY <1>1, <1>5, <1>6, <1>7, <3>1, <3>2, <3>4
    <3> QED BY <3>3, <3>4
  <2>3. file'.block_offset = more[n + 1].at + r.sizes[n + 1].size
    BY <1>1, <1>4, <1>9, <1>11 DEF more, piece
  <2>4. n + 1 # 0
    BY <1>2
  <2>5. NBlocks(file.inode)' = NBlocks(r)
    BY <1>1 DEF NBlocks
  <2> QED BY <1>1, <1>11, <2>1, <2>2, <2>3, <2>4, <2>5 DEF BeingWritten, more, Regular
<1> QED BY <1>14, <1>15

\* The tail: it begins where the whole blocks end.
LEMMA TailStep ==
    ASSUME TypeInv, FileInv, WriteTail
    PROVE  /\ Described(file.inode, file'.pieces)
           /\ BeingWritten'
<1> DEFINE r == file.inode
           n == Len(file.pieces)
           b == im.block_size
           s == r.file_size
           piece == [kind |-> "tail", at |-> r.frag_offset, len |-> tail_len]
<1>1. /\ pc = "file" /\ pc' = "file" /\ im' = im /\ TailDue
      /\ file'.path = file.path /\ file'.inode = r
      /\ file'.pieces = Append(file.pieces, piece)
      /\ file'.bytes_before = s
      /\ disk' = [disk EXCEPT ![file.path] = Regular(r, file'.pieces, FALSE)]
  BY TailWritten DEF WriteTail
<1>2. /\ r \in Inodes /\ file.pieces \in Seq(Pieces) /\ s \in Nat
      /\ b \in Nat \ {0} /\ NBlocks(r) \in Nat /\ n \in Nat /\ tail_len \in Nat
  BY <1>1, BlockTyped
<1>3. /\ file.path \in DOMAIN disk /\ disk[file.path] = Regular(r, file.pieces, FALSE)
      /\ file.bytes_before = IF n <= NBlocks(r) /\ b * n <= s THEN b * n ELSE s
  BY <1>1 DEF FileInv, BeingWritten
<1>4. n = NBlocks(r) /\ r.frag # NoFrag
  BY <1>1 DEF TailDue
<1>5. b * n <= s
  BY <1>2, <1>4, BlocksFit DEF NBlocks
<1>6. tail_len = s - b * n
  BY <1>2, <1>3, <1>4, <1>5 DEF tail_len
<1>7. piece \in Pieces
  BY <1>1, <1>2 DEF Pieces, Inodes
<1>8. Described(r, file.pieces)
  BY <1>1, <1>3 DEF FileInv, OnDisk, Regular
<1> DEFINE more == file'.pieces
<1>9. Len(more) = n + 1 /\ more[n + 1] = piece
  <2> HIDE DEF piece
  <2> QED BY <1>1, <1>2, <1>7
<1>10. PieceIs(more, n + 1, r)
  <2>1. (n + 1) - 1 = n /\ ~(n + 1 <= NBlocks(r))
    BY <1>2, <1>4
  <2> HIDE DEF more
  <2> QED BY <1>6, <1>9, <2>1 DEF PieceIs
<1>11. n + 1 <= NPieces(r)
  BY <1>2, <1>4 DEF NPieces
<1>12. Described(r, more)
  <2> HIDE DEF piece
  <2> QED BY <1>1, <1>2, <1>7, <1>8, <1>10, <1>11, NextPiece
<1>13. BeingWritten'
  <2> HIDE DEF piece, more
  <2>1. file'.path \in DOMAIN disk' /\ disk'[file'.path] = Regular(r, more, FALSE)
    BY <1>1, <1>3 DEF more
  <2>2. NBlocks(file.inode)' = NBlocks(r) /\ ~(n + 1 <= NBlocks(r))
    BY <1>1, <1>2, <1>4 DEF NBlocks
  <2> QED BY <1>1, <1>9, <2>1, <2>2 DEF BeingWritten, more, Regular
<1> QED BY <1>12, <1>13

\* Every step keeps the files as their inodes describe them.
LEMMA FileStep ==
    ASSUME TypeInv, FileInv, [Next]_vars
    PROVE  FileInv'
<1>a. ASSUME im' = im
      PROVE  \A r, pieces : /\ Described(r, pieces)' <=> Described(r, pieces)
                            /\ NPieces(r)' = NPieces(r)
  BY <1>a DEF Described, NPieces, PieceIs, NBlocks
<1>1. CASE UNCHANGED <<im, disk, file, pc>>
  BY <1>1, <1>a DEF FileInv, OnDisk, BeingWritten, Regular, NBlocks
<1>2. ASSUME im' = im, pc # "file", pc' # "file",
             NEW path, disk' = disk \/ disk' = Put(disk, path, Dir)
      PROVE  FileInv'
  <2>1. \A q \in DOMAIN disk' : disk'[q].kind = "reg" => q \in DOMAIN disk /\ disk'[q] = disk[q]
    BY <1>2 DEF Put, Dir
  <2>2. ASSUME NEW q \in DOMAIN disk', disk'[q].kind = "reg"
        PROVE  /\ Described(disk'[q].inode, disk'[q].pieces)
               /\ Len(disk'[q].pieces) = NPieces(disk'[q].inode) \/ disk'[q].torn
    BY <1>2, <2>1, <2>2 DEF FileInv, OnDisk
  <2>3. OnDisk'
    BY <1>2, <1>a, <2>2 DEF OnDisk
  <2> QED BY <1>2, <2>3 DEF FileInv, BeingWritten
<1>3. CASE VisitRegular
  <2>1. /\ pc = "walk" /\ pc' = "file" /\ im' = im
        /\ AtEntry /\ EntryAccepted /\ ContentReadable(ChildNode)
        /\ mode = "extract"
        /\ disk' = Put(disk, ChildPath, Regular(ChildNode, <<>>, FALSE))
        /\ file' = [path |-> ChildPath, inode |-> ChildNode, pieces |-> <<>>,
                    block_offset |-> ChildNode.start, bytes_before |-> 0]
    BY <1>3 DEF VisitRegular, AtEntry, EntryAccepted
  <2>2. ChildNode \in Inodes /\ ChildNode.file_size \in Nat
        /\ im.block_size \in Nat \ {0}
    BY <2>1, ChildTyped DEF TypeInv, TypeOK, Readable, ImageOK, Inodes
  <2>3. NBlocks(ChildNode) \in Nat
    <3>1. \A s \in Nat, d \in Nat \ {0} :
            (s + d - 1) \div d \in Nat /\ s \div d \in Nat
      OBVIOUS
    <3> QED BY <2>2, <3>1 DEF NBlocks
  <2>4. Described(ChildNode, <<>>)
    BY <2>1, <2>3 DEF Described, ContentReadable, NPieces
  <2>5. /\ disk' = Put(disk, file'.path, Regular(file'.inode, file'.pieces, FALSE))
        /\ file'.path = ChildPath /\ file'.inode = ChildNode /\ file'.pieces = <<>>
        /\ file'.block_offset = ChildNode.start /\ file'.bytes_before = 0
    BY <2>1
  <2>6. OnDisk'
    BY <1>a, <2>1, <2>4, <2>5 DEF FileInv, OnDisk, Put, Regular
  <2>7. NBlocks(file.inode)' = NBlocks(ChildNode) /\ im.block_size * 0 = 0
    BY <2>1, <2>2, <2>5 DEF NBlocks
  <2>8. file'.path \in DOMAIN disk' /\ disk'[file'.path] = Regular(file'.inode, file'.pieces, FALSE)
    BY <2>5 DEF Put
  <2>9. BeingWritten'
    BY <2>1, <2>2, <2>3, <2>5, <2>7, <2>8 DEF BeingWritten, Regular
  <2> QED BY <2>6, <2>9 DEF FileInv
<1>4. ASSUME im' = im, pc = "file", pc' = "file", file'.path = file.path,
             disk' = [disk EXCEPT ![file.path] = Regular(file.inode, file'.pieces, FALSE)],
             Described(file.inode, file'.pieces), BeingWritten'
      PROVE  FileInv'
  <2>1. OnDisk'
    BY <1>4, <1>a DEF FileInv, OnDisk, Regular
  <2> QED BY <1>4, <2>1 DEF FileInv
<1>5. CASE WriteBlock
  BY <1>4, <1>5, BlockStep, BlockWritten DEF WriteBlock
<1>6. CASE WriteTail
  BY <1>4, <1>6, TailStep, TailWritten DEF WriteTail
<1>7. ASSUME im' = im, pc = "file", pc' # "file",
             \/ disk' = Without(disk, file.path)
             \/ \E left \in Torn : disk' = [disk EXCEPT ![file.path] = left]
      PROVE  FileInv'
  <2>1. Described(file.inode, file.pieces)
    BY <1>7 DEF FileInv, OnDisk, BeingWritten, Regular
  <2>2. NBlocks(file.inode) \in Nat /\ file.pieces \in Seq(Pieces)
    BY <1>7, BlockTyped
  <2>3. NPieces(file.inode) \in Nat
    BY <2>2 DEF NPieces
  <2>4. \A left \in Torn : left.torn /\ Described(left.inode, left.pieces)
    BY <2>1, <2>2, <2>3, TornDescribed
  <2>5. /\ DOMAIN disk' \subseteq DOMAIN disk
        /\ \A q \in DOMAIN disk' : \/ q # file.path /\ disk'[q] = disk[q]
                                   \/ q = file.path /\ disk'[q] \in Torn
    BY <1>7 DEF Without
  <2>6. ASSUME NEW q \in DOMAIN disk', disk'[q].kind = "reg"
        PROVE  /\ Described(disk'[q].inode, disk'[q].pieces)
               /\ \/ Len(disk'[q].pieces) = NPieces(disk'[q].inode)
                  \/ disk'[q].torn
    <3>1. CASE q # file.path /\ disk'[q] = disk[q]
      BY <2>5, <2>6, <3>1 DEF FileInv, OnDisk
    <3>2. CASE disk'[q] \in Torn
      BY <2>4, <3>2
    <3> QED BY <2>5, <3>1, <3>2
  <2>7. OnDisk'
    BY <1>7, <1>a, <2>6 DEF OnDisk
  <2> QED BY <1>7, <2>7 DEF FileInv, BeingWritten
<1>8. CASE CloseFile
  <2>1. /\ im' = im /\ pc = "file" /\ pc' = "walk" /\ ~MoreBlocks /\ ~TailDue
        /\ disk' = disk \/ \E left \in Torn : disk' = [disk EXCEPT ![file.path] = left]
    BY <1>8 DEF CloseFile
  <2>2. CASE disk' = disk
    <3>2. /\ disk[file.path] = Regular(file.inode, file.pieces, FALSE)
          /\ file.path \in DOMAIN disk
      BY <2>1 DEF FileInv, BeingWritten
    <3>3. Len(file.pieces) <= NPieces(file.inode)
      BY <3>2 DEF FileInv, OnDisk, Regular, Described
    <3>4. NBlocks(file.inode) \in Nat /\ Len(file.pieces) \in Nat
      BY <2>1, BlockTyped
    <3>5. Len(file.pieces) = NPieces(file.inode)
      BY <2>1, <3>3, <3>4 DEF NPieces, MoreBlocks, TailDue
    <3> QED BY <1>a, <2>1, <2>2, <3>2, <3>5 DEF FileInv, OnDisk, BeingWritten, Regular
  <2> QED BY <1>7, <2>1, <2>2
<1>12. CASE RejectContent
  <2>1. /\ im' = im /\ pc = "file" /\ pc' # "file"
        /\ \/ disk' = Without(disk, file.path)
           \/ \E left \in Torn : disk' = [disk EXCEPT ![file.path] = left]
    BY <1>12 DEF RejectContent, Fail
  <2> QED BY <1>7, <2>1
<1>9. CASE EnterDirectory \/ RejectDirectory
  <2>1. /\ im' = im /\ pc = "walk" /\ pc' # "file"
        /\ disk' = disk \/ disk' = Put(disk, ChildPath, Dir)
    BY <1>9 DEF EnterDirectory, RejectDirectory, AtEntry, Fail
  <2> QED BY <1>2, <2>1
<1>10. CASE Start \/ ReadHeader \/ RejectHeader \/ LeaveDirectory \/ RejectEntry
            \/ VisitOther \/ RejectRegular
  <2>1. im' = im /\ pc # "file" /\ pc' # "file" /\ disk' = disk
    BY <1>10 DEF Start, ReadHeader, RejectHeader, LeaveDirectory, RejectEntry,
       VisitOther, RejectRegular, AtHeader, AtEntry, Fail
  <2> QED BY <1>2, <2>1
<1>11. CASE Returned \/ UNCHANGED vars
  BY <1>1, <1>11 DEF Returned, vars
<1> QED
  BY <1>3, <1>5, <1>6, <1>8, <1>9, <1>10, <1>11, <1>12
  DEF Next, walk_directory, process_dir_entry, extract_regular_file

\* Whatever the image holds, a file that is extracted consists of exactly the
\* blocks, holes and tail its inode describes, is not larger than the cap, and
\* misses no piece once it is closed, unless its own fclose or remove has
\* failed (extract_regular_file, write_data_block).
THEOREM FileIsItsInodeHolds == Spec => []FileIsItsInode
<1>1. Init => FileInv
  BY DEF Init, FileInv, OnDisk, BeingWritten
<1>2. TypeInv /\ FileInv /\ [Next]_vars => FileInv'
  BY FileStep
<1>3. FileInv => FileIsItsInode
  BY DEF FileInv, OnDisk, Described, FileIsItsInode
<1> QED BY <1>1, <1>2, <1>3, TypeInvHolds, PTL DEF Spec

-----------------------------------------------------------------------------
(* The disk and the list.                                                  *)

IsList(l) == \E S : l \in Seq(S)

\* The list after one more entry.
LEMMA ListGrows ==
    ASSUME NEW l, IsList(l), NEW x
    PROVE  /\ IsList(Append(l, x)) /\ Len(l) \in Nat
           /\ Len(Append(l, x)) = Len(l) + 1 /\ Append(l, x)[Len(l) + 1] = x
           /\ \A i \in 1 .. Len(l) : i \in 1 .. Len(l) + 1 /\ Append(l, x)[i] = l[i]
           /\ \A i \in 1 .. Len(l) + 1 : i \in 1 .. Len(l) \/ i = Len(l) + 1
           /\ Len(l) + 1 \in 1 .. Len(l) + 1
<1>1. PICK S : l \in Seq(S)
  BY DEF IsList
<1>2. l \in Seq(S \cup {x})
  BY <1>1
<1>3. Append(l, x) \in Seq(S \cup {x})
  BY <1>2
<1> QED BY <1>2, <1>3 DEF IsList

\* Something is listed, and what it is is put on disk where nothing else was.
LEMMA ThingMirrored ==
    ASSUME NEW tree, NEW list, NEW path, NEW x, NEW e,
           IsList(list), Mirrors(tree, list), e.path = path, e.kind = x.kind,
           path \in DOMAIN tree => tree[path].kind = x.kind
    PROVE  Mirrors(Put(tree, path, x), Append(list, e))
<1> DEFINE t == Put(tree, path, x)
           l == Append(list, e)
<1>1. /\ DOMAIN t = DOMAIN tree \cup {path} /\ t[path] = x
      /\ \A q \in DOMAIN tree : q # path => t[q] = tree[q]
  BY DEF Put
<1>2. /\ Len(list) \in Nat /\ Len(l) = Len(list) + 1 /\ l[Len(list) + 1] = e
      /\ \A i \in 1 .. Len(list) : i \in 1 .. Len(list) + 1 /\ l[i] = list[i]
      /\ \A i \in 1 .. Len(list) + 1 : i \in 1 .. Len(list) \/ i = Len(list) + 1
      /\ Len(list) + 1 \in 1 .. Len(list) + 1
  BY ListGrows
<1> HIDE DEF t, l
<1>3. ASSUME NEW q \in DOMAIN t
      PROVE  \E i \in 1 .. Len(l) : l[i].path = q /\ l[i].kind = t[q].kind
  <2>1. CASE q = path
    BY <1>1, <1>2, <2>1
  <2>2. CASE q # path
    <3>1. PICK i \in 1 .. Len(list) : list[i].path = q /\ list[i].kind = tree[q].kind
      BY <1>1, <2>2 DEF Mirrors
    <3> QED BY <1>1, <1>2, <2>2, <3>1
  <2> QED BY <2>1, <2>2
<1>4. ASSUME NEW i \in 1 .. Len(l), l[i].kind # "other"
      PROVE  l[i].path \in DOMAIN t /\ t[l[i].path].kind = l[i].kind
  <2>1. CASE i \in 1 .. Len(list)
    <3>1. /\ l[i] = list[i] /\ list[i].path \in DOMAIN tree
          /\ tree[list[i].path].kind = list[i].kind
      BY <1>2, <1>4, <2>1 DEF Mirrors
    <3> QED BY <1>1, <3>1
  <2>2. CASE i = Len(list) + 1
    BY <1>1, <1>2, <2>2
  <2> QED BY <1>2, <2>1, <2>2
<1>5. Mirrors(t, l)
  BY <1>3, <1>4 DEF Mirrors
<1> QED BY <1>5 DEF t, l

\* Something is listed of which nothing is put on disk.
LEMMA OtherMirrored ==
    ASSUME NEW tree, NEW list, NEW e, IsList(list), Mirrors(tree, list), e.kind = "other"
    PROVE  Mirrors(tree, Append(list, e))
<1> DEFINE l == Append(list, e)
<1>1. /\ Len(list) \in Nat /\ Len(l) = Len(list) + 1 /\ l[Len(list) + 1] = e
      /\ \A i \in 1 .. Len(list) : i \in 1 .. Len(list) + 1 /\ l[i] = list[i]
      /\ \A i \in 1 .. Len(list) + 1 : i \in 1 .. Len(list) \/ i = Len(list) + 1
  BY ListGrows
<1> HIDE DEF l
<1>2. ASSUME NEW q \in DOMAIN tree
      PROVE  \E i \in 1 .. Len(l) : l[i].path = q /\ l[i].kind = tree[q].kind
  <2>1. PICK i \in 1 .. Len(list) : list[i].path = q /\ list[i].kind = tree[q].kind
    BY DEF Mirrors
  <2> QED BY <1>1, <2>1
<1>3. ASSUME NEW i \in 1 .. Len(l), l[i].kind # "other"
      PROVE  l[i].path \in DOMAIN tree /\ tree[l[i].path].kind = l[i].kind
  <2>1. i \in 1 .. Len(list) /\ l[i] = list[i]
    BY <1>1, <1>3
  <2> QED BY <1>3, <2>1 DEF Mirrors
<1>4. Mirrors(tree, l)
  BY <1>2, <1>3 DEF Mirrors
<1> QED BY <1>4 DEF l

\* What is on disk is written again, as a thing of the same kind.
LEMMA RewrittenMirrored ==
    ASSUME NEW tree, NEW list, NEW path \in DOMAIN tree, NEW x, Mirrors(tree, list),
           tree[path].kind = x.kind
    PROVE  Mirrors(Put(tree, path, x), list)
<1> DEFINE t == Put(tree, path, x)
<1>1. DOMAIN t = DOMAIN tree /\ \A q \in DOMAIN tree : t[q].kind = tree[q].kind
  BY DEF Put
<1> HIDE DEF t
<1>2. Mirrors(t, list)
  BY <1>1 DEF Mirrors
<1> QED BY <1>2 DEF t

\* Inductive: during an extraction the disk shows the list at any time.
MirrorInv ==
    /\ IsList(out)
    /\ pc = "start" => out = <<>>
    /\ DiskMirrorsList
    /\ pc = "file" => file.path \in DOMAIN disk /\ disk[file.path].kind = "reg"

\* Every step keeps the disk and the list together, or gives up.
LEMMA MirrorStep ==
    ASSUME TypeOK, MirrorInv, [Next]_vars
    PROVE  MirrorInv'
<1> USE DEF MirrorInv, DiskMirrorsList
<1>0. IsList(<<>>)
  BY DEF IsList
<1>1. CASE UNCHANGED vars \/ Returned
  BY <1>1 DEF vars, Returned
<1>2. CASE RejectHeader \/ RejectEntry \/ RejectDirectory \/ RejectRegular \/ RejectContent
  BY <1>0, <1>2
  DEF RejectHeader, RejectEntry, RejectDirectory, RejectRegular, RejectContent, Fail
<1>3. CASE Start
  BY <1>0, <1>3 DEF Start, Fail
<1>4. CASE EnterDirectory
  <2> DEFINE e == ListEntry(ChildPath, ChildNode.type, ChildNode.file_size)
  <2>1. /\ pc = "walk" /\ UNCHANGED <<mode, pc, rc>>
        /\ out' = Append(out, e)
        /\ mode = "extract" => Creatable(disk, ChildPath) /\ disk' = Put(disk, ChildPath, Dir)
    BY <1>4 DEF EnterDirectory, AtEntry, Listed, DirectoryMade
  <2>2. e.path = ChildPath /\ e.kind = Dir.kind
    BY <1>4 DEF EnterDirectory, ListEntry, Dir
  <2>3. Creatable(disk, ChildPath) => (ChildPath \in DOMAIN disk => disk[ChildPath].kind = Dir.kind)
    BY DEF Creatable, Dir
  <2> HIDE DEF e
  <2>4. IsList(out')
    BY <2>1, ListGrows
  <2>5. mode = "extract" /\ rc = 0 => Mirrors(disk', out')
    BY <2>1, <2>2, <2>3, ThingMirrored
  <2> QED BY <2>1, <2>4, <2>5
<1>5. CASE VisitOther
  <2> DEFINE e == ListEntry(ChildPath, ChildNode.type, ChildNode.file_size)
  <2>1. /\ pc = "walk" /\ UNCHANGED <<mode, pc, rc, disk>> /\ out' = Append(out, e)
        /\ mode = "extract" => e.kind = "other"
    BY <1>5 DEF VisitOther, AtEntry, Listed, ListEntry
  <2> HIDE DEF e
  <2>2. IsList(out')
    BY <2>1, ListGrows
  <2>3. mode = "extract" /\ rc = 0 => Mirrors(disk', out')
    BY <2>1, OtherMirrored
  <2> QED BY <2>1, <2>2, <2>3
<1>6. CASE VisitRegular
  <2> DEFINE e == ListEntry(ChildPath, ChildNode.type, ChildNode.file_size)
             r == Regular(ChildNode, <<>>, FALSE)
  <2>1. /\ pc = "walk" /\ pc' = "file" /\ UNCHANGED <<mode, rc>> /\ mode = "extract"
        /\ out' = Append(out, e) /\ disk' = Put(disk, ChildPath, r)
        /\ Openable(disk, ChildPath) /\ file'.path = ChildPath
    BY <1>6 DEF VisitRegular, AtEntry, Listed
  <2>2. e.path = ChildPath /\ e.kind = r.kind /\ r.kind = "reg"
    BY <1>6 DEF VisitRegular, ListEntry, Regular
  <2> HIDE DEF e, r
  <2>3. ChildPath \in DOMAIN disk => disk[ChildPath].kind = r.kind
    BY <2>1, <2>2 DEF Openable
  <2>4. IsList(out')
    BY <2>1, ListGrows
  <2>5. rc = 0 => Mirrors(disk', out')
    BY <2>1, <2>2, <2>3, ThingMirrored
  <2>6. ChildPath \in DOMAIN disk' /\ disk'[ChildPath] = r
    BY <2>1 DEF Put
  <2> QED BY <2>1, <2>2, <2>4, <2>5, <2>6
<1>7. CASE ReadHeader \/ LeaveDirectory
  BY <1>7 DEF ReadHeader, LeaveDirectory, AtHeader
<1>8. ASSUME NEW r, pc = "file", UNCHANGED <<mode, rc, out>>, r.kind = "reg",
             disk' = disk \/ disk' = Put(disk, file.path, r)
      PROVE  /\ IsList(out') /\ DiskMirrorsList'
             /\ file.path \in DOMAIN disk' /\ disk'[file.path].kind = "reg"
  <2>1. CASE disk' = disk
    BY <1>8, <2>1
  <2>2. CASE disk' = Put(disk, file.path, r)
    <3>1. file.path \in DOMAIN disk /\ disk[file.path].kind = r.kind
      BY <1>8
    <3>2. mode = "extract" /\ rc = 0 => Mirrors(disk', out)
      BY <2>2, <3>1, RewrittenMirrored
    <3>3. file.path \in DOMAIN disk' /\ disk'[file.path] = r
      BY <2>2 DEF Put
    <3> QED BY <1>8, <3>2, <3>3
  <2> QED BY <1>8, <2>1, <2>2
<1>9. CASE WriteBlock \/ WriteTail
  <2>1. PICK piece :
          /\ file'.path = file.path
          /\ disk' = [disk EXCEPT ![file.path]
                       = Regular(file.inode, Append(file.pieces, piece), FALSE)]
    BY <1>9 DEF WriteBlock, WriteTail, Written, TypeOK, Files
  <2> DEFINE r == Regular(file.inode, Append(file.pieces, piece), FALSE)
  <2>2. pc = "file" /\ UNCHANGED <<mode, pc, rc, out>> /\ r.kind = "reg"
    BY <1>9 DEF WriteBlock, WriteTail, Regular
  <2>3. disk' = Put(disk, file.path, r)
    BY <2>1, <2>2 DEF Put
  <2> HIDE DEF r
  <2>4. /\ IsList(out') /\ DiskMirrorsList'
        /\ file.path \in DOMAIN disk' /\ disk'[file.path].kind = "reg"
    BY <1>8, <2>2, <2>3
  <2> QED BY <2>1, <2>2, <2>4
<1>10. CASE CloseFile
  <2>1. /\ pc = "file" /\ pc' = "walk" /\ UNCHANGED <<mode, rc, out>>
        /\ disk' = disk \/ \E left \in Torn : disk' = [disk EXCEPT ![file.path] = left]
    BY <1>10 DEF CloseFile
  <2>2. \A left \in Torn : left.kind = "reg"
    BY DEF Torn, Regular
  <2>3. PICK r : r.kind = "reg" /\ (disk' = disk \/ disk' = Put(disk, file.path, r))
    <3>1. Regular(file.inode, <<>>, TRUE).kind = "reg"
      BY DEF Regular
    <3>2. \A left : disk' = [disk EXCEPT ![file.path] = left] => disk' = Put(disk, file.path, left)
      BY <2>1 DEF Put
    <3> QED BY <2>1, <2>2, <3>1, <3>2
  <2>4. IsList(out') /\ DiskMirrorsList'
    BY <1>8, <2>1, <2>3
  <2> QED BY <2>1, <2>4
<1> QED
  BY <1>1, <1>2, <1>3, <1>4, <1>5, <1>6, <1>7, <1>9, <1>10
  DEF Next, walk_directory, process_dir_entry, extract_regular_file

\* For every image, whatever names it repeats, and whichever calls fail: as
\* long as an extraction has not failed, the directories and regular files of
\* its list are on disk, each as what it is listed, and nothing else.
THEOREM DiskMirrorsListHolds == Spec => []DiskMirrorsList
<1>1. Init => MirrorInv
  <2>1. IsList(<<>>)
    BY DEF IsList
  <2> QED BY <2>1 DEF Init, MirrorInv, DiskMirrorsList, Mirrors
<1>2. TypeOK /\ MirrorInv /\ [Next]_vars => MirrorInv'
  BY MirrorStep
<1>3. MirrorInv => DiskMirrorsList
  BY DEF MirrorInv
<1> QED BY <1>1, <1>2, <1>3, TypeCorrect, PTL DEF Spec

-----------------------------------------------------------------------------
(* The lengths of the paths.  StrLen is recursive: that a function with its
   equation exists, and that two such functions agree, follows from the
   least index at which they would not.                                     *)

\* Every non-empty set of natural numbers has a least element.
LEMMA LeastNatural ==
    ASSUME NEW T, T \subseteq Nat, T # {}
    PROVE  \E x \in T : \A y \in T : x <= y
<1>1. IsWellFoundedOn(OpToRel(<, Nat), Nat)
  BY NatLessThanWellFounded
<1> DEFINE R == {ss \in Nat \X Nat : ss[1] < ss[2]}
<1>2. OpToRel(<, Nat) = R
  BY DEF OpToRel
<1>3. IsWellFoundedOn(R, Nat)
  BY <1>1, <1>2
<1>4. \A x, y \in Nat : x < y => <<x, y>> \in R
  OBVIOUS
<1> HIDE DEF R
<1>5. PICK x \in T : \A y \in T : ~ (<<y, x>> \in R)
  BY <1>3, WFMin
<1>6. ASSUME NEW y \in T PROVE x <= y
  <2>1. x \in Nat /\ y \in Nat
    OBVIOUS
  <2>2. ~ (y < x)
    BY <1>4, <1>5, <2>1
  <2> QED BY <2>1, <2>2
<1> QED BY <1>6

\* f is strlen of every prefix of path, up to m names.
IsLengths(path, m, f) ==
    f = [n \in 0 .. m |-> IF n = 0 THEN -1 ELSE f[n - 1] + 1 + NameLen[path[n]]]

\* Names have lengths, and a path has so many of them.
LEMMA NamesHaveLengths ==
    ASSUME NEW path \in Seq(Names)
    PROVE  Len(path) \in Nat /\ \A n \in 1 .. Len(path) : NameLen[path[n]] \in Nat \ {0}
  BY FsTreeAssumption

\* There is such a function.
LEMMA LengthsExist ==
    ASSUME NEW path \in Seq(Names), NEW m \in 0 .. Len(path)
    PROVE  \E f \in [0 .. m -> Int] : IsLengths(path, m, f)
<1> DEFINE T == {k \in 0 .. Len(path) : ~ \E f \in [0 .. k -> Int] : IsLengths(path, k, f)}
<1>0. Len(path) \in Nat /\ T \subseteq Nat
  BY NamesHaveLengths
<1>1. ASSUME T # {} PROVE FALSE
  <2>1. PICK k \in T : \A j \in T : k <= j
    <3> HIDE DEF T
    <3> QED BY <1>0, <1>1, LeastNatural
  <2>2. k # 0
    <3>1. IsLengths(path, 0, [n \in 0 .. 0 |-> -1])
      BY DEF IsLengths
    <3>2. [n \in 0 .. 0 |-> -1] \in [0 .. 0 -> Int]
      OBVIOUS
    <3> QED BY <2>1, <3>1, <3>2
  <2>3. k \in 1 .. Len(path) /\ k - 1 \in 0 .. Len(path) /\ k - 1 \notin T
    <3>1. k \in 0 .. Len(path)
      OBVIOUS
    <3>2. k \in 1 .. Len(path) /\ k - 1 \in 0 .. Len(path) /\ ~ (k <= k - 1)
      BY <1>0, <2>2, <3>1
    <3> QED BY <2>1, <3>2
  <2>4. PICK f \in [0 .. k - 1 -> Int] : IsLengths(path, k - 1, f)
    BY <2>3
  <2> DEFINE g == [n \in 0 .. k |-> IF n = k THEN f[k - 1] + 1 + NameLen[path[k]] ELSE f[n]]
  <2>5. k \in Nat /\ k - 1 \in 0 .. k - 1 /\ NameLen[path[k]] \in Nat
    BY <1>0, <2>3, NamesHaveLengths
  <2>6. g \in [0 .. k -> Int]
    BY <2>4, <2>5
  <2>7. ASSUME NEW n \in 0 .. k
        PROVE  g[n] = IF n = 0 THEN -1 ELSE g[n - 1] + 1 + NameLen[path[n]]
    <3>1. CASE n = k
      <4>1. n # 0 /\ n - 1 \in 0 .. k /\ n - 1 # k
        BY <2>3, <2>5, <3>1
      <4>2. g[n - 1] = f[k - 1]
        BY <3>1, <4>1
      <4> QED BY <3>1, <4>1, <4>2
    <3>2. CASE n # k
      <4>1. n \in 0 .. k - 1 /\ (n # 0 => n - 1 \in 0 .. k /\ n - 1 # k)
        BY <2>5, <3>2
      <4>2. f[n] = IF n = 0 THEN -1 ELSE f[n - 1] + 1 + NameLen[path[n]]
        BY <2>4, <4>1 DEF IsLengths
      <4> QED BY <3>2, <4>1, <4>2
    <3> QED BY <3>1, <3>2
  <2> HIDE DEF g
  <2>8. IsLengths(path, k, g)
    BY <2>6, <2>7 DEF IsLengths
  <2> QED BY <2>1, <2>6, <2>8
<1>2. m \notin T
  BY <1>1
<1> QED BY <1>2

\* Two paths with a prefix in common, and the lengths along it.
Agree(path, q, m, f, g) ==
    \A n \in 0 .. m :
        /\ f[n] = IF n = 0 THEN -1 ELSE f[n - 1] + 1 + NameLen[path[n]]
        /\ g[n] = IF n = 0 THEN -1 ELSE g[n - 1] + 1 + NameLen[q[n]]
        /\ n # 0 => q[n] = path[n]

\* The lengths of a prefix depend on nothing behind it.
LEMMA LengthsAgree ==
    ASSUME NEW path, NEW q, NEW m \in Nat, NEW f, NEW g, Agree(path, q, m, f, g)
    PROVE  f[m] = g[m]
<1> DEFINE T == {k \in 0 .. m : f[k] # g[k]}
<1>0. T \subseteq Nat
  OBVIOUS
<1>1. ASSUME T # {} PROVE FALSE
  <2>1. PICK k \in T : \A j \in T : k <= j
    <3> HIDE DEF T
    <3> QED BY <1>0, <1>1, LeastNatural
  <2>2. /\ f[k] = IF k = 0 THEN -1 ELSE f[k - 1] + 1 + NameLen[path[k]]
        /\ g[k] = IF k = 0 THEN -1 ELSE g[k - 1] + 1 + NameLen[q[k]]
        /\ k # 0 => q[k] = path[k]
    BY <2>1 DEF Agree
  <2>3. k # 0
    BY <2>1, <2>2
  <2>4. k \in 1 .. m /\ k - 1 \in 0 .. m /\ k - 1 \notin T
    BY <2>1, <2>3
  <2>5. f[k - 1] = g[k - 1]
    BY <2>4
  <2>6. f[k] = g[k]
    BY <2>2, <2>3, <2>4, <2>5
  <2> QED BY <2>1, <2>6
<1> QED BY <1>1

\* Lengths is such a function: its recursive equation holds.
LEMMA LengthsUnfold ==
    ASSUME NEW path \in Seq(Names)
    PROVE  IsLengths(path, Len(path), Lengths(path)) /\ StrLen(path) \in Int
<1> DEFINE F(f) == [n \in 0 .. Len(path) |->
                      IF n = 0 THEN -1 ELSE f[n - 1] + 1 + NameLen[path[n]]]
<1>0. Len(path) \in Nat /\ Len(path) \in 0 .. Len(path)
  BY NamesHaveLengths
<1>1. PICK f \in [0 .. Len(path) -> Int] : IsLengths(path, Len(path), f)
  BY <1>0, LengthsExist
<1>2. f = F(f)
  BY <1>1 DEF IsLengths
<1>3. Lengths(path) = CHOOSE g : g = F(g)
  BY DEF Lengths
<1> HIDE DEF F
<1>4. Lengths(path) = F(Lengths(path))
  BY <1>2, <1>3
<1>5. IsLengths(path, Len(path), Lengths(path))
  BY <1>4 DEF F, IsLengths
<1>6. f[Len(path)] = Lengths(path)[Len(path)]
  <2> DEFINE u == Lengths(path)
             m == Len(path)
  <2>1. Agree(path, path, m, f, u)
    BY <1>0, <1>1, <1>5 DEF Agree, IsLengths
  <2>2. m \in Nat
    BY <1>0
  <2> HIDE DEF u, m
  <2>3. f[m] = u[m]
    BY ONLY <2>1, <2>2, LengthsAgree
  <2> QED BY <2>3 DEF u, m
<1> QED BY <1>0, <1>1, <1>5, <1>6 DEF StrLen

\* The string of a path grows by a separator and the name.
LEMMA StrLenGrows ==
    ASSUME NEW path \in Seq(Names), NEW name \in Names
    PROVE  /\ StrLen(Append(path, name)) = StrLen(path) + 1 + NameLen[name]
           /\ StrLen(path) \in Int
           /\ StrLen(<<>>) = -1
<1> DEFINE q == Append(path, name)
           l == Len(path)
<1>1. l \in Nat /\ q \in Seq(Names) /\ Len(q) = l + 1 /\ q[l + 1] = name
      /\ \A n \in 1 .. l : q[n] = path[n]
  OBVIOUS
<1>2. IsLengths(path, l, Lengths(path)) /\ StrLen(path) \in Int
  BY LengthsUnfold
<1>3. IsLengths(q, l + 1, Lengths(q))
  BY <1>1, LengthsUnfold
<1>4. Lengths(q)[l + 1] = Lengths(q)[l] + 1 + NameLen[name]
  BY <1>1, <1>3 DEF IsLengths
<1>5. Lengths(q)[l] = Lengths(path)[l]
  <2> DEFINE f == Lengths(path)
             g == Lengths(q)
  <2>1. Agree(path, q, l, f, g)
    <3>1. ASSUME NEW n \in 0 .. l
          PROVE  n \in 0 .. l + 1 /\ (n # 0 => n \in 1 .. l)
      BY <1>1
    <3>2. ASSUME NEW n \in 0 .. l
          PROVE  /\ f[n] = IF n = 0 THEN -1 ELSE f[n - 1] + 1 + NameLen[path[n]]
                 /\ g[n] = IF n = 0 THEN -1 ELSE g[n - 1] + 1 + NameLen[q[n]]
                 /\ n # 0 => q[n] = path[n]
      <4> HIDE DEF l, q
      <4>1. n \in 0 .. l + 1 /\ (n # 0 => n \in 1 .. l)
        BY <3>1
      <4>2. f[n] = IF n = 0 THEN -1 ELSE f[n - 1] + 1 + NameLen[path[n]]
        <5>1. IsLengths(path, l, f)
          BY <1>2
        <5> HIDE DEF f
        <5> QED BY <5>1 DEF IsLengths
      <4>3. g[n] = IF n = 0 THEN -1 ELSE g[n - 1] + 1 + NameLen[q[n]]
        <5>1. IsLengths(q, l + 1, g)
          BY <1>3
        <5> HIDE DEF g
        <5> QED BY <4>1, <5>1 DEF IsLengths
      <4> QED BY <1>1, <4>1, <4>2, <4>3
    <3> HIDE DEF f, g, q, l
    <3> QED BY <3>2 DEF Agree
  <2>2. l \in Nat
    BY <1>1
  <2> HIDE DEF f, g, q, l
  <2>3. f[l] = g[l]
    BY ONLY <2>1, <2>2, LengthsAgree
  <2> QED BY <2>3 DEF f, g
<1>6. StrLen(<<>>) = -1
  <2>1. <<>> \in Seq(Names) /\ Len(<<>>) = 0
    OBVIOUS
  <2>2. IsLengths(<<>>, 0, Lengths(<<>>))
    BY <2>1, LengthsUnfold
  <2> QED BY <2>1, <2>2 DEF IsLengths, StrLen
<1> QED BY <1>1, <1>2, <1>4, <1>5, <1>6 DEF StrLen

\* What snprintf counts for a child is the length of its whole path.
LEMMA JoinedLenIsStrLen ==
    ASSUME NEW path \in Seq(Names), NEW plen, NEW name \in Names,
           path = <<>> \/ plen = StrLen(path)
    PROVE  JoinedLen(path, plen, name) = StrLen(Append(path, name))
<1>1. /\ StrLen(Append(path, name)) = StrLen(path) + 1 + NameLen[name]
      /\ StrLen(path) \in Int /\ StrLen(<<>>) = -1 /\ NameLen[name] \in Nat
  BY StrLenGrows, FsTreeAssumption
<1> QED BY <1>1 DEF JoinedLen

-----------------------------------------------------------------------------
(* The listing and the tree of the image.  Listing is recursive over the   *)
(* places of an image: that a function with its equation exists, and hence *)
(* that Listing satisfies it, follows by the least counterexample when     *)
(* every place is followed by places of a smaller rank only.               *)

\* What is listed from the place x on, if f lists the places behind it.
ListedFrom(places, f, x) ==
    places[x].items \o At(f, places[x].down) \o At(f, places[x].on)

\* Every place is followed by places of a smaller rank, and lists items of I.
Ranked(places, I, rank, R) ==
    \A x \in DOMAIN places :
        /\ rank[x] \in 0 .. R
        /\ places[x].items \in Seq(I)
        /\ \A y \in places[x].down \cup places[x].on :
             y \in DOMAIN places /\ rank[y] < rank[x]

\* f lists the places of a rank below r.
ListsBelow(places, rank, r, f) ==
    f = [x \in {x \in DOMAIN places : rank[x] < r} |-> ListedFrom(places, f, x)]

\* What is listed from a place on depends on the places behind it only.
LEMMA ListedAlike ==
    ASSUME NEW places, NEW x, NEW f, NEW g,
           \A y \in places[x].down \cup places[x].on : f[y] = g[y]
    PROVE  ListedFrom(places, f, x) = ListedFrom(places, g, x)
<1>1. ASSUME NEW S, S \subseteq places[x].down \cup places[x].on
      PROVE  At(f, S) = At(g, S)
  BY <1>1 DEF At
<1>2. At(f, places[x].down) = At(g, places[x].down)
  BY <1>1
<1>3. At(f, places[x].on) = At(g, places[x].on)
  BY <1>1
<1> QED BY <1>2, <1>3 DEF ListedFrom

\* There is such a function.
LEMMA ListsExist ==
    ASSUME NEW places, NEW I, NEW rank, NEW R \in Nat, Ranked(places, I, rank, R),
           NEW r \in Nat
    PROVE  \E f : ListsBelow(places, rank, r, f)
<1> DEFINE Below(k) == {x \in DOMAIN places : rank[x] < k}
           T == {k \in Nat : ~ \E f : ListsBelow(places, rank, k, f)}
<1>1. ASSUME T # {} PROVE FALSE
  <2>1. PICK k \in T : \A j \in T : k <= j
    <3>1. T \subseteq Nat
      OBVIOUS
    <3> HIDE DEF T
    <3> QED BY <1>1, <3>1, LeastNatural
  <2>2. k # 0
    <3> DEFINE none == [x \in {} |-> {}]
    <3>1. Below(0) = {}
      BY DEF Ranked
    <3>2. none = [x \in Below(0) |-> ListedFrom(places, none, x)]
      <4> HIDE DEF Below
      <4> QED BY <3>1
    <3>3. ListsBelow(places, rank, 0, none)
      BY <3>2 DEF ListsBelow
    <3> HIDE DEF none
    <3> QED BY <2>1, <3>3
  <2>3. k - 1 \in Nat /\ k - 1 \notin T
    BY <2>1, <2>2
  <2>4. PICK f : ListsBelow(places, rank, k - 1, f)
    BY <2>3
  <2> DEFINE g == [x \in Below(k) |-> ListedFrom(places, f, x)]
  <2>5. ASSUME NEW y \in Below(k - 1) PROVE y \in Below(k) /\ f[y] = g[y]
    <3>1. y \in Below(k)
      BY <2>3, <2>1 DEF Ranked
    <3>2. f[y] = ListedFrom(places, f, y)
      <4>1. f = [x \in Below(k - 1) |-> ListedFrom(places, f, x)]
        BY <2>4 DEF ListsBelow
      <4> HIDE DEF Below
      <4> QED BY <4>1, ZenonT(20)
    <3> HIDE DEF Below
    <3> QED BY <3>1, <3>2
  <2>6. ASSUME NEW x \in Below(k)
        PROVE  ListedFrom(places, f, x) = ListedFrom(places, g, x)
    <3>1. \A y \in places[x].down \cup places[x].on : y \in Below(k - 1)
      BY <2>1, <2>3 DEF Ranked
    <3> HIDE DEF Below, g
    <3>2. \A y \in places[x].down \cup places[x].on : f[y] = g[y]
      BY <2>5, <3>1
    <3> QED BY <3>2, ListedAlike
  <2>7. g = [x \in Below(k) |-> ListedFrom(places, g, x)]
    <3> HIDE DEF Below
    <3>1. \A x \in Below(k) : ListedFrom(places, f, x) = ListedFrom(places, g, x)
      BY <2>6
    <3> DEFINE h == g
    <3>2. \A x \in Below(k) : ListedFrom(places, f, x) = ListedFrom(places, h, x)
      BY <3>1
    <3> HIDE DEF h
    <3>3. [x \in Below(k) |-> ListedFrom(places, f, x)]
            = [x \in Below(k) |-> ListedFrom(places, h, x)]
      BY <3>2
    <3> QED BY <3>3 DEF h
  <2> HIDE DEF g
  <2>8. ListsBelow(places, rank, k, g)
    BY <2>7 DEF ListsBelow
  <2> QED BY <2>1, <2>8
<1> QED BY <1>1

\* Listing is one of them.
LEMMA ListingUnfolds ==
    ASSUME NEW places, NEW I, NEW rank, NEW R \in Nat, Ranked(places, I, rank, R),
           NEW x \in DOMAIN places
    PROVE  Listing(places)[x] = ListedFrom(places, Listing(places), x)
<1>1. R + 1 \in Nat
  OBVIOUS
<1>2. PICK f : ListsBelow(places, rank, R + 1, f)
  BY <1>1, ListsExist
<1>3. {z \in DOMAIN places : rank[z] < R + 1} = DOMAIN places
  <2>1. ASSUME NEW z \in DOMAIN places PROVE rank[z] < R + 1
    BY DEF Ranked
  <2> QED BY <2>1
<1>4. f = [z \in DOMAIN places |-> ListedFrom(places, f, z)]
  BY <1>2, <1>3 DEF ListsBelow
<1>5. Listing(places) = CHOOSE h : h = [z \in DOMAIN places |-> ListedFrom(places, h, z)]
  BY DEF Listing, ListedFrom
<1> DEFINE L == Listing(places)
<1>6. L = [z \in DOMAIN places |-> ListedFrom(places, L, z)]
  BY <1>4, <1>5
<1> HIDE DEF L
<1>7. L[x] = ListedFrom(places, L, x)
  BY <1>6, ZenonT(20)
<1> QED BY <1>7 DEF L

\* It lists items.
LEMMA ListingTyped ==
    ASSUME NEW places, NEW I, NEW rank, NEW R \in Nat, Ranked(places, I, rank, R)
    PROVE  \A x \in DOMAIN places : Listing(places)[x] \in Seq(I)
<1> DEFINE L == Listing(places)
           T == {rank[x] : x \in {x \in DOMAIN places : L[x] \notin Seq(I)}}
<1>1. ASSUME T # {} PROVE FALSE
  <2>1. PICK k \in T : \A j \in T : k <= j
    <3>1. T \subseteq Nat
      BY DEF Ranked
    <3> HIDE DEF T
    <3> QED BY <1>1, <3>1, LeastNatural
  <2>2. PICK x \in DOMAIN places : L[x] \notin Seq(I) /\ rank[x] = k
    BY <2>1
  <2>3. \A y \in places[x].down \cup places[x].on : L[y] \in Seq(I)
    <3> SUFFICES ASSUME NEW y \in places[x].down \cup places[x].on, L[y] \notin Seq(I)
                 PROVE  FALSE
      OBVIOUS
    <3>1. y \in DOMAIN places /\ rank[y] < rank[x] /\ rank[y] \in Nat /\ rank[x] \in Nat
      BY DEF Ranked
    <3>2. rank[y] \in T
      BY <3>1
    <3>3. k <= rank[y]
      <4> HIDE DEF T
      <4> QED BY <2>1, <3>2
    <3> HIDE DEF T, L
    <3> QED BY <2>2, <3>1, <3>3
  <2>4. L[x] = ListedFrom(places, L, x)
    BY ListingUnfolds
  <2>5. places[x].items \in Seq(I)
    BY DEF Ranked
  <2> HIDE DEF L, T
  <2>6. ASSUME NEW S, S \subseteq places[x].down \cup places[x].on
        PROVE  At(L, S) \in Seq(I)
    BY <2>3, <2>6 DEF At
  <2>7. At(L, places[x].down) \in Seq(I) /\ At(L, places[x].on) \in Seq(I)
    BY <2>6
  <2>8. ListedFrom(places, L, x) \in Seq(I)
    <3> DEFINE a == At(L, places[x].down)
               b == At(L, places[x].on)
               c == places[x].items
    <3>1. a \in Seq(I) /\ b \in Seq(I) /\ c \in Seq(I)
      BY <2>5, <2>7
    <3> HIDE DEF a, b, c
    <3>2. (c \o a) \o b \in Seq(I)
      BY <3>1
    <3> QED BY <3>2 DEF ListedFrom, a, b, c
  <2> QED BY <2>2, <2>4, <2>8
<1> QED BY <1>1

-----------------------------------------------------------------------------
(* What is left of the listing, frame by frame.                            *)

RegionOf(s, i) ==
    Region(i - 1, s[i].pos, s[i].remaining, s[i].left, s[i].start, s[i].path)

\* f[i] is what the i outermost frames of s have still to list, if L is what
\* is listed from each place on.
Rests(L, I, s, f) ==
    /\ f[0] = <<>>
    /\ \A i \in 1 .. Len(s) :
         L[RegionOf(s, i)] \in Seq(I) /\ f[i] = L[RegionOf(s, i)] \o f[i - 1]
    /\ \A i \in 0 .. Len(s) : f[i] \in Seq(I)

\* A frame with nothing left to list is taken off.
LEMMA RestsPopped ==
    ASSUME NEW L, NEW I, NEW s, NEW u, NEW f, NEW n \in Nat, Len(s) = n + 1, Len(u) = n,
           \A i \in 1 .. n : u[i] = s[i],
           Rests(L, I, s, f), L[RegionOf(s, n + 1)] = <<>>
    PROVE  Rests(L, I, u, f) /\ f[n + 1] = f[n]
<1>1. \A i \in 1 .. n : i \in 1 .. n + 1 /\ RegionOf(u, i) = RegionOf(s, i)
  BY DEF RegionOf
<1>2. \A i \in 0 .. n : i \in 0 .. n + 1
  OBVIOUS
<1>3. Rests(L, I, u, f)
  BY <1>1, <1>2 DEF Rests
<1>4. n + 1 \in 1 .. n + 1 /\ (n + 1) - 1 = n /\ n \in 0 .. n + 1
  OBVIOUS
<1>5. f[n + 1] = <<>> \o f[n] /\ f[n] \in Seq(I)
  BY <1>4 DEF Rests
<1> DEFINE x == f[n]
<1>6. x \in Seq(I)
  BY <1>5
<1> HIDE DEF x
<1>7. <<>> \o x = x
  BY <1>6
<1> QED BY <1>3, <1>5, <1>7 DEF x

\* The innermost frame has listed c, and is now elsewhere.
Moved(L, I, s, u, n, c) ==
    /\ n \in Nat \ {0} /\ Len(s) = n /\ Len(u) = n
    /\ \A i \in 1 .. n - 1 : u[i] = s[i]
    /\ c \in Seq(I) /\ L[RegionOf(u, n)] \in Seq(I)
    /\ L[RegionOf(s, n)] = c \o L[RegionOf(u, n)]

\* The deepest frame moves on, and c is listed on the way.
LEMMA RestsMoved ==
    ASSUME NEW L, NEW I, NEW s, NEW u, NEW f, NEW n, NEW c,
           Moved(L, I, s, u, n, c), Rests(L, I, s, f)
    PROVE  \E g : Rests(L, I, u, g) /\ f[n] = c \o g[n]
<1> USE DEF Moved
<1> DEFINE here == L[RegionOf(u, n)]
           g == [i \in 0 .. n |-> IF i = n THEN here \o f[n - 1] ELSE f[i]]
           x == f[n - 1]
<1>1. /\ n \in 1 .. n /\ n \in 0 .. n /\ n - 1 \in 0 .. n /\ n - 1 # n /\ 0 \in 0 .. n /\ 0 # n
      /\ \A i \in 1 .. n : i \in 0 .. n /\ (i # n => i \in 1 .. n - 1 /\ i - 1 \in 0 .. n /\ i - 1 # n)
  OBVIOUS
<1>2. x \in Seq(I) /\ here \in Seq(I) /\ f[n] = (c \o here) \o x
  BY <1>1 DEF Rests
<1>3. g[n] = here \o x /\ (\A i \in 0 .. n : i # n => g[i] = f[i])
  BY <1>1
<1> HIDE DEF here, g, x
<1>4. here \o x \in Seq(I)
  BY <1>2, ConcatProperties
<1>5. (c \o here) \o x = c \o (here \o x)
  BY ONLY <1>2, c \in Seq(I), ConcatAssociative
<1>6. f[n] = c \o g[n]
  BY <1>2, <1>3, <1>5
<1>7. \A i \in 0 .. n : g[i] \in Seq(I)
  BY <1>1, <1>3, <1>4 DEF Rests
<1>8. g[0] = <<>>
  BY <1>1, <1>3 DEF Rests
<1>9. ASSUME NEW i \in 1 .. n
      PROVE  L[RegionOf(u, i)] \in Seq(I) /\ g[i] = L[RegionOf(u, i)] \o g[i - 1]
  <2>1. CASE i = n
    <3>1. g[n - 1] = x
      BY <1>1, <1>3 DEF x
    <3> QED BY <1>2, <1>3, <2>1, <3>1 DEF here
  <2>2. CASE i # n
    <3>1. RegionOf(u, i) = RegionOf(s, i)
      BY <1>1, <2>2 DEF RegionOf
    <3>2. g[i] = f[i] /\ g[i - 1] = f[i - 1]
      BY <1>1, <1>3, <2>2
    <3> QED BY <3>1, <3>2 DEF Rests
  <2> QED BY <2>1, <2>2
<1>10. Rests(L, I, u, g)
  BY <1>7, <1>8, <1>9 DEF Rests
<1> QED BY <1>6, <1>10

\* One more frame.
Pushed(L, I, s, u, n, m) ==
    /\ n \in Nat /\ m = n + 1 /\ Len(s) = n /\ Len(u) = m
    /\ \A i \in 1 .. n : u[i] = s[i]
    /\ L[RegionOf(u, m)] \in Seq(I)

PushedTo(L, I, u, f, n, m) ==
    \E g : Rests(L, I, u, g) /\ g[m] = L[RegionOf(u, m)] \o f[n]

\* A frame is put on the others, with its own listing ahead of it.
LEMMA RestsPushed ==
    ASSUME NEW L, NEW I, NEW s, NEW u, NEW f, NEW n, NEW m,
           Pushed(L, I, s, u, n, m), Rests(L, I, s, f)
    PROVE  PushedTo(L, I, u, f, n, m)
<1> USE DEF Pushed
<1> DEFINE here == L[RegionOf(u, m)]
           g == [i \in 0 .. m |-> IF i = m THEN here \o f[n] ELSE f[i]]
           x == f[n]
<1>1. /\ n \in 0 .. n /\ m \in 0 .. m /\ 0 \in 0 .. m /\ 0 # m
      /\ n \in 0 .. m /\ n # m
      /\ \A i \in 1 .. m : i # m => i \in 1 .. n /\ i \in 0 .. m
                                            /\ i - 1 \in 0 .. m /\ i - 1 # m
      /\ \A i \in 0 .. m : i # m => i \in 0 .. n
      /\ m - 1 = n
  OBVIOUS
<1>2. x \in Seq(I) /\ here \in Seq(I)
  BY <1>1 DEF Rests
<1>3. g[m] = here \o x /\ (\A i \in 0 .. m : i # m => g[i] = f[i])
  BY <1>1
<1> HIDE DEF here, g, x
<1>4. here \o x \in Seq(I)
  BY <1>2, ConcatProperties
<1>7. \A i \in 0 .. m : g[i] \in Seq(I)
  BY <1>1, <1>3, <1>4 DEF Rests
<1>8. g[0] = <<>>
  BY <1>1, <1>3 DEF Rests
<1>9. ASSUME NEW i \in 1 .. m
      PROVE  L[RegionOf(u, i)] \in Seq(I) /\ g[i] = L[RegionOf(u, i)] \o g[i - 1]
  <2>1. CASE i = m
    <3>1. g[n] = x
      BY <1>1, <1>3 DEF x
    <3> QED BY <1>1, <1>2, <1>3, <2>1, <3>1 DEF here
  <2>2. CASE i # m
    <3>1. RegionOf(u, i) = RegionOf(s, i)
      BY <1>1, <2>2 DEF RegionOf
    <3>2. g[i] = f[i] /\ g[i - 1] = f[i - 1]
      BY <1>1, <1>3, <2>2
    <3> QED BY <1>1, <2>2, <3>1, <3>2 DEF Rests
  <2> QED BY <2>1, <2>2
<1>10. Rests(L, I, u, g)
  BY <1>7, <1>8, <1>9 DEF Rests
<1> QED BY <1>3, <1>10 DEF here, x, PushedTo

\* Sequences of items.
LEMMA AppendThen ==
    ASSUME NEW I, NEW o \in Seq(I), NEW e \in I, NEW x \in Seq(I)
    PROVE  Append(o, e) \o x = o \o (<<e>> \o x)
<1>1. <<e>> \in Seq(I)
  OBVIOUS
<1>2. (o \o <<e>>) \o x = o \o (<<e>> \o x)
  BY <1>1, ConcatAssociative
<1>3. Append(o, e) = o \o <<e>>
  BY AppendIsConcat
<1> QED BY <1>2, <1>3

\* The elements of a concatenation.
LEMMA InConcat ==
    ASSUME NEW I, NEW a \in Seq(I), NEW b \in Seq(I), NEW x
    PROVE  x \in Range(a \o b) <=> x \in Range(a) \/ x \in Range(b)
<1>1. /\ Len(a) \in Nat /\ Len(b) \in Nat /\ Len(a \o b) = Len(a) + Len(b)
      /\ DOMAIN a = 1 .. Len(a) /\ DOMAIN b = 1 .. Len(b)
      /\ DOMAIN (a \o b) = 1 .. Len(a) + Len(b)
      /\ \A i \in 1 .. Len(a) + Len(b) : (a \o b)[i] = IF i <= Len(a) THEN a[i] ELSE b[i - Len(a)]
  OBVIOUS
<1> DEFINE c == a \o b
           m == Len(a)
           n == Len(b)
<1> HIDE DEF c, m, n
<1>2. /\ m \in Nat /\ n \in Nat /\ DOMAIN a = 1 .. m /\ DOMAIN b = 1 .. n /\ DOMAIN c = 1 .. m + n
      /\ \A i \in 1 .. m + n : c[i] = IF i <= m THEN a[i] ELSE b[i - m]
  BY <1>1 DEF c, m, n
<1>3. ASSUME NEW i \in 1 .. m + n PROVE c[i] \in Range(a) \cup Range(b)
  <2>1. CASE i <= m
    BY <1>2, <2>1 DEF Range
  <2>2. CASE ~ (i <= m)
    <3>1. i - m \in 1 .. n
      BY <1>2, <2>2
    <3> QED BY <1>2, <2>2, <3>1 DEF Range
  <2> QED BY <2>1, <2>2
<1>4. ASSUME NEW i \in 1 .. m PROVE a[i] \in Range(c)
  <2>1. i \in 1 .. m + n /\ i <= m
    BY <1>2
  <2> QED BY <1>2, <2>1 DEF Range
<1>5. ASSUME NEW i \in 1 .. n PROVE b[i] \in Range(c)
  <2>1. m + i \in 1 .. m + n /\ ~ (m + i <= m) /\ (m + i) - m = i
    BY <1>2
  <2>2. c[m + i] = b[i]
    BY <1>2, <2>1
  <2> QED BY <1>2, <2>1, <2>2 DEF Range
<1> QED BY <1>2, <1>3, <1>4, <1>5 DEF Range, c

-----------------------------------------------------------------------------
(* The places of an image.                                                 *)

\* A finite set of natural numbers has a greatest element.
LEMMA FiniteSetHasMax ==
    ASSUME NEW S, S \subseteq Nat, S # {}, IsFiniteSet(S)
    PROVE  \E m \in S : \A y \in S : m >= y
<1> DEFINE HasMax(U) == \E m \in U : \A y \in U : m >= y
           Bad(U) == U # {} /\ IsFiniteSet(U) /\ ~HasMax(U)
           T == {k \in Nat : \E U \in SUBSET Nat : Bad(U) /\ Cardinality(U) = k}
<1>1. ASSUME T # {} PROVE FALSE
  <2>1. PICK k \in T : \A j \in T : k <= j
    <3>1. T \subseteq Nat
      OBVIOUS
    <3> HIDE DEF T
    <3> QED BY <1>1, <3>1, LeastNatural
  <2>2. k \in Nat
    OBVIOUS
  <2>3. PICK U \in SUBSET Nat : Bad(U) /\ Cardinality(U) = k
    OBVIOUS
  <2>4. PICK x \in U : TRUE
    BY <2>3
  <2> DEFINE V == U \ {x}
  <2>5. IsFiniteSet(V) /\ Cardinality(V) = k - 1 /\ Cardinality(V) \in Nat /\ V \in SUBSET Nat
    BY <2>3, <2>4, FS_RemoveElement, FS_CardinalityType
  <2>6. k - 1 \notin T
    BY <2>1, <2>2, <2>5
  <2>7. ~ Bad(V)
    BY <2>5, <2>6
  <2>8. CASE V = {}
    <3>1. \A y \in U : x >= y
      BY <2>3, <2>4, <2>8
    <3> QED BY <2>3, <2>4, <3>1
  <2>9. CASE V # {}
    <3>1. PICK m \in V : \A y \in V : m >= y
      BY <2>5, <2>7, <2>9
    <3>2. m \in Nat /\ x \in Nat /\ m \in U
      BY <2>3, <2>4
    <3>3. CASE m >= x
      <4>1. \A y \in U : m >= y
        BY <3>1, <3>3
      <4> QED BY <2>3, <3>2, <4>1
    <3>4. CASE ~ (m >= x)
      <4>1. \A y \in U : x >= y
        BY <2>3, <2>4, <3>1, <3>2, <3>4
      <4> QED BY <2>3, <2>4, <4>1
    <3> QED BY <3>3, <3>4
  <2> QED BY <2>8, <2>9
<1>2. Cardinality(S) \in Nat
  BY FS_CardinalityType
<1>3. Cardinality(S) \notin T
  BY <1>1
<1> HIDE DEF T
<1>4. S \in SUBSET Nat /\ ~ (Bad(S) /\ Cardinality(S) \in Nat /\ Cardinality(S) \notin T)
  BY <1>2 DEF T
<1> QED BY <1>2, <1>3, <1>4

\* No directory has a longer listing.
LEMMA LongestBounds ==
    ASSUME ImageOK(im)
    PROVE  Longest \in Nat /\ \A x \in DOMAIN im.inode : im.inode[x].dir_size \in 0 .. Longest
<1> DEFINE D == DOMAIN im.inode
           sizes == {im.inode[x].dir_size : x \in D}
           f == [x \in D |-> im.inode[x].dir_size]
           S == {0} \cup sizes
<1>1. IsFiniteSet(D) /\ \A x \in D : im.inode[x].dir_size \in Nat
  BY DEF ImageOK, InodeOK, Inodes
<1>2. f \in Surjection(D, sizes)
  BY DEF Surjection
<1>3. IsFiniteSet(sizes)
  <2> HIDE DEF f, sizes, D
  <2> QED BY <1>1, <1>2, FS_Surjection
<1>4. IsFiniteSet(S) /\ S \subseteq Nat /\ S # {}
  <2>1. IsFiniteSet(sizes \cup {0})
    <3> HIDE DEF sizes
    <3> QED BY <1>3, FS_AddElement
  <2>2. S = sizes \cup {0}
    OBVIOUS
  <2>3. S \subseteq Nat
    BY <1>1
  <2> QED BY <2>1, <2>2, <2>3
<1>5. Longest = CHOOSE m \in S : \A y \in S : m >= y
  BY DEF Longest, Max
<1>6. \E m \in S : \A y \in S : m >= y
  <2> HIDE DEF S
  <2> QED BY <1>4, FiniteSetHasMax
<1>7. Longest \in S /\ \A y \in S : Longest >= y
  <2> HIDE DEF S
  <2> QED BY <1>5, <1>6
<1>8. \A x \in D : im.inode[x].dir_size \in S
  OBVIOUS
<1> HIDE DEF S
<1> QED BY <1>1, <1>4, <1>7, <1>8

Items       == [path : Seq(Names), kind : {"dir", "reg", "other"}, size : Int]
ListEntries == {x \in Items : x.size \in Nat}
Places      == [r \in Regions |-> Place(r)]

\* A directory counts for more than all the bytes of a listing at the next depth.
Ranks   == [r \in Regions |-> (MAX_DIR_DEPTH - r.depth) * (Longest + 1) + r.remaining]
MaxRank == (MAX_DIR_DEPTH + 1) * (Longest + 1)

\* A step within a listing, or one level down, lowers the rank.
LEMMA RanksFall ==
    ASSUME NEW K \in Nat, NEW M \in Nat, NEW d \in 0 .. K, NEW s \in 0 .. M
    PROVE  /\ (K - d) * (M + 1) + s \in 0 .. (K + 1) * (M + 1)
           /\ d # K => \A t \in 0 .. M :
                (K - (d + 1)) * (M + 1) + t < (K - d) * (M + 1) + s
<1> DEFINE a == K - d
<1>1. a \in Nat /\ a <= K
  OBVIOUS
<1> HIDE DEF a
<1>2. a * (M + 1) + s \in 0 .. (K + 1) * (M + 1)
  <2>1. (a + 1) * (M + 1) = a * (M + 1) + (M + 1) /\ a * (M + 1) \in Nat
    BY <1>1
  <2> DEFINE b == a + 1
             k == K + 1
  <2>2. b \in Nat /\ k \in Nat /\ b <= k
    BY <1>1
  <2> HIDE DEF b, k
  <2>3. b * (M + 1) <= k * (M + 1) /\ k * (M + 1) \in Nat
    BY <2>2
  <2>4. a * (M + 1) + s <= k * (M + 1)
    BY <2>1, <2>3 DEF b
  <2> QED BY <2>1, <2>3, <2>4 DEF k
<1>3. ASSUME d # K, NEW t \in 0 .. M
      PROVE  (K - (d + 1)) * (M + 1) + t < a * (M + 1) + s
  <2> DEFINE e == K - (d + 1)
  <2>1. e \in Nat /\ a = e + 1
    BY <1>3 DEF a
  <2> HIDE DEF e
  <2>2. (e + 1) * (M + 1) = e * (M + 1) + (M + 1) /\ e * (M + 1) \in Nat
    BY <2>1
  <2> DEFINE p == e * (M + 1)
  <2>3. a * (M + 1) = p + (M + 1) /\ p \in Nat
    BY <2>1, <2>2
  <2> HIDE DEF p
  <2>4. p + t < (p + (M + 1)) + s
    BY <2>3
  <2> QED BY <2>3, <2>4 DEF p, e
<1> QED BY <1>2, <1>3 DEF a

\* One place further in the same listing, or the listing of a directory below.
LEMMA RanksOf ==
    ASSUME ImageOK(im), NEW r \in Regions, NEW y \in Regions
    PROVE  /\ Ranks[r] \in 0 .. MaxRank
           /\ y.depth = r.depth /\ y.remaining < r.remaining => Ranks[y] < Ranks[r]
           /\ y.depth = r.depth + 1 => Ranks[y] < Ranks[r]
<1>1. MAX_DIR_DEPTH \in Nat /\ Longest \in Nat
  BY FsTreeAssumption, LongestBounds
<1> DEFINE d == r.depth
           s == r.remaining
           t == y.remaining
<1>2. d \in 0 .. MAX_DIR_DEPTH /\ s \in 0 .. Longest /\ t \in 0 .. Longest
      /\ y.depth \in 0 .. MAX_DIR_DEPTH
  BY DEF Regions
<1>3. /\ Ranks[r] = (MAX_DIR_DEPTH - d) * (Longest + 1) + s
      /\ Ranks[y] = (MAX_DIR_DEPTH - y.depth) * (Longest + 1) + t
  BY DEF Ranks
<1> HIDE DEF d, s, t
<1>4. Ranks[r] \in 0 .. MaxRank
  BY <1>1, <1>2, <1>3, RanksFall DEF MaxRank
<1>5. ASSUME y.depth = d, t < s PROVE Ranks[y] < Ranks[r]
  <2> DEFINE w == (MAX_DIR_DEPTH - d) * (Longest + 1)
  <2>1. w \in Int
    BY <1>1, <1>2
  <2>2. Ranks[r] = w + s /\ Ranks[y] = w + t
    BY <1>3, <1>5
  <2> HIDE DEF w
  <2> QED BY <1>2, <1>5, <2>1, <2>2
<1>6. ASSUME y.depth = d + 1 PROVE Ranks[y] < Ranks[r]
  <2>1. d # MAX_DIR_DEPTH
    BY <1>1, <1>2, <1>6
  <2>2. (MAX_DIR_DEPTH - (d + 1)) * (Longest + 1) + t
          < (MAX_DIR_DEPTH - d) * (Longest + 1) + s
    BY <1>1, <1>2, <2>1, RanksFall
  <2> QED BY <1>3, <1>6, <2>2
<1> QED BY <1>4, <1>5, <1>6 DEF d, s, t

\* What a place lists, and what is behind it.
PlaceOK(r, p) ==
    /\ p.items \in Seq(Items)
    /\ \A y \in p.down \cup p.on : y \in Regions /\ Ranks[y] < Ranks[r]

\* Places that lead nowhere.
LEMMA EmptyPlacesOK ==
    ASSUME NEW r
    PROVE  PlaceOK(r, Nothing) /\ PlaceOK(r, Wrong)
<1>1. Broken \in Items
  BY DEF Broken, Items
<1> QED BY <1>1 DEF PlaceOK, Nothing, Wrong

\* A header leads on in its listing, twelve bytes further.
LEMMA HeaderPlaceOK ==
    ASSUME ImageOK(im), NEW r \in Regions
    PROVE  PlaceOK(r, HeaderPlace(r))
<1> DEFINE h == im.hdr[r.pos]
           bad == \/ r.remaining < 12 \/ r.pos \notin DOMAIN im.hdr
                  \/ h.count >= MAX_GROUP /\ h.count # U32 - 1
           n == IF h.count = U32 - 1 THEN 0 ELSE h.count + 1
           next == Region(r.depth, r.pos + 12, r.remaining - 12, n, h.start, r.path)
<1>1. /\ bad => HeaderPlace(r) = Wrong
      /\ ~bad => HeaderPlace(r) = [items |-> <<>>, down |-> {}, on |-> {next}]
  BY DEF HeaderPlace
<1>2. ASSUME ~bad PROVE next \in Regions /\ next.depth = r.depth /\ next.remaining < r.remaining
  <2>1. /\ r.depth \in 0 .. MAX_DIR_DEPTH /\ r.remaining \in 0 .. Longest /\ r.pos \in Nat
        /\ r.path \in Seq(Names)
    BY DEF Regions
  <2>2. h.count \in 0 .. U32 - 1 /\ h.start \in Nat
    BY <1>2 DEF ImageOK
  <2>3. MAX_GROUP \in Nat /\ U32 \in Nat \ {0} /\ Longest \in Nat
    BY SquashfsAssumption, LongestBounds
  <2>4. n \in 0 .. MAX_GROUP
    BY <1>2, <2>2, <2>3
  <2>5. r.pos + 12 \in Nat /\ r.remaining - 12 \in 0 .. Longest /\ r.remaining - 12 < r.remaining
    BY <1>2, <2>1, <2>3
  <2> HIDE DEF n, h
  <2> QED BY <2>1, <2>2, <2>4, <2>5 DEF Region, Regions
<1> HIDE DEF bad, next
<1>3. ASSUME ~bad PROVE PlaceOK(r, HeaderPlace(r))
  <2>1. next \in Regions /\ Ranks[next] < Ranks[r]
    BY <1>2, <1>3, RanksOf
  <2>2. HeaderPlace(r) = [items |-> <<>>, down |-> {}, on |-> {next}]
    BY <1>1, <1>3
  <2> QED BY <2>1, <2>2 DEF PlaceOK
<1> QED BY <1>1, <1>3, EmptyPlacesOK

\* An entry leads on in its listing, and into a listing one level deeper.
LEMMA EntryPlaceOK ==
    ASSUME ImageOK(im), NEW r \in Regions, r.left > 0
    PROVE  PlaceOK(r, EntryPlace(r))
<1> DEFINE e      == im.ent[r.pos]
           step   == 9 + e.name_size
           ref    == <<r.start, e.offset>>
           node   == im.inode[ref]
           path   == Append(r.path, e.name)
           is_dir == node.type = "dir"
           empty  == node.dir_size < 4
           inside == r.depth < MAX_DIR_DEPTH /\ (empty \/ node.dir # NoPos)
           entry  == [path |-> path, kind |-> node.type,
                      size |-> IF is_dir THEN 0 ELSE node.file_size]
           bad    == \/ r.pos \notin DOMAIN im.ent \/ e.name = Unsafe
                     \/ step > r.remaining \/ e.name_size >= MAX_NAME
                     \/ ref \notin DOMAIN im.inode \/ StrLen(path) >= PATH_CAP
           sub    == Region(r.depth + 1, node.dir, node.dir_size - 3, 0, 0, path)
           next   == Region(r.depth, r.pos + step, r.remaining - step, r.left - 1,
                            r.start, r.path)
<1>1. /\ bad => EntryPlace(r) = Wrong
      /\ ~bad => EntryPlace(r)
           = [items |-> IF is_dir /\ ~inside THEN <<entry, Broken>> ELSE <<entry>>,
              down  |-> IF is_dir /\ inside /\ ~empty THEN {sub} ELSE {},
              on    |-> {next}]
  BY DEF EntryPlace
<1>2. /\ r.depth \in 0 .. MAX_DIR_DEPTH /\ r.remaining \in 0 .. Longest /\ r.pos \in Nat
      /\ r.path \in Seq(Names) /\ r.left \in 1 .. MAX_GROUP /\ r.start \in Nat
      /\ MAX_GROUP \in Nat /\ Longest \in Nat /\ MAX_DIR_DEPTH \in Nat
  BY SquashfsAssumption, FsTreeAssumption, LongestBounds DEF Regions
<1>3. ASSUME ~bad
      PROVE  /\ entry \in Items
             /\ next \in Regions /\ next.depth = r.depth /\ next.remaining < r.remaining
             /\ inside /\ ~empty => sub \in Regions /\ sub.depth = r.depth + 1
  <2>1. EntryOK(e) /\ e.name \in Names /\ e.name_size \in Nat
    BY <1>3 DEF ImageOK, EntryOK
  <2>2. node \in Inodes /\ node.type \in {"dir", "reg", "other"} /\ node.dir \in Nat \cup {NoPos} /\ node.dir_size \in 0 .. Longest
        /\ node.file_size \in Nat
    BY <1>3, LongestBounds DEF ImageOK, InodeOK, Inodes
  <2>3. path \in Seq(Names)
    BY <1>2, <2>1
  <2>4. entry \in Items
    <3> HIDE DEF path, node
    <3> QED BY <2>2, <2>3 DEF Items
  <2>5. r.pos + step \in Nat /\ r.remaining - step \in 0 .. Longest
        /\ r.remaining - step < r.remaining /\ r.left - 1 \in 0 .. MAX_GROUP
    <3> DEFINE k == e.name_size
               l == r.remaining
               x == r.pos
               m == step
    <3>1. k \in Nat /\ l \in 0 .. Longest /\ x \in Nat /\ m = 9 + k /\ ~ (m > l)
      BY <1>2, <1>3, <2>1
    <3> HIDE DEF k, l, x, m
    <3>2. x + m \in Nat /\ l - m \in 0 .. Longest /\ l - m < l
      BY <1>2, <3>1
    <3>3. r.left - 1 \in 0 .. MAX_GROUP
      BY <1>2
    <3> QED BY <3>2, <3>3 DEF l, m, x
  <2> HIDE DEF path, step, node, e
  <2>6. next \in Regions /\ next.depth = r.depth /\ next.remaining < r.remaining
    BY <1>2, <2>5 DEF Regions, Region
  <2>7. ASSUME inside, ~empty PROVE sub \in Regions /\ sub.depth = r.depth + 1
    <3>1. node.dir \in Nat /\ node.dir_size - 3 \in 0 .. Longest
          /\ r.depth + 1 \in 0 .. MAX_DIR_DEPTH
      <4>1. node.dir \in Nat
        BY <2>2, <2>7
      <4> DEFINE k == node.dir_size
                 d == r.depth
      <4>2. k \in 0 .. Longest /\ ~ (k < 4) /\ d \in 0 .. MAX_DIR_DEPTH /\ d < MAX_DIR_DEPTH
        BY <1>2, <2>2, <2>7
      <4> HIDE DEF k, d
      <4>3. k - 3 \in 0 .. Longest /\ d + 1 \in 0 .. MAX_DIR_DEPTH
        BY <1>2, <4>2
      <4> QED BY <4>1, <4>3 DEF k, d
    <3> QED BY <1>2, <2>3, <3>1 DEF Regions, Region
  <2> QED BY <2>4, <2>6, <2>7
<1> HIDE DEF entry, inside, empty, is_dir, bad, sub, next
<1>4. ASSUME ~bad PROVE PlaceOK(r, EntryPlace(r))
  <2>1. entry \in Items /\ next \in Regions /\ Ranks[next] < Ranks[r]
        /\ (inside /\ ~empty => sub \in Regions /\ Ranks[sub] < Ranks[r])
    BY <1>3, <1>4, RanksOf
  <2>2. Broken \in Items
    BY DEF Broken, Items
  <2> DEFINE p == EntryPlace(r)
  <2>3. /\ p.items = IF is_dir /\ ~inside THEN <<entry, Broken>> ELSE <<entry>>
        /\ p.down = IF is_dir /\ inside /\ ~empty THEN {sub} ELSE {}
        /\ p.on = {next}
    BY <1>1, <1>4
  <2> HIDE DEF p
  <2>4. p.items \in Seq(Items)
    <3>1. <<entry, Broken>> \in Seq(Items) /\ <<entry>> \in Seq(Items)
      BY <2>1, <2>2
    <3> QED BY <2>3, <3>1
  <2>5. \A y \in p.down \cup p.on : y \in Regions /\ Ranks[y] < Ranks[r]
    BY <2>1, <2>3
  <2> QED BY <2>4, <2>5 DEF PlaceOK, p
<1> QED BY <1>1, <1>4, EmptyPlacesOK

\* Every place is followed by places of a smaller rank, whatever cycles the
\* image has.
LEMMA PlacesRanked ==
    ASSUME ImageOK(im)
    PROVE  /\ Ranked(Places, Items, Ranks, MaxRank) /\ MaxRank \in Nat
           /\ DOMAIN Places = Regions
<1>1. MAX_DIR_DEPTH \in Nat /\ Longest \in Nat
  BY FsTreeAssumption, LongestBounds
<1>2. MaxRank \in Nat
  <2> DEFINE a == MAX_DIR_DEPTH + 1
             b == Longest + 1
  <2>1. a \in Nat /\ b \in Nat
    BY <1>1
  <2> HIDE DEF a, b
  <2>2. a * b \in Nat
    BY <2>1
  <2> QED BY <2>2 DEF MaxRank, a, b
<1>3. DOMAIN Places = Regions
  BY DEF Places
<1>4. ASSUME NEW r \in Regions PROVE PlaceOK(r, Places[r])
  BY EmptyPlacesOK, HeaderPlaceOK, EntryPlaceOK DEF Places, Place
<1>5. ASSUME NEW r \in DOMAIN Places
      PROVE  /\ Ranks[r] \in 0 .. MaxRank
             /\ Places[r].items \in Seq(Items)
             /\ \A y \in Places[r].down \cup Places[r].on :
                  y \in DOMAIN Places /\ Ranks[y] < Ranks[r]
  BY <1>3, <1>4, RanksOf DEF PlaceOK
<1>6. Ranked(Places, Items, Ranks, MaxRank)
  BY <1>5 DEF Ranked
<1> QED BY <1>2, <1>3, <1>6

\* What is listed from a region on.
LEMMA PreorderUnfolds ==
    ASSUME ImageOK(im), NEW r \in Regions
    PROVE  /\ Preorder[r] \in Seq(Items)
           /\ Preorder[r] = ListedFrom(Places, Preorder, r)
<1>1. Preorder = Listing(Places)
  BY DEF Preorder, Places
<1>2. Ranked(Places, Items, Ranks, MaxRank) /\ MaxRank \in Nat /\ r \in DOMAIN Places
  BY PlacesRanked
<1>3. Listing(Places)[r] \in Seq(Items)
  BY <1>2, ListingTyped
<1>4. Listing(Places)[r] = ListedFrom(Places, Listing(Places), r)
  BY <1>2, ListingUnfolds
<1> QED BY <1>1, <1>3, <1>4

\* The equation of Preorder, for each shape of a place.
LEMMA PlaceLists ==
    ASSUME ImageOK(im), NEW r \in Regions, NEW p, p = Place(r)
    PROVE  /\ Preorder[r] \in Seq(Items) /\ p.items \in Seq(Items)
           /\ p.down = {} /\ p.on = {} => Preorder[r] = p.items
           /\ \A y : p.on = {y} =>
                /\ y \in Regions /\ Preorder[y] \in Seq(Items)
                /\ p.down = {} => Preorder[r] = p.items \o Preorder[y]
                /\ \A x : p.down = {x} =>
                     /\ x \in Regions /\ Preorder[x] \in Seq(Items)
                     /\ Preorder[r] = (p.items \o Preorder[x]) \o Preorder[y]
<1>1. Preorder[r] \in Seq(Items) /\ Preorder[r] = ListedFrom(Places, Preorder, r)
  BY PreorderUnfolds
<1>2. Places[r] = p /\ Ranked(Places, Items, Ranks, MaxRank) /\ DOMAIN Places = Regions
  BY PlacesRanked DEF Places
<1>3. p.items \in Seq(Items) /\ \A y \in p.down \cup p.on : y \in Regions
  BY <1>2 DEF Ranked
<1>4. Preorder[r] = (p.items \o At(Preorder, p.down)) \o At(Preorder, p.on)
  BY <1>1, <1>2 DEF ListedFrom
<1>5. At(Preorder, {}) = <<>> /\ \A y : At(Preorder, {y}) = Preorder[y]
  BY DEF At
<1>6. \A y \in Regions : Preorder[y] \in Seq(Items)
  BY PreorderUnfolds
<1>7. \A z \in Seq(Items) : z \o <<>> = z
  OBVIOUS
<1>8. ASSUME p.down = {}, p.on = {} PROVE Preorder[r] = p.items
  BY <1>3, <1>4, <1>5, <1>7, <1>8
<1>9. ASSUME NEW y, p.on = {y} PROVE y \in Regions /\ Preorder[y] \in Seq(Items)
  BY <1>3, <1>6, <1>9
<1>10. ASSUME NEW y, p.on = {y}, p.down = {} PROVE Preorder[r] = p.items \o Preorder[y]
  <2>1. p.items \o <<>> = p.items
    BY <1>3, <1>7
  <2> QED BY <1>4, <1>5, <1>10, <2>1
<1>11. ASSUME NEW y, p.on = {y}, NEW x, p.down = {x}
       PROVE  /\ x \in Regions /\ Preorder[x] \in Seq(Items)
              /\ Preorder[r] = (p.items \o Preorder[x]) \o Preorder[y]
  <2>1. x \in Regions
    BY <1>3, <1>11
  <2>2. At(Preorder, p.down) = Preorder[x] /\ At(Preorder, p.on) = Preorder[y]
    BY <1>5, <1>11
  <2> QED BY <1>4, <1>6, <2>1, <2>2
<1> QED BY <1>1, <1>3, <1>8, <1>9, <1>10, <1>11

-----------------------------------------------------------------------------
(* The walk and the listing.                                               *)

\* Inductive: the length each frame carries is that of its path.
Measures(s) == \A i \in 1 .. Len(s) : s[i].path = <<>> \/ s[i].plen = StrLen(s[i].path)

Here == Region(Len(stack) - 1, Top.pos, Top.remaining, Top.left, Top.start, Top.path)

\* Behind a header, behind an entry, and below one.
NextGroup == Region(Len(stack) - 1, Top.pos + HDR_SIZE, Top.remaining - HDR_SIZE,
                    entry_count(im.hdr[Top.pos].count), im.hdr[Top.pos].start, Top.path)
NextPlace == Region(Len(stack) - 1, Top.pos + ENT_SIZE + name_len,
                    Top.remaining - ENT_SIZE - name_len, Top.left - 1, Top.start, Top.path)
SubPlace  == Region(Len(stack), ChildNode.dir, ChildNode.dir_size - 3, 0, 0, ChildPath)

Item == ListEntry(ChildPath, ChildNode.type, ChildNode.file_size)

\* The deepest frame stands at a place of the image.
LEMMA HereIsPlace ==
    ASSUME TypeOK, WalkInListing, StackBounded, stack # <<>>
    PROVE  /\ ImageOK(im) /\ Here \in Regions
           /\ Len(stack) \in Nat \ {0} /\ Top \in Frames
           /\ Top.pos \in Nat /\ Top.remaining \in Nat /\ Top.left \in 0 .. MAX_GROUP
           /\ Top.start \in Nat /\ Top.path \in Seq(Names)
           /\ Len(stack) - 1 \in 0 .. MAX_DIR_DEPTH
<1> DEFINE n == Len(stack)
<1>1. /\ n \in Nat \ {0} /\ n \in 1 .. n /\ stack[n] \in Frames /\ Top = stack[n]
      /\ ImageOK(im)
  BY DEF TypeOK, Top
<1>2. /\ Top.pos \in Nat /\ Top.remaining \in Nat /\ Top.left \in 0 .. MAX_GROUP
      /\ Top.start \in Nat /\ Top.path \in Seq(Names)
  BY <1>1 DEF Frames
<1>3. n - 1 \in 0 .. MAX_DIR_DEPTH
  BY <1>1, FsTreeAssumption DEF StackBounded
<1>4. PICK x \in DOMAIN im.inode :
        /\ im.inode[x].dir <= Top.pos
        /\ Top.pos + Top.remaining = im.inode[x].dir + im.inode[x].dir_size - 3
  BY <1>1 DEF WalkInListing
<1>5. Longest \in Nat /\ im.inode[x].dir_size \in 0 .. Longest
  BY <1>1, LongestBounds
<1>6. im.inode[x].dir \in Int
  BY <1>1 DEF ImageOK, InodeOK, Inodes, NoPos
<1>7. Top.remaining \in 0 .. Longest
  BY <1>2, <1>4, <1>5, <1>6
<1>8. Here \in Regions
  BY <1>2, <1>3, <1>7 DEF Here, Region, Regions
<1> QED BY <1>1, <1>2, <1>3, <1>8

\* At the end of a listing, and at a header.
LEMMA ListedAtHeader ==
    ASSUME TypeOK, WalkInListing, StackBounded, stack # <<>>, Top.left = 0
    PROVE  /\ Preorder[Here] \in Seq(Items)
           /\ Top.remaining = 0 => Preorder[Here] = <<>>
           /\ Top.remaining > 0 /\ ~HeaderAccepted => Broken \in Range(Preorder[Here])
           /\ Top.remaining > 0 /\ HeaderAccepted =>
                Preorder[NextGroup] \in Seq(Items) /\ Preorder[Here] = Preorder[NextGroup]
<1> DEFINE r == Here
           h == im.hdr[Top.pos]
           p == Place(r)
<1>1. /\ r.depth = Len(stack) - 1 /\ r.pos = Top.pos /\ r.remaining = Top.remaining
      /\ r.left = Top.left /\ r.start = Top.start /\ r.path = Top.path
  BY DEF Here, Region
<1>2. ImageOK(im) /\ r \in Regions /\ Top.remaining \in Nat
  BY HereIsPlace
<1>3. U32 \in Nat \ {0} /\ MAX_GROUP \in Nat
  BY SquashfsAssumption
<1>4. Top.pos \in DOMAIN im.hdr =>
        /\ h.count \in 0 .. U32 - 1
        /\ entry_count(h.count) = IF h.count = U32 - 1 THEN 0 ELSE h.count + 1
  <2> SUFFICES ASSUME Top.pos \in DOMAIN im.hdr
               PROVE  /\ h.count \in 0 .. U32 - 1
                      /\ entry_count(h.count) = IF h.count = U32 - 1 THEN 0 ELSE h.count + 1
    OBVIOUS
  <2> DEFINE c == h.count
  <2>1. c \in 0 .. U32 - 1
    BY <1>2 DEF ImageOK
  <2> HIDE DEF c
  <2>2. entry_count(c) = IF c = U32 - 1 THEN 0 ELSE c + 1
    <3>1. CASE c = U32 - 1
      <4>1. c + 1 = U32 /\ U32 % U32 = 0
        BY <1>3, <3>1
      <4> QED BY <3>1, <4>1 DEF entry_count
    <3>2. CASE c # U32 - 1
      <4>1. c + 1 \in 0 .. U32 - 1
        BY <1>3, <2>1, <3>2
      <4>2. (c + 1) % U32 = c + 1
        BY <1>3, <4>1
      <4> QED BY <3>2, <4>2 DEF entry_count
    <3> QED BY <3>1, <3>2
  <2> QED BY <2>1, <2>2 DEF c
<1> DEFINE bad == \/ Top.remaining < 12 \/ Top.pos \notin DOMAIN im.hdr
                  \/ h.count >= MAX_GROUP /\ h.count # U32 - 1
<1>5. HeaderAccepted <=> ~bad
  BY <1>2, <1>3, <1>4 DEF HeaderAccepted, HDR_SIZE
<1>6. /\ Top.remaining = 0 => p = Nothing
      /\ Top.remaining > 0 /\ bad => p = Wrong
      /\ Top.remaining > 0 /\ ~bad => p = [items |-> <<>>, down |-> {}, on |-> {NextGroup}]
  <2> DEFINE n == IF h.count = U32 - 1 THEN 0 ELSE h.count + 1
             next == Region(r.depth, r.pos + 12, r.remaining - 12, n, h.start, r.path)
  <2>1. ~bad => next = NextGroup
    BY <1>1, <1>4 DEF NextGroup, HDR_SIZE
  <2>2. ~ (r.left > 0)
    BY <1>1
  <2>3. r.remaining > 0 <=> Top.remaining > 0
    BY <1>1
  <2>4. p = IF r.remaining > 0 THEN HeaderPlace(r) ELSE Nothing
    BY <2>2 DEF Place
  <2>5. HeaderPlace(r) = IF bad THEN Wrong ELSE [items |-> <<>>, down |-> {}, on |-> {next}]
    BY <1>1 DEF HeaderPlace
  <2> HIDE DEF p, r, bad, next
  <2>6. Top.remaining = 0 => ~ (Top.remaining > 0)
    BY <1>2
  <2> QED BY <2>1, <2>3, <2>4, <2>5, <2>6
<1> HIDE DEF p, r, bad
<1>7. /\ Preorder[r] \in Seq(Items)
      /\ p.down = {} /\ p.on = {} => Preorder[r] = p.items
      /\ \A y : p.on = {y} /\ p.down = {} =>
           Preorder[y] \in Seq(Items) /\ Preorder[r] = p.items \o Preorder[y]
  BY <1>2, PlaceLists DEF p
<1>8. ASSUME Top.remaining = 0 PROVE Preorder[r] = <<>>
  BY <1>6, <1>7, <1>8 DEF Nothing
<1>9. ASSUME Top.remaining > 0, bad PROVE Broken \in Range(Preorder[r])
  <2>1. Preorder[r] = <<Broken>>
    BY <1>6, <1>7, <1>9 DEF Wrong
  <2>2. 1 \in DOMAIN <<Broken>> /\ <<Broken>>[1] = Broken
    OBVIOUS
  <2> QED BY <2>1, <2>2 DEF Range
<1>10. ASSUME Top.remaining > 0, ~bad
       PROVE  Preorder[NextGroup] \in Seq(Items) /\ Preorder[r] = Preorder[NextGroup]
  <2> DEFINE x == Preorder[NextGroup]
  <2>1. p.items = <<>> /\ p.down = {} /\ p.on = {NextGroup}
    BY <1>6, <1>10
  <2>2. x \in Seq(Items) /\ Preorder[r] = <<>> \o x
    BY <1>7, <2>1
  <2> HIDE DEF x
  <2>3. <<>> \o x = x
    BY <2>2
  <2> QED BY <2>2, <2>3 DEF x
<1> QED BY <1>5, <1>7, <1>8, <1>9, <1>10 DEF r

\* At an entry.
LEMMA ListedAtEntry ==
    ASSUME TypeOK, Measures(stack), WalkInListing, StackBounded, AtEntry
    PROVE  /\ Preorder[Here] \in Seq(Items)
           /\ ~EntryAccepted =>
                \/ Broken \in Range(Preorder[Here])
                \/ mode = "extract"
           /\ EntryAccepted =>
                /\ Item \in ListEntries /\ Preorder[NextPlace] \in Seq(Items)
                /\ ChildNode.type # "dir" \/ (IsEmpty(ChildNode) /\ Enterable(ChildNode, Len(stack))) =>
                     Preorder[Here] = <<Item>> \o Preorder[NextPlace]
                /\ ChildNode.type = "dir" /\ ~IsEmpty(ChildNode)
                   /\ Enterable(ChildNode, Len(stack)) =>
                     /\ Preorder[SubPlace] \in Seq(Items)
                     /\ Preorder[Here] = (<<Item>> \o Preorder[SubPlace]) \o Preorder[NextPlace]
                /\ ChildNode.type = "dir" /\ ~Enterable(ChildNode, Len(stack)) =>
                     Broken \in Range(Preorder[Here])
<1> DEFINE r == Here
           n == Len(stack)
           p == Place(r)
           step   == 9 + Child.name_size
           is_dir == ChildNode.type = "dir"
           empty  == ChildNode.dir_size < 4
           inside == n - 1 < MAX_DIR_DEPTH /\ (empty \/ ChildNode.dir # NoPos)
           bad    == \/ Top.pos \notin DOMAIN im.ent \/ Child.name = Unsafe
                     \/ step > Top.remaining \/ Child.name_size >= MAX_NAME
                     \/ ChildRef \notin DOMAIN im.inode \/ StrLen(ChildPath) >= PATH_CAP
<1>1. /\ r.depth = n - 1 /\ r.pos = Top.pos /\ r.remaining = Top.remaining
      /\ r.left = Top.left /\ r.start = Top.start /\ r.path = Top.path
  BY DEF Here, Region
<1>0. stack # <<>> /\ Top.left > 0
  BY DEF AtEntry
<1>2. ImageOK(im) /\ r \in Regions /\ n \in Nat \ {0} /\ Top \in Frames
      /\ Top.pos \in Nat /\ Top.remaining \in Nat /\ Top.path \in Seq(Names)
  BY <1>0, HereIsPlace
<1>3. MAX_NAME \in Nat /\ MAX_DIR_DEPTH \in Nat /\ PATH_CAP \in Nat
  BY SquashfsAssumption, FsTreeAssumption
<1>4. Item = [path |-> ChildPath, kind |-> ChildNode.type,
              size |-> IF is_dir THEN 0 ELSE ChildNode.file_size]
  BY DEF Item, ListEntry
<1>5. /\ bad => p = Wrong
      /\ ~bad => p = [items |-> IF is_dir /\ ~inside THEN <<Item, Broken>> ELSE <<Item>>,
                      down  |-> IF is_dir /\ inside /\ ~empty THEN {SubPlace} ELSE {},
                      on    |-> {NextPlace}]
  <2>1. im.ent[r.pos] = Child /\ <<r.start, Child.offset>> = ChildRef
        /\ im.inode[ChildRef] = ChildNode /\ Append(r.path, Child.name) = ChildPath
    BY <1>1 DEF Child, ChildRef, ChildNode, ChildPath
  <2> DEFINE sub == Region(r.depth + 1, ChildNode.dir, ChildNode.dir_size - 3, 0, 0, ChildPath)
             next == Region(r.depth, r.pos + step, r.remaining - step, r.left - 1,
                            r.start, r.path)
  <2>2. sub = SubPlace
    <3>1. r.depth + 1 = n
      BY <1>1, <1>2
    <3> QED BY <3>1 DEF SubPlace
  <2>3. ~bad => next = NextPlace
    <3> SUFFICES ASSUME ~bad PROVE next = NextPlace
      OBVIOUS
    <3>1. Child.name_size \in Nat
      BY <1>2 DEF ImageOK, EntryOK, Child
    <3>2. Top.pos + step = Top.pos + ENT_SIZE + name_len
          /\ Top.remaining - step = Top.remaining - ENT_SIZE - name_len
      <4> DEFINE k == Child.name_size
                 x == Top.pos
                 l == Top.remaining
      <4>1. k \in Nat /\ x \in Nat /\ l \in Nat
        BY <1>2, <3>1
      <4> HIDE DEF k, x, l
      <4>2. x + (9 + k) = x + 8 + (k + 1) /\ l - (9 + k) = l - 8 - (k + 1)
        BY <4>1
      <4> QED BY <4>2 DEF k, x, l, ENT_SIZE, name_len
    <3> QED BY <1>1, <3>2 DEF NextPlace
  <2>4. p = EntryPlace(r)
    BY <1>0, <1>1 DEF Place
  <2>5. bad <=> \/ r.pos \notin DOMAIN im.ent \/ Child.name = Unsafe
                \/ step > r.remaining \/ Child.name_size >= MAX_NAME
                \/ ChildRef \notin DOMAIN im.inode \/ StrLen(ChildPath) >= PATH_CAP
    BY <1>1
  <2>6. inside <=> r.depth < MAX_DIR_DEPTH /\ (empty \/ ChildNode.dir # NoPos)
    BY <1>1
  <2> HIDE DEF p, r, bad, inside, n
  <2>7. p = IF bad THEN Wrong
            ELSE [items |-> IF is_dir /\ ~inside THEN <<Item, Broken>> ELSE <<Item>>,
                  down  |-> IF is_dir /\ inside /\ ~empty THEN {sub} ELSE {},
                  on    |-> {next}]
    BY <1>4, <2>1, <2>4, <2>5, <2>6 DEF EntryPlace
  <2> HIDE DEF sub, next, empty, is_dir
  <2> QED BY <2>2, <2>3, <2>7
<1>6. Child.name # Unsafe /\ Top.pos \in DOMAIN im.ent =>
        ChildLen = StrLen(ChildPath) /\ ChildLen \in Int
  <2> SUFFICES ASSUME Child.name # Unsafe, Top.pos \in DOMAIN im.ent
               PROVE  ChildLen = StrLen(ChildPath) /\ ChildLen \in Int
    OBVIOUS
  <2>1. Child.name \in Names
    BY <1>2 DEF ImageOK, EntryOK, Child
  <2>2. Top.path = <<>> \/ Top.plen = StrLen(Top.path)
    <3>1. n \in 1 .. n
      BY <1>2
    <3> QED BY <3>1 DEF Measures, Top
  <2>3. ChildLen = StrLen(ChildPath)
    BY <1>2, <2>1, <2>2, JoinedLenIsStrLen DEF ChildLen, ChildPath
  <2>4. /\ StrLen(Append(Top.path, Child.name)) = StrLen(Top.path) + 1 + NameLen[Child.name]
        /\ StrLen(Top.path) \in Int /\ NameLen[Child.name] \in Nat
    BY <1>2, <2>1, StrLenGrows, FsTreeAssumption
  <2>5. StrLen(ChildPath) \in Int
    BY <2>4 DEF ChildPath
  <2> QED BY <2>3, <2>5
<1>7. /\ EntryAccepted => ~bad
      /\ ~EntryAccepted => bad \/ mode = "extract"
  <2>1. Top.pos \in DOMAIN im.ent => Child.name_size \in Nat
    BY <1>2 DEF ImageOK, EntryOK, Child
  <2> DEFINE k == Child.name_size
             l == Top.remaining
             known == Top.pos \in DOMAIN im.ent
             led == ChildRef \in DOMAIN im.inode
             fits == Child.name # Unsafe /\ ChildLen < PATH_CAP
             wanted == mode = "extract" /\ ChildNode.type = "reg" => ContentReadable(ChildNode)
  <2>2. l \in Nat /\ (known => k \in Nat)
    BY <1>2, <2>1
  <2>3. known => (bad <=> 9 + k > l \/ k >= MAX_NAME \/ ~led \/ ~fits)
    BY <1>3, <1>6
  <2>4. ~known => bad
    OBVIOUS
  <2>5. EntryAccepted <=> /\ l >= 8 /\ known /\ k + 1 <= l - 8 /\ k + 1 <= MAX_NAME
                          /\ fits /\ led /\ wanted
    BY DEF EntryAccepted, ENT_SIZE, name_len
  <2>6. wanted \/ mode = "extract"
    OBVIOUS
  <2> HIDE DEF k, l, known, fits, led, wanted, bad
  <2> QED BY <1>3, <2>2, <2>3, <2>4, <2>5, <2>6
<1>8. ~bad => ChildNode.dir_size \in Nat /\ ChildNode.file_size \in Nat
              /\ ChildPath \in Seq(Names) /\ ChildNode.type \in {"dir", "reg", "other"}
  <2> SUFFICES ASSUME ~bad
               PROVE  ChildNode.dir_size \in Nat /\ ChildNode.file_size \in Nat
                      /\ ChildPath \in Seq(Names)
                      /\ ChildNode.type \in {"dir", "reg", "other"}
    OBVIOUS
  <2>1. ChildNode \in Inodes
    BY <1>2 DEF ImageOK, InodeOK, ChildNode
  <2>2. Child.name \in Names
    BY <1>2 DEF ImageOK, EntryOK, Child
  <2>3. ChildPath \in Seq(Names)
    BY <1>2, <2>2 DEF ChildPath
  <2> QED BY <2>1, <2>3 DEF Inodes
<1>9. Enterable(ChildNode, n) <=> inside
  <2>1. n <= MAX_DIR_DEPTH <=> n - 1 < MAX_DIR_DEPTH
    BY <1>2, <1>3
  <2> QED BY <2>1 DEF Enterable, IsEmpty
<1>10. IsEmpty(ChildNode) <=> empty
  BY DEF IsEmpty
<1>11. /\ Preorder[r] \in Seq(Items) /\ p.items \in Seq(Items)
       /\ p.down = {} /\ p.on = {} => Preorder[r] = p.items
       /\ p.on = {NextPlace} =>
            /\ Preorder[NextPlace] \in Seq(Items)
            /\ p.down = {} => Preorder[r] = p.items \o Preorder[NextPlace]
            /\ p.down = {SubPlace} =>
                 /\ Preorder[SubPlace] \in Seq(Items)
                 /\ Preorder[r] = (p.items \o Preorder[SubPlace]) \o Preorder[NextPlace]
  <2>1. p = Place(r) /\ r \in Regions /\ ImageOK(im)
    BY <1>2
  <2> HIDE DEF p, r
  <2>2. /\ Preorder[r] \in Seq(Items) /\ p.items \in Seq(Items)
        /\ p.down = {} /\ p.on = {} => Preorder[r] = p.items
        /\ \A y : p.on = {y} =>
             /\ y \in Regions /\ Preorder[y] \in Seq(Items)
             /\ p.down = {} => Preorder[r] = p.items \o Preorder[y]
             /\ \A x : p.down = {x} =>
                  /\ x \in Regions /\ Preorder[x] \in Seq(Items)
                  /\ Preorder[r] = (p.items \o Preorder[x]) \o Preorder[y]
    BY <2>1, PlaceLists DEF p
  <2> QED BY <2>2
<1> HIDE DEF p, r, bad, inside, n
<1>12. ASSUME bad PROVE Broken \in Range(Preorder[r])
  <2>1. Preorder[r] = <<Broken>>
    BY <1>5, <1>11, <1>12 DEF Wrong
  <2>2. 1 \in DOMAIN <<Broken>> /\ <<Broken>>[1] = Broken
    OBVIOUS
  <2> QED BY <2>1, <2>2 DEF Range
<1>13. ASSUME ~bad
       PROVE  /\ Item \in ListEntries /\ Preorder[NextPlace] \in Seq(Items)
              /\ ~is_dir \/ (empty /\ inside) => Preorder[r] = <<Item>> \o Preorder[NextPlace]
              /\ is_dir /\ ~empty /\ inside =>
                   /\ Preorder[SubPlace] \in Seq(Items)
                   /\ Preorder[r] = (<<Item>> \o Preorder[SubPlace]) \o Preorder[NextPlace]
              /\ is_dir /\ ~inside => Broken \in Range(Preorder[r])
  <2> HIDE DEF is_dir, empty
  <2>1. /\ p.items = IF is_dir /\ ~inside THEN <<Item, Broken>> ELSE <<Item>>
        /\ p.down = IF is_dir /\ inside /\ ~empty THEN {SubPlace} ELSE {}
        /\ p.on = {NextPlace}
    BY <1>5, <1>13
  <2>2. Item \in ListEntries
    <3>1. Item \in Items /\ Item.size \in Nat
      BY <1>4, <1>8, <1>13 DEF Items, is_dir
    <3> QED BY <3>1 DEF ListEntries
  <2>3. Preorder[NextPlace] \in Seq(Items)
    BY <1>11, <2>1
  <2>4. ASSUME ~is_dir \/ (empty /\ inside)
        PROVE  Preorder[r] = <<Item>> \o Preorder[NextPlace]
    <3>1. p.items = <<Item>> /\ p.down = {}
      BY <2>1, <2>4
    <3> QED BY <1>11, <2>1, <3>1
  <2>5. ASSUME is_dir, ~empty, inside
        PROVE  /\ Preorder[SubPlace] \in Seq(Items)
               /\ Preorder[r] = (<<Item>> \o Preorder[SubPlace]) \o Preorder[NextPlace]
    <3>1. p.items = <<Item>> /\ p.down = {SubPlace}
      BY <2>1, <2>5
    <3> QED BY <1>11, <2>1, <3>1
  <2>6. ASSUME is_dir, ~inside PROVE Broken \in Range(Preorder[r])
    <3> DEFINE two  == <<Item, Broken>>
               rest == Preorder[NextPlace]
    <3>1. p.items = two /\ p.down = {}
      BY <2>1, <2>6
    <3>2. Broken \in Range(two)
      <4>1. 2 \in DOMAIN two /\ two[2] = Broken
        OBVIOUS
      <4> QED BY <4>1 DEF Range
    <3>3. two \in Seq(Items) /\ rest \in Seq(Items) /\ Preorder[r] = two \o rest
      BY <1>11, <2>1, <2>3, <3>1
    <3> HIDE DEF two, rest
    <3>4. Broken \in Range(two \o rest)
      BY <3>2, <3>3, InConcat
    <3> QED BY <3>3, <3>4
  <2> QED BY <2>2, <2>3, <2>4, <2>5, <2>6
<1> QED BY <1>7, <1>9, <1>10, <1>11, <1>12, <1>13 DEF r, n

\* An entry leaves the paths of the frames alone, and what it leaves of the
\* deepest one is the next place.
LEMMA AdvancedPlaces ==
    ASSUME TypeOK, AtEntry, EntryAccepted
    PROVE  /\ Len(Advanced) = Len(stack) /\ Advanced \in Seq(Frames)
           /\ \A i \in 1 .. Len(stack) - 1 : Advanced[i] = stack[i]
           /\ \A i \in 1 .. Len(stack) :
                Advanced[i].path = stack[i].path /\ Advanced[i].plen = stack[i].plen
           /\ RegionOf(Advanced, Len(stack)) = NextPlace
<1> DEFINE n == Len(stack)
           moved == [pos |-> Top.pos + ENT_SIZE + name_len,
                     remaining |-> Top.remaining - ENT_SIZE - name_len,
                     left |-> Top.left - 1, start |-> Top.start,
                     path |-> Top.path, plen |-> Top.plen]
<1>1. n \in Nat \ {0} /\ stack \in Seq(Frames) /\ Top = stack[n]
  BY ChildTyped DEF Top, TypeOK
<1>2. Advanced = [stack EXCEPT ![n] = moved]
  BY DEF Advanced
<1>3. Advanced[n] = moved /\ \A i \in 1 .. n : i # n => Advanced[i] = stack[i]
  BY <1>1, <1>2
<1>4. \A i \in 1 .. n - 1 : i \in 1 .. n /\ i # n
  BY <1>1
<1>5. moved.path = stack[n].path /\ moved.plen = stack[n].plen
  BY <1>1
<1>6. RegionOf(Advanced, n) = NextPlace
  BY <1>3 DEF RegionOf, NextPlace
<1> HIDE DEF moved
<1>7. \A i \in 1 .. n - 1 : Advanced[i] = stack[i]
  BY <1>3, <1>4
<1>8. \A i \in 1 .. n : Advanced[i].path = stack[i].path /\ Advanced[i].plen = stack[i].plen
  BY <1>3, <1>5
<1> QED BY <1>6, <1>7, <1>8, AdvancedFrames

\* The same of a header.
LEMMA HeaderPlaces ==
    ASSUME TypeOK, ReadHeader
    PROVE  /\ Len(stack') = Len(stack)
           /\ \A i \in 1 .. Len(stack) - 1 : stack'[i] = stack[i]
           /\ \A i \in 1 .. Len(stack) :
                stack'[i].path = stack[i].path /\ stack'[i].plen = stack[i].plen
           /\ RegionOf(stack', Len(stack)) = NextGroup
<1> DEFINE n == Len(stack)
           moved == [pos |-> Top.pos + HDR_SIZE, remaining |-> Top.remaining - HDR_SIZE,
                     left |-> entry_count(im.hdr[Top.pos].count),
                     start |-> im.hdr[Top.pos].start, path |-> Top.path, plen |-> Top.plen]
<1>1. n \in Nat \ {0} /\ stack \in Seq(Frames) /\ Top = stack[n]
  BY DEF Top, TypeOK, ReadHeader, AtHeader
<1>2. stack' = [stack EXCEPT ![n] = moved]
  BY DEF ReadHeader
<1>3. stack'[n] = moved /\ \A i \in 1 .. n : i # n => stack'[i] = stack[i]
  BY <1>1, <1>2
<1>4. \A i \in 1 .. n - 1 : i \in 1 .. n /\ i # n
  BY <1>1
<1>5. moved.path = stack[n].path /\ moved.plen = stack[n].plen
  BY <1>1
<1>6. RegionOf(stack', n) = NextGroup
  BY <1>3 DEF RegionOf, NextGroup
<1> HIDE DEF moved
<1>7. \A i \in 1 .. n - 1 : stack'[i] = stack[i]
  BY <1>3, <1>4
<1>8. \A i \in 1 .. n : stack'[i].path = stack[i].path /\ stack'[i].plen = stack[i].plen
  BY <1>3, <1>5
<1> QED BY <1>6, <1>7, <1>8, HeaderFrames

\* The lengths the frames carry stay right.
LEMMA MeasuredStep == TypeOK /\ Measures(stack) /\ [Next]_vars => Measures(stack')
<1> SUFFICES ASSUME TypeOK, Measures(stack), [Next]_vars PROVE Measures(stack')
  OBVIOUS
<1> USE DEF Measures
<1>1. stack \in Seq(Frames) /\ Len(stack) \in Nat
  BY DEF TypeOK
<1>2. CASE stack' = stack
  BY <1>2
<1>3. CASE stack' = <<>>
  <2>1. 1 .. Len(stack') = {}
    BY <1>3
  <2> QED BY <2>1
<1>4. CASE Start /\ RootAccepted /\ stack' = Entered(<<>>, im.inode[im.root], <<>>, 0)
  <2> DEFINE root == Frame(im.inode[im.root], <<>>, 0)
  <2>1. stack' = <<>> \/ stack' = Append(<<>>, root)
    BY <1>4 DEF Entered
  <2>2. root.path = <<>>
    BY DEF Frame
  <2> HIDE DEF root
  <2>3. ASSUME stack' = Append(<<>>, root) PROVE Measures(stack')
    <3>1. Len(stack') = 1 /\ stack'[1] = root
      BY <2>3
    <3>2. \A i \in 1 .. 1 : i = 1
      OBVIOUS
    <3> QED BY <2>2, <3>1, <3>2
  <2> QED BY <1>3, <2>1, <2>3
<1>5. CASE ReadHeader
  BY <1>5, HeaderPlaces
<1>6. CASE AtEntry /\ EntryAccepted /\ stack' = Advanced
  BY <1>6, AdvancedPlaces
<1>7. CASE LeaveDirectory
  <2>1. stack # <<>> /\ stack' = SubSeq(stack, 1, Len(stack) - 1)
    BY <1>7 DEF LeaveDirectory, Front
  <2>2. Len(stack') = Len(stack) - 1 /\ \A i \in 1 .. Len(stack) - 1 : stack'[i] = stack[i]
    BY <1>1, <2>1, PrefixOfSequence
  <2>3. \A i \in 1 .. Len(stack) - 1 : i \in 1 .. Len(stack)
    BY <1>1
  <2> QED BY <2>2, <2>3
<1>8. CASE EnterDirectory
  <2> DEFINE n == Len(stack)
             sub == Frame(ChildNode, ChildPath, ChildLen)
  <2>1. AtEntry /\ EntryAccepted /\ (stack' = Advanced \/ stack' = Append(Advanced, sub))
    BY <1>8 DEF EnterDirectory, Entered
  <2>2. sub.path = ChildPath /\ sub.plen = ChildLen
    BY DEF Frame
  <2>3. ChildLen = StrLen(ChildPath)
    <3>1. Child.name \in Names
      BY <2>1 DEF TypeOK, ImageOK, EntryOK, EntryAccepted, Child
    <3>2. Top \in Frames /\ n \in 1 .. n
      BY <2>1, ChildTyped
    <3>3. Top.path \in Seq(Names) /\ (Top.path = <<>> \/ Top.plen = StrLen(Top.path))
      BY <3>2 DEF Frames, Top
    <3> QED BY <3>1, <3>3, JoinedLenIsStrLen DEF ChildLen, ChildPath
  <2>4. /\ Len(Advanced) = n /\ Advanced \in Seq(Frames)
        /\ \A i \in 1 .. n : Advanced[i].path = stack[i].path /\ Advanced[i].plen = stack[i].plen
    BY <2>1, AdvancedPlaces
  <2> HIDE DEF sub
  <2>5. ASSUME stack' = Append(Advanced, sub) PROVE Measures(stack')
    <3>1. /\ Len(stack') = n + 1 /\ stack'[n + 1] = sub
          /\ \A i \in 1 .. n : stack'[i] = Advanced[i]
      BY <1>1, <2>4, <2>5
    <3>2. \A i \in 1 .. n + 1 : i = n + 1 \/ i \in 1 .. n
      BY <1>1
    <3> QED BY <2>2, <2>3, <2>4, <3>1, <3>2
  <2> QED BY <1>6, <2>1, <2>5
<1> QED
  BY <1>2, <1>3, <1>4, <1>5, <1>6, <1>7, <1>8
  DEF Next, walk_directory, process_dir_entry, extract_regular_file, vars, Start,
      RejectHeader, RejectEntry, RejectDirectory, VisitOther, VisitRegular,
      RejectRegular, WriteBlock, WriteTail, RejectContent, CloseFile, Returned, Fail

\* Every frame carries the length of its path.
LEMMA Measured == Spec => []Measures(stack)
<1>1. Init => Measures(stack)
  <2>1. 1 .. Len(<<>>) = {}
    OBVIOUS
  <2> QED BY <2>1 DEF Init, Measures
<1>2. TypeOK /\ Measures(stack) /\ [Next]_vars => Measures(stack)'
  BY MeasuredStep DEF Measures
<1> QED BY <1>1, <1>2, TypeCorrect, PTL DEF Spec

\* Inductive: what is listed and what the frames have still to list is the tree.
ListInv ==
    /\ out \in Seq(ListEntries)
    /\ pc = "start" => out = <<>>
    /\ pc # "done" => rc = 0
    /\ pc \in {"walk", "file"} =>
         \E f : /\ Rests(Preorder, Items, stack, f)
                /\ Tree = out \o f[Len(stack)]
    /\ ListIsTree

\* What the walk has listed is sound.
LEMMA ListedAreItems == \A x \in Seq(ListEntries) : x \in Seq(Items) /\ Broken \notin Range(x)
<1> SUFFICES ASSUME NEW x \in Seq(ListEntries)
             PROVE  x \in Seq(Items) /\ Broken \notin Range(x)
  OBVIOUS
<1>1. Len(x) \in Nat /\ DOMAIN x = 1 .. Len(x) /\ \A i \in 1 .. Len(x) : x[i] \in ListEntries
  OBVIOUS
<1>2. ListEntries \subseteq Items /\ Broken \notin ListEntries
  BY DEF ListEntries, Broken
<1>3. x \in Seq(Items)
  BY <1>2
<1>4. Broken \notin Range(x)
  BY <1>1, <1>2 DEF Range
<1> QED BY <1>3, <1>4

\* The tree is that of the image, which stays.
LEMMA TreeStays == im' = im => Preorder' = Preorder /\ Tree' = Tree
<1> SUFFICES ASSUME im' = im PROVE Preorder' = Preorder /\ Tree' = Tree
  OBVIOUS
<1>1. Regions' = Regions /\ \A r : Place(r)' = Place(r)
  BY DEF Regions, Longest, Place, HeaderPlace, EntryPlace
<1>2. Preorder' = Preorder
  BY <1>1 DEF Preorder
<1> QED BY <1>2 DEF Tree

\* A failure while listing is one of the tree.
LEMMA FailedListing ==
    ASSUME ListInv, Fail, im' = im, mode' = mode,
           mode = "list" /\ ~MayFail => Broken \in Range(Tree)
    PROVE  ListInv'
<1>1. pc' = "done" /\ rc' = -1 /\ out' = <<>>
  BY DEF Fail
<1>2. Tree' = Tree
  BY TreeStays
<1>3. <<>> \in Seq(ListEntries)
  OBVIOUS
<1>4. MayFail' <=> MayFail
  BY DEF MayFail
<1>5. ListIsTree'
  BY <1>1, <1>2, <1>4 DEF ListIsTree
<1> QED BY <1>1, <1>3, <1>5 DEF ListInv

\* A tree that is broken at once.
LEMMA OneBroken == Broken \in Range(<<Broken>>)
<1>1. 1 \in DOMAIN <<Broken>> /\ <<Broken>>[1] = Broken
  OBVIOUS
<1> QED BY <1>1 DEF Range

\* Every step keeps the list and what is left to list together the tree.
LEMMA ListStep ==
    TypeInv /\ TypeInv' /\ Measures(stack) /\ WalkInListing /\ StackBounded
      /\ ListInv /\ [Next]_vars => ListInv'
<1> SUFFICES ASSUME TypeInv, TypeInv', Measures(stack), WalkInListing, StackBounded,
                    ListInv, [Next]_vars
             PROVE  ListInv'
  OBVIOUS
<1> DEFINE n == Len(stack)
<1>0. TypeOK /\ n \in Nat /\ stack \in Seq(Frames) /\ ImageOK(im)
  BY DEF TypeInv, TypeOK
<1>1. CASE UNCHANGED vars \/ Returned
  <2>1. im' = im /\ UNCHANGED <<mode, pc, rc, stack, out>>
    BY <1>1 DEF vars, Returned
  <2>2. Preorder' = Preorder /\ Tree' = Tree
    BY <2>1, TreeStays
  <2>3. ListIsTree'
    BY <2>1, <2>2 DEF ListInv, ListIsTree, MayFail
  <2>4. \A f : (Rests(Preorder, Items, stack, f) /\ Tree = out \o f[Len(stack)])
               => (Rests(Preorder', Items, stack', f) /\ Tree' = out' \o f[Len(stack')])
    BY <2>1, <2>2
  <2> QED BY <2>1, <2>3, <2>4 DEF ListInv, Items
<1>2. CASE Start
  <2> DEFINE node == im.inode[im.root]
             fits == im.len >= SUPER_SIZE /\ im.root \in DOMAIN im.inode /\ Enterable(node, 0)
  <2>1. pc = "start" /\ im' = im /\ mode' = mode
    BY <1>2 DEF Start
  <2>2. 0 <= MAX_DIR_DEPTH /\ im.len \in Nat
    BY <1>0, FsTreeAssumption DEF ImageOK
  <2>3. CASE Fail
    <3>1. mode = "list" /\ ~MayFail => ~fits
      <4>1. pc' = "done" /\ rc' = -1
        BY <2>3 DEF Fail
      <4>2. rc = 0
        BY <2>1 DEF ListInv
      <4>3. ~RootAccepted \/ MayFail
        BY <1>2, <4>1, <4>2 DEF Start
      <4> QED BY <4>3 DEF RootAccepted
    <3>2. ~fits => Tree = <<Broken>>
      <4>1. ~ (im.len >= SUPER_SIZE) <=> im.len < SUPER_SIZE
        BY <2>2 DEF SUPER_SIZE
      <4>2. Enterable(node, 0) <=> (node.dir_size < 4 \/ node.dir # NoPos)
        BY <2>2 DEF Enterable, IsEmpty
      <4> QED BY <4>1, <4>2 DEF Tree
    <3> QED BY <2>1, <2>3, <3>1, <3>2, FailedListing, OneBroken
  <2>4. CASE ~Fail
    <3>1. /\ RootAccepted /\ stack' = Entered(<<>>, node, <<>>, 0)
          /\ pc' = IF IsEmpty(node) THEN "done" ELSE "walk"
          /\ rc' = rc /\ out' = out
      BY <1>2, <2>4 DEF Start
    <3>2. /\ im.len >= SUPER_SIZE /\ im.root \in DOMAIN im.inode
          /\ IsEmpty(node) \/ node.dir # NoPos
      BY <3>1 DEF RootAccepted, Enterable
    <3>3. ~ (im.len < SUPER_SIZE)
      BY <2>2, <3>2 DEF SUPER_SIZE
    <3>4. rc' = 0 /\ out' = <<>>
      BY <2>1, <3>1 DEF ListInv
    <3>5. <<>> \in Seq(ListEntries)
      OBVIOUS
    <3>6. Preorder' = Preorder /\ Tree' = Tree
      BY <2>1, TreeStays
    <3>7. CASE IsEmpty(node)
      <4>1. Tree = <<>>
        BY <3>2, <3>3, <3>7 DEF Tree, IsEmpty
      <4>2. Broken \notin Range(<<>>)
        BY DEF Range
      <4>3. pc' = "done"
        BY <3>1, <3>7
      <4>4. ListIsTree'
        BY <3>4, <3>6, <4>1, <4>2 DEF ListIsTree
      <4> QED BY <3>4, <3>5, <4>3, <4>4 DEF ListInv
    <3>8. CASE ~IsEmpty(node)
      <4> DEFINE root == Frame(node, <<>>, 0)
                 r == Region(0, node.dir, node.dir_size - 3, 0, 0, <<>>)
                 s == <<root>>
                 x == Preorder[r]
                 f == [i \in 0 .. 1 |-> IF i = 0 THEN <<>> ELSE x]
      <4>1. stack' = s /\ pc' = "walk"
        <5>1. Append(<<>>, root) = <<root>>
          OBVIOUS
        <5> QED BY <3>1, <3>8, <5>1 DEF Entered
      <4>2. node.dir \in Nat /\ node.dir_size - 3 \in 0 .. Longest
        <5>1. node.dir \in Nat \cup {NoPos} /\ node.dir_size \in Nat
          BY <1>0, <3>2 DEF ImageOK, InodeOK, Inodes
        <5>2. Longest \in Nat /\ node.dir_size \in 0 .. Longest
          BY <1>0, <3>2, LongestBounds
        <5> QED BY <3>2, <3>8, <5>1, <5>2 DEF IsEmpty
      <4>3. r \in Regions
        <5>1. <<>> \in Seq(Names) /\ 0 \in 0 .. MAX_DIR_DEPTH /\ 0 \in 0 .. MAX_GROUP /\ 0 \in Nat
          BY SquashfsAssumption, FsTreeAssumption
        <5> QED BY <4>2, <5>1 DEF Regions, Region
      <4>4. x \in Seq(Items) /\ Tree = x
        <5>1. x \in Seq(Items)
          BY <1>0, <4>3, PreorderUnfolds
        <5>2. Tree = x
          BY <3>2, <3>3, <3>8 DEF Tree, IsEmpty
        <5> QED BY <5>1, <5>2
      <4>5. Len(s) = 1 /\ RegionOf(s, 1) = r
        BY DEF RegionOf, Frame, Region
      <4> HIDE DEF x, s, r
      <4>6. f[0] = <<>> /\ f[1] = x /\ x \o <<>> = x /\ <<>> \o x = x
        BY <4>4
      <4>7. Rests(Preorder, Items, s, f)
        <5>1. \A i \in 1 .. 1 : i = 1 /\ i - 1 = 0
          OBVIOUS
        <5>2. \A i \in 0 .. 1 : i = 0 \/ i = 1
          OBVIOUS
        <5>3. <<>> \in Seq(Items)
          OBVIOUS
        <5>4. 1 .. Len(s) = 1 .. 1 /\ 0 .. Len(s) = 0 .. 1
          BY <4>5
        <5> HIDE DEF f
        <5>5. ASSUME NEW i \in 1 .. Len(s)
              PROVE  /\ Preorder[RegionOf(s, i)] \in Seq(Items)
                     /\ f[i] = Preorder[RegionOf(s, i)] \o f[i - 1]
          <6>1. i = 1 /\ i - 1 = 0
            BY <5>1, <5>4
          <6> QED BY <4>4, <4>5, <4>6, <6>1 DEF x
        <5>6. ASSUME NEW i \in 0 .. Len(s) PROVE f[i] \in Seq(Items)
          <6>1. i = 0 \/ i = 1
            BY <5>2, <5>4
          <6> QED BY <4>4, <4>6, <5>3, <6>1
        <5> QED BY <4>6, <5>5, <5>6 DEF Rests
      <4> HIDE DEF f
      <4>8. Rests(Preorder', Items, stack', f) /\ Tree' = out' \o f[Len(stack')]
        BY <3>4, <3>6, <4>1, <4>4, <4>5, <4>6, <4>7
      <4>9. ListIsTree'
        BY <4>1 DEF ListIsTree
      <4> QED BY <3>4, <3>5, <4>1, <4>8, <4>9 DEF ListInv, Items
    <3> QED BY <3>7, <3>8
  <2> QED BY <2>3, <2>4
\* A walk that goes on: what is listed and what is left are the tree again.
<1>3. ASSUME pc \in {"walk", "file"}, pc' \in {"walk", "file"}, im' = im, rc' = rc,
             out' \in Seq(ListEntries),
             NEW f, Rests(Preorder, Items, stack', f), Tree = out' \o f[Len(stack')]
      PROVE  ListInv'
  <2>1. Preorder' = Preorder /\ Tree' = Tree
    BY <1>3, TreeStays
  <2>2. pc' # "done" /\ pc' # "start" /\ rc' = 0
    BY <1>3 DEF ListInv
  <2>3. Rests(Preorder', Items, stack', f) /\ Tree' = out' \o f[Len(stack')]
    BY <1>3, <2>1
  <2>4. ListIsTree'
    BY <2>2 DEF ListIsTree
  <2> QED BY <1>3, <2>2, <2>3, <2>4 DEF ListInv, Items
\* The place the walk is at.
<1>4. ASSUME pc = "walk", stack # <<>>
      PROVE  /\ n \in Nat \ {0} /\ RegionOf(stack, n) = Here
             /\ Preorder[Here] \in Seq(Items)
             /\ \E f : /\ Rests(Preorder, Items, stack, f) /\ Tree = out \o f[n]
                       /\ f[n] \in Seq(Items)
                       /\ f[n] = Preorder[Here] \o f[n - 1] /\ f[n - 1] \in Seq(Items)
  <2>1. n \in Nat \ {0} /\ n \in 1 .. n /\ n \in 0 .. n /\ n - 1 \in 0 .. n
    BY <1>0, <1>4
  <2>2. RegionOf(stack, n) = Here
    BY DEF RegionOf, Here, Top
  <2>3. PICK f : Rests(Preorder, Items, stack, f) /\ Tree = out \o f[n]
    BY <1>4 DEF ListInv
  <2>4. /\ f[n] \in Seq(Items) /\ f[n - 1] \in Seq(Items)
        /\ f[n] = Preorder[Here] \o f[n - 1] /\ Preorder[Here] \in Seq(Items)
    BY <2>1, <2>2, <2>3 DEF Rests
  <2> QED BY <2>1, <2>2, <2>3, <2>4
\* What is wrong here is wrong with the tree.
<1>5. ASSUME pc = "walk", stack # <<>>, Broken \in Range(Preorder[Here])
      PROVE  Broken \in Range(Tree)
  <2>1. PICK f : /\ Tree = out \o f[n] /\ f[n] \in Seq(Items)
                 /\ f[n] = Preorder[Here] \o f[n - 1] /\ f[n - 1] \in Seq(Items)
    BY <1>4, <1>5
  <2> DEFINE x == Preorder[Here]
             y == f[n - 1]
             z == f[n]
  <2>2. x \in Seq(Items) /\ y \in Seq(Items) /\ z \in Seq(Items) /\ z = x \o y
        /\ Tree = out \o z /\ Broken \in Range(x)
    BY <1>4, <1>5, <2>1
  <2>3. out \in Seq(Items)
    BY ListedAreItems DEF ListInv
  <2> HIDE DEF x, y, z
  <2>4. Broken \in Range(z)
    BY <2>2, InConcat
  <2>5. Broken \in Range(out \o z)
    BY <2>2, <2>3, <2>4, InConcat
  <2> QED BY <2>2, <2>5
\* The deepest frame moves on, and lists c on the way.
<1>6. ASSUME pc = "walk", stack # <<>>, NEW u, NEW c \in Seq(Items),
             Len(u) = n, \A i \in 1 .. n - 1 : u[i] = stack[i],
             Preorder[RegionOf(u, n)] \in Seq(Items),
             Preorder[Here] = c \o Preorder[RegionOf(u, n)]
      PROVE  \E f, g : /\ Rests(Preorder, Items, u, g)
                       /\ Tree = out \o f /\ f = c \o g[n] /\ g[n] \in Seq(Items)
  <2>1. PICK f : Rests(Preorder, Items, stack, f) /\ Tree = out \o f[n]
    BY <1>4, <1>6
  <2> DEFINE s == stack
             L == Preorder
             I == Items
             m == n
  <2>2. /\ m \in Nat \ {0} /\ Len(s) = m /\ Len(u) = m /\ (\A i \in 1 .. m - 1 : u[i] = s[i])
        /\ Rests(L, I, s, f) /\ L[RegionOf(u, m)] \in Seq(I) /\ c \in Seq(I)
        /\ L[RegionOf(s, m)] = c \o L[RegionOf(u, m)]
    BY <1>4, <1>6, <2>1
  <2> HIDE DEF s, L, I, m
  <2>3. PICK g : Rests(L, I, u, g) /\ f[m] = c \o g[m]
    <3>1. Moved(L, I, s, u, m, c) /\ Rests(L, I, s, f)
      BY <2>2 DEF Moved
    <3>2. \E g : Rests(L, I, u, g) /\ f[m] = c \o g[m]
      BY <3>1, RestsMoved
    <3> QED BY <3>2
  <2>4. m \in 0 .. m
    BY <2>2
  <2>5. g[m] \in Seq(I)
    BY <2>2, <2>3, <2>4 DEF Rests
  <2>6. Tree = out \o f[m]
    BY <2>1 DEF m
  <2>7. Rests(Preorder, Items, u, g) /\ g[m] \in Seq(Items)
    BY <2>3, <2>5 DEF L, I
  <2>8. \E h, k : /\ Rests(Preorder, Items, u, k)
                  /\ Tree = out \o h /\ h = c \o k[m] /\ k[m] \in Seq(Items)
    <3> DEFINE h == f[m]
    <3>1. Tree = out \o h /\ h = c \o g[m]
      BY <2>3, <2>6
    <3> HIDE DEF h
    <3> QED BY <2>7, <3>1
  <2> QED BY <2>8 DEF m
<1>7. out \in Seq(Items) /\ out \in Seq(ListEntries)
  BY ListedAreItems DEF ListInv
<1>8. CASE ReadHeader
  <2>1. /\ pc = "walk" /\ stack # <<>> /\ Top.left = 0 /\ Top.remaining > 0 /\ HeaderAccepted
        /\ im' = im /\ rc' = rc /\ pc' = pc /\ out' = out
    BY <1>8 DEF ReadHeader, AtHeader
  <2>2. Preorder[NextGroup] \in Seq(Items) /\ Preorder[Here] = Preorder[NextGroup]
    BY <1>0, <2>1, ListedAtHeader
  <2> DEFINE x == Preorder[NextGroup]
  <2>3. <<>> \in Seq(Items) /\ <<>> \o x = x
    <3>1. x \in Seq(Items)
      BY <2>2
    <3> HIDE DEF x
    <3> QED BY <3>1
  <2>4. /\ Len(stack') = n /\ (\A i \in 1 .. n - 1 : stack'[i] = stack[i])
        /\ RegionOf(stack', n) = NextGroup
    BY <1>0, <1>8, HeaderPlaces
  <2>5. \E f, g : /\ Rests(Preorder, Items, stack', g)
                  /\ Tree = out \o f /\ f = <<>> \o g[n] /\ g[n] \in Seq(Items)
    <3>1. Preorder[Here] = <<>> \o Preorder[RegionOf(stack', n)]
      BY <2>2, <2>3, <2>4
    <3> QED BY <1>6, <2>1, <2>2, <2>3, <2>4, <3>1
  <2>6. PICK f, g : /\ Rests(Preorder, Items, stack', g)
                    /\ Tree = out \o f /\ f = <<>> \o g[n] /\ g[n] \in Seq(Items)
    BY <2>5
  <2>7. <<>> \o g[n] = g[n]
    <3> DEFINE y == g[n]
    <3>1. y \in Seq(Items)
      BY <2>6
    <3> HIDE DEF y
    <3>2. <<>> \o y = y
      BY <3>1
    <3> QED BY <3>2 DEF y
  <2>8. Tree = out' \o g[Len(stack')]
    BY <2>1, <2>4, <2>6, <2>7
  <2> QED BY <1>3, <1>7, <2>1, <2>6, <2>8
<1>9. CASE RejectHeader
  <2>1. /\ pc = "walk" /\ stack # <<>> /\ Top.left = 0 /\ Top.remaining > 0
        /\ ~HeaderAccepted \/ MayFail
        /\ Fail /\ im' = im /\ mode' = mode
    BY <1>9 DEF RejectHeader, AtHeader
  <2>2. ~HeaderAccepted => Broken \in Range(Preorder[Here])
    BY <1>0, <2>1, ListedAtHeader
  <2> QED BY <1>5, <2>1, <2>2, FailedListing
<1>10. CASE RejectEntry
  <2>1. AtEntry /\ (~EntryAccepted \/ MayFail) /\ Fail /\ im' = im /\ mode' = mode
    BY <1>10 DEF RejectEntry
  <2>2. pc = "walk" /\ stack # <<>>
    BY <2>1 DEF AtEntry
  <2>3. ~EntryAccepted => Broken \in Range(Preorder[Here]) \/ mode = "extract"
    BY <1>0, <2>1, ListedAtEntry
  <2> QED BY <1>5, <2>1, <2>2, <2>3, FailedListing
<1>11. CASE RejectRegular
  <2>1. mode = "extract" /\ Fail /\ im' = im /\ mode' = mode
    BY <1>11 DEF RejectRegular
  <2> QED BY <2>1, FailedListing
<1>12. CASE RejectDirectory
  <2>1. /\ AtEntry /\ EntryAccepted /\ ChildNode.type = "dir" /\ Fail
        /\ im' = im /\ mode' = mode
        /\ ~DirectoryMade \/ ~Enterable(ChildNode, Len(stack))
    BY <1>12 DEF RejectDirectory
  <2>2. pc = "walk" /\ stack # <<>>
    BY <2>1 DEF AtEntry
  <2>3. mode = "list" => DirectoryMade
    BY DEF DirectoryMade
  <2>4. mode = "list" => Broken \in Range(Preorder[Here])
    BY <1>0, <2>1, <2>3, ListedAtEntry
  <2> QED BY <1>5, <2>1, <2>2, <2>4, FailedListing
\* The entry is listed, and what is in it is left to a frame of its own.
<1>13. ASSUME AtEntry, EntryAccepted, NEW c \in Seq(Items),
              Preorder[Here] = c \o Preorder[NextPlace]
       PROVE  \E f, g : /\ Rests(Preorder, Items, Advanced, g) /\ Len(Advanced) = n
                        /\ Tree = out \o f /\ f = c \o g[n] /\ g[n] \in Seq(Items)
  <2>1. pc = "walk" /\ stack # <<>>
    BY <1>13 DEF AtEntry
  <2>2. Preorder[NextPlace] \in Seq(Items)
    BY <1>0, <1>13, ListedAtEntry
  <2> DEFINE u == Advanced
  <2>3. /\ Len(u) = n /\ (\A i \in 1 .. n - 1 : u[i] = stack[i])
        /\ RegionOf(u, n) = NextPlace
    BY <1>0, <1>13, AdvancedPlaces
  <2> HIDE DEF u
  <2>4. \E f, g : /\ Rests(Preorder, Items, u, g)
                  /\ Tree = out \o f /\ f = c \o g[n] /\ g[n] \in Seq(Items)
    BY <1>6, <1>13, <2>1, <2>2, <2>3
  <2> QED BY <2>3, <2>4 DEF u
\* An entry with nothing in it.
<1>14. CASE /\ AtEntry /\ EntryAccepted
            /\ \/ ChildNode.type # "dir"
               \/ IsEmpty(ChildNode) /\ Enterable(ChildNode, Len(stack))
            /\ stack' = Advanced /\ out' = Append(out, Item)
            /\ im' = im /\ rc' = rc /\ pc' \in {"walk", "file"}
  <2>1. pc = "walk" /\ stack # <<>>
    BY <1>14 DEF AtEntry
  <2>2. Item \in ListEntries /\ Preorder[Here] = <<Item>> \o Preorder[NextPlace]
    BY <1>0, <1>14, ListedAtEntry
  <2>3. Item \in Items /\ <<Item>> \in Seq(Items)
    BY <2>2 DEF ListEntries
  <2>4. PICK f, g : /\ Rests(Preorder, Items, Advanced, g) /\ Len(Advanced) = n
                    /\ Tree = out \o f /\ f = <<Item>> \o g[n] /\ g[n] \in Seq(Items)
    BY <1>13, <1>14, <2>2, <2>3
  <2>5. Append(out, Item) \o g[n] = out \o (<<Item>> \o g[n])
    <3> DEFINE o == out
               x == g[n]
               e == Item
               I == Items
    <3>1. o \in Seq(I) /\ e \in I /\ x \in Seq(I)
      BY <1>7, <2>3, <2>4
    <3> HIDE DEF o, x, e, I
    <3>2. Append(o, e) \o x = o \o (<<e>> \o x)
      BY ONLY <3>1, AppendThen
    <3> QED BY <3>2 DEF o, x, e
  <2>6. Tree = out' \o g[Len(stack')]
    BY <1>14, <2>4, <2>5
  <2>7. out' \in Seq(ListEntries)
    BY <1>7, <1>14, <2>2
  <2>8. Rests(Preorder, Items, stack', g)
    BY <1>14, <2>4
  <2>9. im' = im /\ rc' = rc /\ pc' \in {"walk", "file"}
    BY <1>14
  <2> QED BY <1>3, <2>1, <2>6, <2>7, <2>8, <2>9
<1>15. CASE VisitOther \/ VisitRegular
  <2>1. /\ AtEntry /\ EntryAccepted /\ ChildNode.type # "dir"
        /\ stack' = Advanced /\ out' = Append(out, Item)
        /\ im' = im /\ rc' = rc /\ pc = "walk" /\ pc' \in {"walk", "file"}
    BY <1>15 DEF VisitOther, VisitRegular, Listed, Item, AtEntry
  <2> QED BY <1>14, <2>1
<1>16. CASE EnterDirectory
  <2> DEFINE sub == Frame(ChildNode, ChildPath, ChildLen)
  <2>1. /\ AtEntry /\ EntryAccepted /\ ChildNode.type = "dir"
        /\ Enterable(ChildNode, Len(stack))
        /\ stack' = Entered(Advanced, ChildNode, ChildPath, ChildLen)
        /\ out' = Append(out, Item)
        /\ im' = im /\ rc' = rc /\ pc = "walk" /\ pc' = "walk"
    BY <1>16 DEF EnterDirectory, Listed, Item, AtEntry
  <2>2. CASE IsEmpty(ChildNode)
    <3>1. stack' = Advanced
      BY <2>1, <2>2 DEF Entered
    <3> QED BY <1>14, <2>1, <2>2, <3>1
  <2>3. CASE ~IsEmpty(ChildNode)
    <3>1. stack' = Append(Advanced, sub)
      BY <2>1, <2>3 DEF Entered
    <3>2. /\ Item \in ListEntries /\ Preorder[SubPlace] \in Seq(Items)
          /\ Preorder[Here] = (<<Item>> \o Preorder[SubPlace]) \o Preorder[NextPlace]
      BY <1>0, <2>1, <2>3, ListedAtEntry
    <3> DEFINE b == Preorder[SubPlace]
               a == <<Item>>
    <3>3. Item \in Items /\ a \in Seq(Items) /\ b \in Seq(Items) /\ a \o b \in Seq(Items)
      <4>1. Item \in Items /\ a \in Seq(Items) /\ b \in Seq(Items)
        BY <3>2 DEF ListEntries
      <4> HIDE DEF a, b
      <4> QED BY <4>1, ConcatProperties
    <3>4. Preorder[Here] = (a \o b) \o Preorder[NextPlace]
      BY <3>2
    <3> HIDE DEF a, b
    <3>5. PICK f, g : /\ Rests(Preorder, Items, Advanced, g) /\ Len(Advanced) = n
                      /\ Tree = out \o f /\ f = (a \o b) \o g[n] /\ g[n] \in Seq(Items)
      BY <1>13, <2>1, <3>3, <3>4
    <3>6. /\ Len(stack') = n + 1 /\ (\A i \in 1 .. n : stack'[i] = Advanced[i])
          /\ stack'[n + 1] = sub
      <4>1. Advanced \in Seq(Frames)
        BY <1>0, <2>1, AdvancedFrames
      <4> HIDE DEF sub
      <4> QED BY <3>1, <3>5, <4>1
    <3>7. RegionOf(stack', n + 1) = SubPlace
      <4>1. (n + 1) - 1 = n
        BY <1>0
      <4> QED BY <3>6, <4>1 DEF RegionOf, SubPlace, Frame
    <3>8. PICK h : Rests(Preorder, Items, stack', h) /\ h[n + 1] = b \o g[n]
      <4> DEFINE u == stack'
                 s == Advanced
                 L == Preorder
                 I == Items
                 m == n
                 k == m + 1
      <4>1. L[RegionOf(u, k)] = b
        BY <3>7 DEF b
      <4>2. /\ m \in Nat /\ Len(s) = m /\ Len(u) = k /\ (\A i \in 1 .. m : u[i] = s[i])
            /\ Rests(L, I, s, g) /\ L[RegionOf(u, k)] \in Seq(I)
        BY <1>0, <3>3, <3>5, <3>6, <4>1
      <4> HIDE DEF u, s, L, I, m
      <4>3. Pushed(L, I, s, u, m, k) /\ Rests(L, I, s, g)
        BY <4>2 DEF Pushed
      <4> HIDE DEF k
      <4>4. PushedTo(L, I, u, g, m, k)
        BY <4>3, RestsPushed
      <4>5. \E h : Rests(L, I, u, h) /\ h[k] = b \o g[m]
        BY <4>1, <4>4 DEF PushedTo
      <4> QED BY <4>5 DEF u, L, I, m, k
    <3> DEFINE y == g[n]
    <3>9. y \in Seq(Items) /\ Tree = out \o ((a \o b) \o y) /\ h[n + 1] = b \o y
      BY <3>5, <3>8
    <3> HIDE DEF y
    <3>10. (a \o b) \o y = a \o (b \o y)
      <4>1. a \in Seq(Items) /\ b \in Seq(Items) /\ y \in Seq(Items)
        BY <3>3, <3>9
      <4> QED BY ONLY <4>1, ConcatAssociative
    <3> DEFINE z == b \o y
    <3>11. z \in Seq(Items)
      BY <3>3, <3>9, ConcatProperties
    <3>12. Tree = out \o (a \o z) /\ h[n + 1] = z
      BY <3>9, <3>10
    <3> HIDE DEF z
    <3>13. Append(out, Item) \o z = out \o (<<Item>> \o z)
      <4> DEFINE o == out
                 e == Item
                 I == Items
      <4>1. o \in Seq(I) /\ e \in I /\ z \in Seq(I)
        BY <1>7, <3>3, <3>11
      <4> HIDE DEF o, e, I
      <4>2. Append(o, e) \o z = o \o (<<e>> \o z)
        BY ONLY <4>1, AppendThen
      <4> QED BY <4>2 DEF o, e
    <3>14. Tree = out' \o h[Len(stack')]
      BY <2>1, <3>6, <3>12, <3>13 DEF a
    <3>15. out' \in Seq(ListEntries)
      BY <1>7, <2>1, <3>2
    <3> QED BY <1>3, <2>1, <3>8, <3>14, <3>15
  <2> QED BY <2>2, <2>3
<1>17. CASE LeaveDirectory
  <2>1. /\ pc = "walk" /\ stack # <<>> /\ Top.left = 0 /\ Top.remaining = 0
        /\ stack' = SubSeq(stack, 1, Len(stack) - 1)
        /\ pc' = IF Len(stack) = 1 THEN "done" ELSE "walk"
        /\ im' = im /\ mode' = mode /\ rc' = rc /\ out' = out
    BY <1>17 DEF LeaveDirectory, Front
  <2>2. PICK f : Rests(Preorder, Items, stack, f) /\ Tree = out \o f[n]
    BY <1>4, <2>1
  <2>3. n \in Nat \ {0} /\ RegionOf(stack, n) = Here
    BY <1>4, <2>1
  <2>4. Preorder[Here] = <<>>
    BY <1>0, <2>1, ListedAtHeader
  <2>5. Len(stack') = n - 1 /\ \A i \in 1 .. n - 1 : stack'[i] = stack[i]
    BY <1>0, <2>1, PrefixOfSequence
  <2>6. Rests(Preorder, Items, stack', f) /\ f[n] = f[n - 1]
    <3> DEFINE u == stack'
               s == stack
               L == Preorder
               m == n - 1
    <3>1. m \in Nat /\ n = m + 1
      BY <2>3
    <3>2. /\ Len(s) = m + 1 /\ Len(u) = m /\ (\A i \in 1 .. m : u[i] = s[i])
          /\ Rests(L, Items, s, f) /\ L[RegionOf(s, m + 1)] = <<>>
      BY <2>2, <2>3, <2>4, <2>5, <3>1
    <3> DEFINE I == Items
    <3>3. m \in Nat /\ Rests(L, I, s, f)
      BY <3>1, <3>2
    <3> HIDE DEF u, s, L, m, I
    <3>4. Rests(L, I, u, f) /\ f[m + 1] = f[m]
      BY ONLY <3>2, <3>3, RestsPopped
    <3> QED BY <3>1, <3>4 DEF u, L, m, I
  <2>7. Tree = out' \o f[Len(stack')]
    BY <2>1, <2>2, <2>5, <2>6
  <2>8. CASE pc' = "walk"
    BY <1>3, <1>7, <2>1, <2>6, <2>7, <2>8
  <2>9. CASE pc' = "done"
    <3>1. n = 1
      BY <2>1, <2>9
    <3>2. f[0] = <<>>
      BY <2>2 DEF Rests
    <3>3. out \in Seq(Items) /\ Broken \notin Range(out)
      BY ListedAreItems DEF ListInv
    <3>4. Tree = out
      <4>1. out \o <<>> = out
        <5> DEFINE o == out
        <5>1. o \in Seq(Items)
          BY <3>3
        <5> HIDE DEF o
        <5>2. o \o <<>> = o
          BY ONLY <5>1
        <5> QED BY <5>2 DEF o
      <4>2. f[n] = <<>>
        <5>1. n - 1 = 0
          BY <3>1
        <5> QED BY <2>6, <3>2, <5>1
      <4> QED BY <2>2, <4>1, <4>2
    <3>5. Tree' = Tree
      BY <2>1, TreeStays
    <3>6. rc' = 0 /\ out' = Tree' /\ Broken \notin Range(Tree')
      BY <2>1, <3>3, <3>4, <3>5 DEF ListInv
    <3>7. ListIsTree'
      BY <3>6 DEF ListIsTree
    <3> QED BY <1>7, <2>1, <2>9, <3>7 DEF ListInv
  <2> QED BY <2>1, <2>8, <2>9
<1>18. CASE WriteBlock \/ WriteTail \/ CloseFile
  <2>1. /\ pc = "file" /\ pc' \in {"walk", "file"} /\ im' = im /\ rc' = rc
        /\ stack' = stack /\ out' = out
    BY <1>18 DEF WriteBlock, WriteTail, CloseFile
  <2>2. PICK f : Rests(Preorder, Items, stack, f) /\ Tree = out \o f[n]
    BY <2>1 DEF ListInv
  <2>3. Rests(Preorder, Items, stack', f) /\ Tree = out' \o f[Len(stack')]
    BY <2>1, <2>2
  <2> QED BY <1>3, <1>7, <2>1, <2>3
<1>19. CASE RejectContent
  <2>1. Fail /\ im' = im /\ mode' = mode /\ pc = "file"
    BY <1>19 DEF RejectContent
  <2>2. mode = "extract"
    BY <2>1 DEF TypeInv, Readable
  <2> QED BY <2>1, <2>2, FailedListing
<1> QED
  BY <1>1, <1>2, <1>8, <1>9, <1>10, <1>11, <1>12, <1>15, <1>16, <1>17, <1>18, <1>19
  DEF Next, walk_directory, process_dir_entry, extract_regular_file

\* For every image: a walk that succeeds has listed the whole tree of the
\* image, depth first and in image order, and a listing in which no allocation
\* fails gives up exactly on an image whose tree has something broken in it.
THEOREM ListIsTreeHolds == Spec => []ListIsTree
<1>1. Init => ListInv
  <2>1. <<>> \in Seq(ListEntries)
    OBVIOUS
  <2> QED BY <2>1 DEF Init, ListInv, ListIsTree
<1>2. TypeInv /\ TypeInv' /\ Measures(stack) /\ WalkInListing /\ StackBounded
        /\ ListInv /\ [Next]_vars => ListInv'
  BY ListStep
<1>3. ListInv => ListIsTree
  BY DEF ListInv
<1> QED BY <1>1, <1>2, <1>3, TypeInvHolds, Measured, WalkBounded, PTL DEF Spec
=============================================================================

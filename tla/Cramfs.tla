------------------------------- MODULE Cramfs -------------------------------
(***************************************************************************)
(* crimp_cramfs_list and crimp_cramfs_extract (src/src/extract/cramfs.c):  *)
(* the walk of the directory tree of one image, depth first and in image   *)
(* order, and the block-wise extraction of the regular files it meets.     *)
(*                                                                         *)
(* An image is what its bytes decode to: `ent' gives the inode and the     *)
(* name at an offset, `ptr' the block pointer, `zlib' the compressed       *)
(* stream that starts there.  Bytes not described are zero.  The C         *)
(* recursion of walk_directory is a stack of frames.                       *)
(***************************************************************************)
EXTENDS FsTree

CONSTANTS
    Images,         \* image records, see ImageOK
    BLOCK_SIZE      \* CRAMFS_BLOCK_SIZE, 4096 in the code

SUPER_SIZE == 76
INODE_SIZE == 12

\* decode_inode and the name behind it, padded to namelen bytes; size and
\* offset are in bytes.
EntryOK(e) ==
    /\ e.namelen \in Nat
    /\ e.name \in Names \cup {Unsafe}
    /\ e.kind \in {"dir", "reg", "other"}
    /\ e.size \in Nat /\ e.offset \in Nat

ImageOK(m) ==
    /\ m.len \in Nat /\ m.size \in Nat
    /\ m.root.offset \in Nat /\ m.root.size \in Nat
    /\ \A x \in DOMAIN m.ent : x \in Nat /\ EntryOK(m.ent[x])
    /\ \A x \in DOMAIN m.ptr : x \in Nat /\ m.ptr[x] \in Nat

ASSUME CramfsAssumption ==
    (\A m \in Images : ImageOK(m)) /\ BLOCK_SIZE \in Nat \ {0}

VARIABLES
    im,       \* the image
    mode,     \* "list" (output_dir is NULL) or "extract"
    pc,       \* "start", "walk", "file" or "done"
    rc,       \* what the function returns once pc is "done"
    stack,    \* the frames of walk_directory, the deepest last
    out,      \* the entry list
    disk,     \* below output_dir: path -> what it holds
    file      \* the locals of extract_regular_file

vars == <<im, mode, pc, rc, stack, out, disk, file>>

\* A regular file of `size' bytes as far as its blocks have been written;
\* torn: the fclose of a file that is kept, or the remove of one that is not,
\* has failed.
Regular(size, blocks, torn) ==
    [kind |-> "reg", size |-> size, blocks |-> blocks, torn |-> torn]

NoFile == [path |-> <<>>, size |-> 0, offset |-> 0, prev_end |-> 0,
           blocks |-> <<>>]

Zero == [namelen |-> 0, name |-> Unsafe, kind |-> "other",
         size |-> 0, offset |-> 0]

Entry(x)   == IF x \in DOMAIN im.ent THEN im.ent[x] ELSE Zero
Pointer(x) == IF x \in DOMAIN im.ptr THEN im.ptr[x] ELSE 0

Init ==
    /\ im \in Images
    /\ mode \in {"list", "extract"}
    /\ pc = "start"
    /\ rc = 0
    /\ stack = <<>>
    /\ out = <<>>
    /\ disk = <<>>
    /\ file = NoFile

-----------------------------------------------------------------------------
MayFail == mode \in IOFaults

\* Any failure below unwinds the whole recursion; list and extract then free
\* the entry list and return -1.
Fail == pc' = "done" /\ rc' = -1 /\ out' = <<>> /\ stack' = <<>>

\* A fault: the size is not compared with what is left of the image.
MUT_Enterable_size_only(offset, size, depth) ==
    depth <= MAX_DIR_DEPTH /\ offset <= im.size /\ size <= im.size

\* walk_directory's checks, for a directory that would be frame number
\* depth + 1.
Enterable(offset, size, depth) ==
    /\ depth <= MAX_DIR_DEPTH
    /\ offset <= im.size
    /\ size <= im.size - offset

Frame(offset, size, path, plen) ==
    [pos |-> offset, remaining |-> size, path |-> path, plen |-> plen]

\* fopen, read_superblock, crimp_fs_make_directory(output_dir), and the call
\* of walk_directory on the root inode.
Start ==
    /\ pc = "start"
    /\ \/ /\ im.len >= SUPER_SIZE /\ im.size >= SUPER_SIZE
          /\ Enterable(im.root.offset, im.root.size, 0)
          /\ stack' = <<Frame(im.root.offset, im.root.size, <<>>, 0)>>
          /\ pc' = "walk"
          /\ UNCHANGED <<rc, out>>
       \/ /\ \/ im.len < SUPER_SIZE \/ im.size < SUPER_SIZE
             \/ ~Enterable(im.root.offset, im.root.size, 0)
             \/ MayFail
          /\ Fail
    /\ UNCHANGED <<im, mode, disk, file>>

-----------------------------------------------------------------------------
(* process_dir_entry, on the deepest frame.                                *)

Top   == stack[Len(stack)]
Child == Entry(Top.pos)

ChildPath == Append(Top.path, Child.name)
ChildLen  == JoinedLen(Top.path, Top.plen, Child.name)

\* What is read of the entry lies in the file and in the directory's region,
\* its name is safe, and its path fits.
EntryAccepted ==
    /\ Top.remaining >= INODE_SIZE
    /\ Top.pos + INODE_SIZE <= im.len
    /\ Child.namelen # 0
    /\ Child.namelen <= Top.remaining - INODE_SIZE
    /\ Top.pos + INODE_SIZE + Child.namelen <= im.len
    /\ Child.name # Unsafe
    /\ ChildLen < PATH_CAP

Advanced ==
    LET step == INODE_SIZE + Child.namelen
    IN  [stack EXCEPT ![Len(stack)] =
           Frame(Top.pos + step, Top.remaining - step, Top.path, Top.plen)]

Listed == Append(out, ListEntry(ChildPath, Child.kind, Child.size))

AtEntry == pc = "walk" /\ stack # <<>> /\ Top.remaining > 0

RejectEntry ==
    /\ AtEntry
    /\ ~EntryAccepted \/ MayFail
    /\ Fail
    /\ UNCHANGED <<im, mode, disk, file>>

DirectoryMade ==
    mode = "extract" => Joinable(ChildLen) /\ Creatable(disk, ChildPath)

EnterDirectory ==
    /\ AtEntry
    /\ EntryAccepted
    /\ Child.kind = "dir"
    /\ DirectoryMade
    /\ Enterable(Child.offset, Child.size, Len(stack))
    /\ stack' = Append(Advanced,
                       Frame(Child.offset, Child.size, ChildPath, ChildLen))
    /\ out' = Listed
    /\ disk' = IF mode = "extract" THEN Put(disk, ChildPath, Dir) ELSE disk
    /\ UNCHANGED <<im, mode, pc, rc, file>>

\* A fault: a directory that cannot be walked is passed over.
MUT_RejectDirectory_skips ==
    /\ AtEntry /\ EntryAccepted /\ Child.kind = "dir"
    /\ ~DirectoryMade \/ ~Enterable(Child.offset, Child.size, Len(stack))
    /\ stack' = Advanced /\ out' = Listed
    /\ UNCHANGED <<im, mode, pc, rc, disk, file>>

RejectDirectory ==
    /\ AtEntry
    /\ EntryAccepted
    /\ Child.kind = "dir"
    /\ ~DirectoryMade \/ ~Enterable(Child.offset, Child.size, Len(stack))
    /\ disk' = IF mode = "extract" /\ DirectoryMade
               THEN Put(disk, ChildPath, Dir) ELSE disk
    /\ Fail
    /\ UNCHANGED <<im, mode, file>>

\* Symlinks, devices, fifos and sockets are listed, nothing is created.
VisitOther ==
    /\ AtEntry
    /\ EntryAccepted
    /\ \/ Child.kind = "other" /\ (mode = "extract" => Joinable(ChildLen))
       \/ Child.kind = "reg" /\ mode = "list"
    /\ stack' = Advanced
    /\ out' = Listed
    /\ UNCHANGED <<im, mode, pc, rc, disk, file>>

NBlocks(size) == (size + BLOCK_SIZE - 1) \div BLOCK_SIZE

VisitRegular ==
    /\ AtEntry
    /\ EntryAccepted
    /\ mode = "extract"
    /\ Child.kind = "reg"
    /\ Joinable(ChildLen) /\ Openable(disk, ChildPath)
    /\ stack' = Advanced
    /\ out' = Listed
    /\ disk' = Put(disk, ChildPath, Regular(Child.size, <<>>, FALSE))
    /\ file' = [path |-> ChildPath, size |-> Child.size,
                offset |-> Child.offset,
                prev_end |-> Child.offset + 4 * NBlocks(Child.size),
                blocks |-> <<>>]
    /\ pc' = "file"
    /\ UNCHANGED <<im, mode, rc>>

RejectRegular ==
    /\ AtEntry
    /\ EntryAccepted
    /\ mode = "extract"
    /\ Child.kind \in {"reg", "other"}
    /\ ~Joinable(ChildLen) \/ (Child.kind = "reg" /\ ~Openable(disk, ChildPath))
    /\ Fail
    /\ UNCHANGED <<im, mode, disk, file>>

\* A fault: only the root directory is ever left.
MUT_LeaveDirectory_root_only ==
    /\ pc = "walk" /\ stack # <<>> /\ Top.remaining = 0
    /\ IF Len(stack) = 1 THEN stack' = <<>> /\ pc' = "done"
                         ELSE UNCHANGED <<stack, pc>>
    /\ UNCHANGED <<im, mode, rc, out, disk, file>>

\* The region is used up: back to the frame above, or out of the walk.
LeaveDirectory ==
    /\ pc = "walk" /\ stack # <<>> /\ Top.remaining = 0
    /\ stack' = Front(stack)
    /\ pc' = IF Len(stack) = 1 THEN "done" ELSE "walk"
    /\ UNCHANGED <<im, mode, rc, out, disk, file>>

-----------------------------------------------------------------------------
(* extract_regular_file, one block per step.                               *)

BytesWritten  == IF Len(file.blocks) * BLOCK_SIZE > file.size THEN file.size
                 ELSE Len(file.blocks) * BLOCK_SIZE
ptr_pos       == file.offset + 4 * Len(file.blocks)
NextEnd       == Pointer(ptr_pos)
MoreBlocks    == Len(file.blocks) < NBlocks(file.size)

expected_len ==
    IF BytesWritten + BLOCK_SIZE > file.size THEN file.size - BytesWritten
                                             ELSE BLOCK_SIZE

\* A fault: the end of a block is not compared with the size of the image.
MUT_PointerAccepted_anywhere ==
    ptr_pos + 4 <= im.len /\ NextEnd >= file.prev_end

\* read_block_pointer.
PointerAccepted ==
    /\ ptr_pos + 4 <= im.len
    /\ NextEnd >= file.prev_end
    /\ NextEnd <= im.size

\* zlib's uncompress: the stream must end inside the span (what follows it
\* there is ignored) and yield exactly the bytes asked for.
Inflates(from, to, n) ==
    /\ from \in DOMAIN im.zlib
    /\ im.zlib[from].clen <= to - from
    /\ im.zlib[from].dlen = n

\* fetch_block: an empty span is a hole.
BlockAccepted ==
    \/ NextEnd = file.prev_end
    \/ NextEnd <= im.len /\ Inflates(file.prev_end, NextEnd, expected_len)

WriteBlock ==
    /\ pc = "file" /\ MoreBlocks
    /\ PointerAccepted /\ BlockAccepted
    /\ LET block  == [from |-> file.prev_end, to |-> NextEnd, len |-> expected_len]
           blocks == Append(file.blocks, block)
       IN  /\ file' = [file EXCEPT !.blocks = blocks, !.prev_end = NextEnd]
           /\ disk' = [disk EXCEPT ![file.path] = Regular(file.size, blocks, FALSE)]
    /\ UNCHANGED <<im, mode, pc, rc, stack, out>>

\* What the stream buffers is on disk once fclose has succeeded.  After a call
\* that failed, as much is there as had been flushed, in whole blocks here.
Torn ==
    {Regular(file.size, SubSeq(file.blocks, 1, n), TRUE) : n \in 0 .. Len(file.blocks)}

\* A block that cannot be read, the malloc before the first one, an fwrite.
BlockFails ==
    \/ MoreBlocks /\ (~PointerAccepted \/ ~BlockAccepted)
    \/ MayFail /\ (MoreBlocks \/ file.blocks = <<>>)

\* A fault: the truncated file stays.
MUT_RejectBlock_keeps_file ==
    /\ pc = "file" /\ BlockFails
    /\ file' = NoFile
    /\ Fail
    /\ UNCHANGED <<im, mode, disk>>

\* A fault: the walk goes on without the file.
MUT_RejectBlock_goes_on ==
    /\ pc = "file" /\ BlockFails
    /\ disk' = Without(disk, file.path)
    /\ file' = NoFile
    /\ pc' = "walk"
    /\ UNCHANGED <<im, mode, rc, stack, out>>

\* No truncated file is left behind, unless remove fails.
RejectBlock ==
    /\ pc = "file" /\ BlockFails
    /\ \/ disk' = Without(disk, file.path)
       \/ MayFail /\ \E left \in Torn : disk' = [disk EXCEPT ![file.path] = left]
    /\ file' = NoFile
    /\ Fail
    /\ UNCHANGED <<im, mode>>

\* What fclose returns is ignored.
CloseFile ==
    /\ pc = "file" /\ ~MoreBlocks
    /\ \/ UNCHANGED disk
       \/ MayFail /\ \E left \in Torn : disk' = [disk EXCEPT ![file.path] = left]
    /\ file' = NoFile
    /\ pc' = "walk"
    /\ UNCHANGED <<im, mode, rc, stack, out>>

-----------------------------------------------------------------------------
walk_directory ==
    \/ RejectEntry \/ EnterDirectory \/ RejectDirectory \/ VisitOther
    \/ VisitRegular \/ RejectRegular \/ LeaveDirectory

extract_regular_file == WriteBlock \/ RejectBlock \/ CloseFile

Returned == pc = "done" /\ UNCHANGED vars

Next == Start \/ walk_directory \/ extract_regular_file \/ Returned

Spec     == Init /\ [][Next]_vars
FairSpec == Spec /\ WF_vars(Start \/ walk_directory \/ extract_regular_file)

-----------------------------------------------------------------------------
(* Correctness.                                                            *)

Frames == [pos : Nat, remaining : Nat, path : Seq(Names), plen : Nat]
Blocks == [from : Nat, to : Nat, len : 0 .. BLOCK_SIZE]
Files  == [path : Seq(Names), size : Nat, offset : Nat, prev_end : Nat,
           blocks : Seq(Blocks)]

TypeOK ==
    /\ im \in Images
    /\ mode \in {"list", "extract"}
    /\ pc \in {"start", "walk", "file", "done"}
    /\ rc \in {0, -1}
    /\ stack \in Seq(Frames)
    /\ file \in Files

\* Every directory being walked ends inside the size the superblock declares,
\* however many of its entries have been read ("every offset used below must
\* stay within this", cramfs_super; the check in walk_directory and the two
\* before the unsigned subtractions in process_dir_entry).
WalkInBounds ==
    \A i \in 1 .. Len(stack) : stack[i].pos + stack[i].remaining <= im.size

\* The recursion is never deeper than MAX_DIR_DEPTH + 1 frames.
StackBounded == Len(stack) <= MAX_DIR_DEPTH + 1

\* The blocks of the file being written are those its pointer array names:
\* they start behind the array, follow each other without a gap, never go
\* backwards, and end inside the declared image size.  (read_block_pointer,
\* prev_end in extract_regular_file.)
BlocksFollowPointers ==
    pc = "file" =>
      \A i \in 1 .. Len(file.blocks) :
        LET b == file.blocks[i] IN
        /\ b.from = IF i = 1 THEN file.offset + 4 * NBlocks(file.size)
                             ELSE file.blocks[i - 1].to
        /\ b.to = Pointer(file.offset + 4 * (i - 1))
        /\ b.from <= b.to /\ b.to <= im.size

\* A file that is on disk and not being written is complete, unless its own
\* fclose or remove has failed: it has all the blocks of its size, each full
\* but the last, which is the rest.  One that is being written, or is torn, is
\* a beginning of that.  ("Don't leave a truncated file behind",
\* extract_regular_file.)
FilesComplete ==
    \A path \in DOMAIN disk :
      disk[path].kind = "reg" =>
        LET size   == disk[path].size
            blocks == disk[path].blocks
        IN  /\ Len(blocks) <= NBlocks(size)
            /\ \/ Len(blocks) = NBlocks(size)
               \/ pc = "file" /\ file.path = path
               \/ disk[path].torn
            /\ \A i \in 1 .. Len(blocks) :
                 blocks[i].len = IF i < NBlocks(size) THEN BLOCK_SIZE
                                 ELSE size - BLOCK_SIZE * (NBlocks(size) - 1)

\* As long as an extraction has not failed, and so after a successful one, the
\* disk shows the list: every directory and regular file that has been listed
\* and nothing else.
DiskMirrorsList == mode = "extract" /\ rc = 0 => Mirrors(disk, out)

\* No path outgrows the buffer it was printed into: what is listed and what
\* is created are the whole paths, never a prefix.  (The two snprintf checks
\* of process_dir_entry and crimp_fs_join_output_path.)
PathsFit ==
    /\ \A i \in 1 .. Len(out) : StrLen(out[i].path) < PATH_CAP
    /\ \A path \in DOMAIN disk : OUT_LEN + 1 + StrLen(path) < DISK_CAP

\* A place of the image: where an entry of a directory is expected, with so
\* many bytes of the directory left.
Regions == [depth : 0 .. MAX_DIR_DEPTH, pos : Nat, remaining : 0 .. im.size,
            path : Seq(Names)]

Region(depth, pos, remaining, path) ==
    [depth |-> depth, pos |-> pos, remaining |-> remaining, path |-> path]

Place(r) ==
    LET e      == Entry(r.pos)
        step   == INODE_SIZE + e.namelen
        path   == Append(r.path, e.name)
        entry  == [path |-> path, kind |-> e.kind,
                   size |-> IF e.kind = "dir" THEN 0 ELSE e.size]
        broken == \/ e.namelen = 0 \/ e.name = Unsafe
                  \/ step > r.remaining \/ r.pos + step > im.len
                  \/ StrLen(path) >= PATH_CAP
        inside == r.depth < MAX_DIR_DEPTH /\ e.offset + e.size <= im.size
    IN  IF r.remaining = 0 THEN [items |-> <<>>, down |-> {}, on |-> {}]
        ELSE IF broken THEN [items |-> <<Broken>>, down |-> {}, on |-> {}]
        ELSE [items |-> IF e.kind = "dir" /\ ~inside THEN <<entry, Broken>> ELSE <<entry>>,
              down  |-> IF e.kind = "dir" /\ inside
                        THEN {Region(r.depth + 1, e.offset, e.size, path)} ELSE {},
              on    |-> {Region(r.depth, r.pos + step, r.remaining - step, r.path)}]

Preorder == Listing([r \in Regions |-> Place(r)])

\* The whole tree of the image.
Tree ==
    IF im.len < SUPER_SIZE \/ im.size < SUPER_SIZE \/ im.root.offset + im.root.size > im.size
    THEN <<Broken>>
    ELSE Preorder[Region(0, im.root.offset, im.root.size, <<>>)]

\* A walk that succeeds lists the whole tree of the image, depth first and in
\* image order, each entry once, the same for list and for extract; and
\* listing fails, unless an allocation does, exactly when that tree has a
\* region or an entry out of bounds, an unsafe name, a path too long, or no
\* end (a directory that contains itself).  (process_dir_entry, walk_directory.)
ListIsPreorder ==
    pc = "done" =>
      /\ rc = 0 => out = Tree
      /\ mode = "list" /\ ~MayFail => (rc = -1 <=> Broken \in Range(Tree))

\* The walk ends, on every image.
Terminates == <>(pc = "done")
=============================================================================

------------------------------ MODULE Squashfs -------------------------------
(***************************************************************************)
(* crimp_squashfs_list and crimp_squashfs_extract                          *)
(* (src/src/extract/squashfs.c): the walk of the directory table of one    *)
(* image, group by group and entry by entry, and the extraction of regular *)
(* files from data blocks, holes and a slice of a fragment block.          *)
(*                                                                         *)
(* An image is what its bytes decode to.  A metadata cursor crosses block  *)
(* borders unseen, so the directory table is one stream: `hdr' gives the   *)
(* group header and `ent' the entry that start at a position of it; where  *)
(* neither is given the stream cannot be read.  `inode' gives the inode at *)
(* a reference, `frag' the entries of the fragment table, `z' the          *)
(* compressed stream that starts at an offset of the file.                 *)
(***************************************************************************)
EXTENDS FsTree

CONSTANTS
    Images,                    \* image records, see ImageOK
    MIN_SQUASHFS_BLOCK_SIZE,   \* 4096 in the code
    MAX_SQUASHFS_BLOCK_SIZE,   \* 2^20 in the code
    MAX_BLOCKS_PER_FILE,       \* 2^20 in the code
    MAX_EXTRACTED_FILE_SIZE,   \* 4 GiB in the code
    MAX_GROUP,                 \* entries of a header group, 256 in the code
    MAX_NAME,                  \* length of a name, 256 in the code
    U32                        \* 2^32

SUPER_SIZE == 96
HDR_SIZE   == 12
ENT_SIZE   == 8

NoPos  == -1   \* a reference to a metadata block that cannot be read
NoFrag == -1   \* SQUASHFS_INVALID_FRAG

BlockSizes == [size : Nat, compressed : BOOLEAN]

\* squashfs_inode; `sizes' is as much of the block_sizes array as can be
\* read behind the inode.
Inodes == [type : {"dir", "reg", "other"}, dir : Nat \cup {NoPos},
           dir_size : Nat, file_size : Nat, start : Nat,
           frag : Nat \cup {NoFrag}, frag_offset : Nat, sizes : Seq(BlockSizes)]

\* read_inode leaves dir_size 0 for what is no directory.
InodeOK(r) == r \in Inodes /\ (r.type # "dir" => r.dir_size = 0)

EntryOK(e) ==
    /\ e.name_size \in Nat
    /\ e.name \in Names \cup {Unsafe}
    /\ e.name \in Names => NameLen[e.name] = e.name_size + 1

ImageOK(m) ==
    /\ m.len \in Nat /\ m.block_size \in Nat /\ m.fragments \in Nat
    /\ m.compression \in {"gzip", "xz", "other"}
    /\ \A x \in DOMAIN m.hdr   : m.hdr[x].count \in 0 .. U32 - 1 /\ m.hdr[x].start \in Nat
    /\ \A x \in DOMAIN m.ent   : EntryOK(m.ent[x])
    /\ IsFiniteSet(DOMAIN m.inode) /\ \A x \in DOMAIN m.inode : InodeOK(m.inode[x])
    /\ \A x \in DOMAIN m.frag  : m.frag[x].start \in Nat /\ m.frag[x].raw \in BlockSizes
    /\ \A x \in DOMAIN m.z     : m.z[x].clen \in Nat \ {0} /\ m.z[x].dlen \in Nat

ASSUME SquashfsAssumption ==
    /\ \A m \in Images : ImageOK(m)
    /\ MIN_SQUASHFS_BLOCK_SIZE \in Nat \ {0} /\ MAX_SQUASHFS_BLOCK_SIZE \in Nat
    /\ MAX_BLOCKS_PER_FILE \in Nat /\ MAX_EXTRACTED_FILE_SIZE \in Nat
    /\ MAX_GROUP \in Nat /\ MAX_NAME \in Nat /\ U32 \in Nat \ {0}

VARIABLES
    im,       \* the image
    mode,     \* "list" (output_dir is NULL) or "extract"
    pc,       \* "start", "walk", "file" or "done"
    rc,       \* what the function returns once pc is "done"
    stack,    \* the frames of walk_directory, the deepest last
    out,      \* the entry list
    disk,     \* below output_dir: path -> what it holds
    file      \* the locals of extract_regular_file

vars == <<im, mode, pc, rc, stack, out, disk, file>>

\* A regular file as far as its content has been written; torn: the fclose of
\* a file that is kept, or the remove of one that is not, has failed.
Regular(r, pieces, torn) ==
    [kind |-> "reg", inode |-> r, pieces |-> pieces, torn |-> torn]

ZeroInode == [type |-> "other", dir |-> NoPos, dir_size |-> 0, file_size |-> 0,
              start |-> 0, frag |-> NoFrag, frag_offset |-> 0, sizes |-> <<>>]

NoFile == [path |-> <<>>, inode |-> ZeroInode, pieces |-> <<>>,
           block_offset |-> 0, bytes_before |-> 0]

Init ==
    /\ im \in Images
    /\ mode \in {"list", "extract"}
    /\ pc = "start"
    /\ rc = 0
    /\ stack = <<>>
    /\ out = <<>>
    /\ disk = <<>>
    /\ file = NoFile

MayFail == mode \in IOFaults

\* Any failure below unwinds the whole recursion; list and extract then free
\* the entry list and return -1.
Fail == pc' = "done" /\ rc' = -1 /\ out' = <<>> /\ stack' = <<>>

-----------------------------------------------------------------------------
(* read_block_sizes and validate_block_size.                               *)

ValidBlockSize(b) ==
    /\ b >= MIN_SQUASHFS_BLOCK_SIZE /\ b <= MAX_SQUASHFS_BLOCK_SIZE
    /\ \E k \in 0 .. b : b = 2 ^ k

NBlocks(r) ==
    IF r.frag = NoFrag THEN (r.file_size + im.block_size - 1) \div im.block_size
                       ELSE r.file_size \div im.block_size

\* What read_inode asks of a regular file whose content is wanted.
ContentReadable(r) ==
    /\ r.file_size <= MAX_EXTRACTED_FILE_SIZE
    /\ NBlocks(r) <= MAX_BLOCKS_PER_FILE
    /\ NBlocks(r) <= Len(r.sizes)

-----------------------------------------------------------------------------
(* walk_directory.                                                         *)

Frame(r, path, plen) ==
    [pos |-> r.dir, remaining |-> r.dir_size - 3, left |-> 0, start |-> 0,
     path |-> path, plen |-> plen]

IsEmpty(r) == r.dir_size < 4

\* The checks of walk_directory on entry, for a directory that would be frame
\* number depth + 1.  The depth is checked first, of empty directories too.
Enterable(r, depth) ==
    depth <= MAX_DIR_DEPTH /\ (IsEmpty(r) \/ r.dir # NoPos)

\* The frames once the directory has been entered; an empty one is left again
\* at once.
Entered(frames, r, path, plen) ==
    IF IsEmpty(r) THEN frames ELSE Append(frames, Frame(r, path, plen))

\* fopen, read_superblock, validate_block_size (extract only), read_inode and
\* walk_directory on the root.
RootAccepted ==
    /\ im.len >= SUPER_SIZE
    /\ mode = "extract" => ValidBlockSize(im.block_size)
    /\ im.root \in DOMAIN im.inode
    /\ Enterable(im.inode[im.root], 0)

Start ==
    /\ pc = "start"
    /\ \/ /\ RootAccepted
          /\ stack' = Entered(<<>>, im.inode[im.root], <<>>, 0)
          /\ pc' = IF IsEmpty(im.inode[im.root]) THEN "done" ELSE "walk"
          /\ UNCHANGED <<rc, out>>
       \/ /\ ~RootAccepted \/ MayFail
          /\ Fail
    /\ UNCHANGED <<im, mode, disk, file>>

Top == stack[Len(stack)]

AtHeader == pc = "walk" /\ stack # <<>> /\ Top.left = 0 /\ Top.remaining > 0

\* A fault: the count is taken for the number of entries.
MUT_entry_count_minus_one(count) == count

\* `count + 1' in 32 bits: 2^32 - 1 makes a group without entries.
entry_count(count) == (count + 1) % U32

HeaderAccepted ==
    /\ Top.remaining >= HDR_SIZE
    /\ Top.pos \in DOMAIN im.hdr
    /\ entry_count(im.hdr[Top.pos].count) <= MAX_GROUP

ReadHeader ==
    /\ AtHeader
    /\ HeaderAccepted
    /\ stack' = [stack EXCEPT ![Len(stack)] =
         [pos |-> Top.pos + HDR_SIZE, remaining |-> Top.remaining - HDR_SIZE,
          left |-> entry_count(im.hdr[Top.pos].count),
          start |-> im.hdr[Top.pos].start, path |-> Top.path, plen |-> Top.plen]]
    /\ UNCHANGED <<im, mode, pc, rc, out, disk, file>>

RejectHeader ==
    /\ AtHeader
    /\ ~HeaderAccepted \/ MayFail
    /\ Fail
    /\ UNCHANGED <<im, mode, disk, file>>

\* A fault: only the root directory is ever left.
MUT_LeaveDirectory_root_only ==
    /\ pc = "walk" /\ stack # <<>> /\ Top.left = 0 /\ Top.remaining = 0
    /\ IF Len(stack) = 1 THEN stack' = <<>> /\ pc' = "done"
                         ELSE UNCHANGED <<stack, pc>>
    /\ UNCHANGED <<im, mode, rc, out, disk, file>>

LeaveDirectory ==
    /\ pc = "walk" /\ stack # <<>> /\ Top.left = 0 /\ Top.remaining = 0
    /\ stack' = Front(stack)
    /\ pc' = IF Len(stack) = 1 THEN "done" ELSE "walk"
    /\ UNCHANGED <<im, mode, rc, out, disk, file>>

-----------------------------------------------------------------------------
(* process_dir_entry, on the deepest frame.                                *)

AtEntry == pc = "walk" /\ stack # <<>> /\ Top.left > 0

Child     == im.ent[Top.pos]
name_len  == Child.name_size + 1
ChildPath == Append(Top.path, Child.name)
ChildLen  == JoinedLen(Top.path, Top.plen, Child.name)
ChildRef  == <<Top.start, Child.offset>>
ChildNode == im.inode[ChildRef]

\* The entry lies in the listing, its name is safe, its path fits, and its
\* inode can be read.
EntryAccepted ==
    /\ Top.remaining >= ENT_SIZE
    /\ Top.pos \in DOMAIN im.ent
    /\ name_len <= Top.remaining - ENT_SIZE /\ name_len <= MAX_NAME
    /\ Child.name # Unsafe
    /\ ChildLen < PATH_CAP
    /\ ChildRef \in DOMAIN im.inode
    /\ mode = "extract" /\ ChildNode.type = "reg" => ContentReadable(ChildNode)

\* A fault: the listing is used up by name_size, the cursor by name_len.
MUT_Advanced_name_size ==
    [stack EXCEPT ![Len(stack)] =
       [pos |-> Top.pos + ENT_SIZE + name_len,
        remaining |-> Top.remaining - ENT_SIZE - Child.name_size,
        left |-> Top.left - 1, start |-> Top.start, path |-> Top.path,
        plen |-> Top.plen]]

Advanced ==
    [stack EXCEPT ![Len(stack)] =
       [pos |-> Top.pos + ENT_SIZE + name_len,
        remaining |-> Top.remaining - ENT_SIZE - name_len,
        left |-> Top.left - 1, start |-> Top.start, path |-> Top.path,
        plen |-> Top.plen]]

Listed ==
    Append(out, ListEntry(ChildPath, ChildNode.type, ChildNode.file_size))

RejectEntry ==
    /\ AtEntry
    /\ ~EntryAccepted \/ MayFail
    /\ Fail
    /\ UNCHANGED <<im, mode, disk, file>>

DirectoryMade ==
    mode = "extract" => Joinable(ChildLen) /\ Creatable(disk, ChildPath)

\* The type is the inode's, whatever the entry says.
EnterDirectory ==
    /\ AtEntry
    /\ EntryAccepted
    /\ ChildNode.type = "dir"
    /\ DirectoryMade
    /\ Enterable(ChildNode, Len(stack))
    /\ stack' = Entered(Advanced, ChildNode, ChildPath, ChildLen)
    /\ out' = Listed
    /\ disk' = IF mode = "extract" THEN Put(disk, ChildPath, Dir) ELSE disk
    /\ UNCHANGED <<im, mode, pc, rc, file>>

RejectDirectory ==
    /\ AtEntry
    /\ EntryAccepted
    /\ ChildNode.type = "dir"
    /\ ~DirectoryMade \/ ~Enterable(ChildNode, Len(stack))
    /\ disk' = IF mode = "extract" /\ DirectoryMade
               THEN Put(disk, ChildPath, Dir) ELSE disk
    /\ Fail
    /\ UNCHANGED <<im, mode, file>>

\* Symlinks, devices, fifos and sockets are listed, nothing is created.
VisitOther ==
    /\ AtEntry
    /\ EntryAccepted
    /\ \/ ChildNode.type = "other" /\ (mode = "extract" => Joinable(ChildLen))
       \/ ChildNode.type = "reg" /\ mode = "list"
    /\ stack' = Advanced
    /\ out' = Listed
    /\ UNCHANGED <<im, mode, pc, rc, disk, file>>

VisitRegular ==
    /\ AtEntry
    /\ EntryAccepted
    /\ mode = "extract" /\ ChildNode.type = "reg"
    /\ Joinable(ChildLen) /\ Openable(disk, ChildPath)
    /\ stack' = Advanced
    /\ out' = Listed
    /\ disk' = Put(disk, ChildPath, Regular(ChildNode, <<>>, FALSE))
    /\ file' = [path |-> ChildPath, inode |-> ChildNode, pieces |-> <<>>,
                block_offset |-> ChildNode.start, bytes_before |-> 0]
    /\ pc' = "file"
    /\ UNCHANGED <<im, mode, rc>>

RejectRegular ==
    /\ AtEntry
    /\ EntryAccepted
    /\ mode = "extract" /\ ChildNode.type \in {"reg", "other"}
    /\ \/ ~Joinable(ChildLen)
       \/ ChildNode.type = "reg" /\ ~Openable(disk, ChildPath)
    /\ Fail
    /\ UNCHANGED <<im, mode, disk, file>>

-----------------------------------------------------------------------------
(* extract_regular_file: one block, hole or tail per step.                 *)

Failed == -1

\* decompress_block, for a stream that starts at `from' in a span of `size'
\* bytes.  gzip ignores what follows the stream in the span, xz does not.
Decompressed(from, size) ==
    IF /\ from \in DOMAIN im.z
       /\ \/ im.compression = "gzip" /\ im.z[from].clen <= size
          \/ im.compression = "xz"   /\ im.z[from].clen = size
       /\ im.z[from].dlen <= im.block_size
    THEN im.z[from].dlen
    ELSE Failed

\* read_and_inflate_block: how many bytes it yields.
Inflated(from, raw) ==
    IF raw.size > im.block_size \/ (raw.size > 0 /\ from + raw.size > im.len)
    THEN Failed
    ELSE IF raw.compressed THEN Decompressed(from, raw.size) ELSE raw.size

MoreBlocks == Len(file.pieces) < NBlocks(file.inode)
TailDue    == file.inode.frag # NoFrag /\ Len(file.pieces) = NBlocks(file.inode)
NextSize   == file.inode.sizes[Len(file.pieces) + 1]

expected_len ==
    IF file.bytes_before + im.block_size > file.inode.file_size
    THEN file.inode.file_size - file.bytes_before
    ELSE im.block_size

\* write_data_block: a block of size 0 is a hole.
BlockLen ==
    IF NextSize.size = 0 THEN expected_len ELSE Inflated(file.block_offset, NextSize)

\* A fault: a block may come out shorter than it should.
MUT_BlockAccepted_any_length == BlockLen # Failed

BlockAccepted == BlockLen = expected_len

Written(piece) ==
    disk' = [disk EXCEPT ![file.path] =
               Regular(file.inode, Append(file.pieces, piece), FALSE)]

WriteBlock ==
    /\ pc = "file" /\ MoreBlocks
    /\ BlockAccepted
    /\ LET piece == [kind |-> IF NextSize.size = 0 THEN "hole" ELSE "block",
                     at |-> file.block_offset, len |-> BlockLen]
       IN  /\ file' = [file EXCEPT
                         !.pieces = Append(file.pieces, piece),
                         !.block_offset = @ + NextSize.size,
                         !.bytes_before = @ + expected_len]
           /\ Written(piece)
    /\ UNCHANGED <<im, mode, pc, rc, stack, out>>

tail_len == file.inode.file_size - file.bytes_before

\* read_fragment_entry, and the slice of the block it names.
TailAccepted ==
    /\ file.inode.frag < im.fragments
    /\ file.inode.frag \in DOMAIN im.frag
    /\ LET frag == im.frag[file.inode.frag]
       IN  file.inode.frag_offset + tail_len <= Inflated(frag.start, frag.raw)

WriteTail ==
    /\ pc = "file" /\ TailDue
    /\ TailAccepted
    /\ LET piece == [kind |-> "tail", at |-> file.inode.frag_offset, len |-> tail_len]
       IN  /\ file' = [file EXCEPT !.pieces = Append(file.pieces, piece),
                                   !.bytes_before = file.inode.file_size]
           /\ Written(piece)
    /\ UNCHANGED <<im, mode, pc, rc, stack, out>>

\* What the stream buffers is on disk once fclose has succeeded.  After a call
\* that failed, as much is there as had been flushed, in whole pieces here.
Torn ==
    {Regular(file.inode, SubSeq(file.pieces, 1, n), TRUE) : n \in 0 .. Len(file.pieces)}

\* A piece that cannot be had, the malloc before the first one, an fwrite.
ContentFails ==
    \/ MoreBlocks /\ ~BlockAccepted
    \/ TailDue /\ ~TailAccepted
    \/ MayFail /\ (MoreBlocks \/ TailDue \/ file.pieces = <<>>)

\* A fault: the walk goes on without the file.
MUT_RejectContent_goes_on ==
    /\ pc = "file" /\ ContentFails
    /\ disk' = Without(disk, file.path)
    /\ file' = NoFile
    /\ pc' = "walk"
    /\ UNCHANGED <<im, mode, rc, stack, out>>

\* No truncated file is left behind, unless remove fails.
RejectContent ==
    /\ pc = "file" /\ ContentFails
    /\ \/ disk' = Without(disk, file.path)
       \/ MayFail /\ \E left \in Torn : disk' = [disk EXCEPT ![file.path] = left]
    /\ file' = NoFile
    /\ Fail
    /\ UNCHANGED <<im, mode>>

\* What fclose returns is ignored.
CloseFile ==
    /\ pc = "file" /\ ~MoreBlocks /\ ~TailDue
    /\ \/ UNCHANGED disk
       \/ MayFail /\ \E left \in Torn : disk' = [disk EXCEPT ![file.path] = left]
    /\ file' = NoFile
    /\ pc' = "walk"
    /\ UNCHANGED <<im, mode, rc, stack, out>>

-----------------------------------------------------------------------------
process_dir_entry ==
    \/ RejectEntry \/ EnterDirectory \/ RejectDirectory \/ VisitOther
    \/ VisitRegular \/ RejectRegular

walk_directory == ReadHeader \/ RejectHeader \/ LeaveDirectory \/ process_dir_entry

extract_regular_file == WriteBlock \/ WriteTail \/ RejectContent \/ CloseFile

Returned == pc = "done" /\ UNCHANGED vars

Next == Start \/ walk_directory \/ extract_regular_file \/ Returned

Spec     == Init /\ [][Next]_vars
FairSpec == Spec /\ WF_vars(Start \/ walk_directory \/ extract_regular_file)

-----------------------------------------------------------------------------
(* Correctness.                                                            *)

Frames == [pos : Nat, remaining : Nat, left : 0 .. MAX_GROUP, start : Nat,
           path : Seq(Names), plen : Nat]
Pieces == [kind : {"block", "hole", "tail"}, at : Nat, len : Nat]
Files  == [path : Seq(Names), inode : Inodes, pieces : Seq(Pieces),
           block_offset : Nat, bytes_before : Nat]

\* The types of the state; no more is ever written than the inode announces
\* (`file_size - bytes_before' is an unsigned subtraction, twice).
TypeOK ==
    /\ ImageOK(im)
    /\ mode \in {"list", "extract"}
    /\ pc \in {"start", "walk", "file", "done"}
    /\ rc \in {0, -1}
    /\ stack \in Seq(Frames)
    /\ file \in Files
    /\ file.bytes_before <= file.inode.file_size

\* The recursion is never deeper than MAX_DIR_DEPTH + 1 frames.
StackBounded == Len(stack) <= MAX_DIR_DEPTH + 1

\* The cursor of every directory being walked stands inside the listing of a
\* directory inode of the image, and what remains of the listing ends where
\* that inode says: groups and entries take from `remaining' exactly what they
\* take from the cursor, so no directory is read on into the next one's
\* listing.  (`remaining' in walk_directory and process_dir_entry.)
WalkInListing ==
    \A i \in 1 .. Len(stack) :
      \E x \in DOMAIN im.inode :
        LET r == im.inode[x] IN
        /\ r.dir <= stack[i].pos
        /\ stack[i].pos + stack[i].remaining = r.dir + r.dir_size - 3

\* Piece i of a file, from its inode and the piece before it: a block starts
\* behind the block before it, a hole takes no room, all but the last block
\* are full, and the tail is the rest.
PieceIs(pieces, i, r) ==
    LET begin == im.block_size * (i - 1)
    IN  pieces[i] =
          IF i <= NBlocks(r)
          THEN [kind |-> IF r.sizes[i].size = 0 THEN "hole" ELSE "block",
                at   |-> IF i = 1 THEN r.start
                         ELSE pieces[i - 1].at + r.sizes[i - 1].size,
                len  |-> IF begin + im.block_size <= r.file_size
                         THEN im.block_size ELSE r.file_size - begin]
          ELSE [kind |-> "tail", at |-> r.frag_offset, len |-> r.file_size - begin]

\* How many pieces a file has.
NPieces(r) == NBlocks(r) + (IF r.frag = NoFrag THEN 0 ELSE 1)

\* A file on disk consists of the pieces its inode describes, each from the
\* right place and of the right length: of all of them, or of the first ones
\* while it is being written or after its own fclose or remove has failed.  No
\* file is larger than the cap.  ("Don't leave a truncated/partial file
\* behind", extract_regular_file.)
FileIsItsInode ==
    \A path \in DOMAIN disk : disk[path].kind = "reg" =>
      LET r      == disk[path].inode
          pieces == disk[path].pieces
      IN  /\ r.file_size <= MAX_EXTRACTED_FILE_SIZE
          /\ Len(pieces) <= NPieces(r)
          /\ \/ Len(pieces) = NPieces(r)
             \/ pc = "file" /\ file.path = path
             \/ disk[path].torn
          /\ \A i \in 1 .. Len(pieces) : PieceIs(pieces, i, r)

\* As long as an extraction has not failed, and so after a successful one, the
\* disk shows the list: every directory and regular file that has been listed
\* and nothing else.
DiskMirrorsList == mode = "extract" /\ rc = 0 => Mirrors(disk, out)

\* A place of the image: where the next header, or an entry of a group with so
\* many left, is expected, with so many bytes of the listing left.
Longest == Max({0} \cup {im.inode[x].dir_size : x \in DOMAIN im.inode})

Regions == [depth : 0 .. MAX_DIR_DEPTH, pos : Nat, remaining : 0 .. Longest,
            left : 0 .. MAX_GROUP, start : Nat, path : Seq(Names)]

Region(depth, pos, remaining, left, start, path) ==
    [depth |-> depth, pos |-> pos, remaining |-> remaining, left |-> left,
     start |-> start, path |-> path]

Nothing == [items |-> <<>>, down |-> {}, on |-> {}]
Wrong   == [items |-> <<Broken>>, down |-> {}, on |-> {}]

\* A group of 2^32 entries is one of none.
HeaderPlace(r) ==
    LET h == im.hdr[r.pos]
    IN  IF \/ r.remaining < 12 \/ r.pos \notin DOMAIN im.hdr
           \/ h.count >= MAX_GROUP /\ h.count # U32 - 1
        THEN Wrong
        ELSE [items |-> <<>>, down |-> {},
              on |-> {Region(r.depth, r.pos + 12, r.remaining - 12,
                             IF h.count = U32 - 1 THEN 0 ELSE h.count + 1, h.start, r.path)}]

EntryPlace(r) ==
    LET e      == im.ent[r.pos]
        step   == 9 + e.name_size
        ref    == <<r.start, e.offset>>
        node   == im.inode[ref]
        path   == Append(r.path, e.name)
        is_dir == node.type = "dir"
        empty  == node.dir_size < 4
        inside == r.depth < MAX_DIR_DEPTH /\ (empty \/ node.dir # NoPos)
        entry  == [path |-> path, kind |-> node.type,
                   size |-> IF is_dir THEN 0 ELSE node.file_size]
    IN  IF \/ r.pos \notin DOMAIN im.ent \/ e.name = Unsafe
           \/ step > r.remaining \/ e.name_size >= MAX_NAME
           \/ ref \notin DOMAIN im.inode \/ StrLen(path) >= PATH_CAP
        THEN Wrong
        ELSE [items |-> IF is_dir /\ ~inside THEN <<entry, Broken>> ELSE <<entry>>,
              down  |-> IF is_dir /\ inside /\ ~empty
                        THEN {Region(r.depth + 1, node.dir, node.dir_size - 3, 0, 0, path)}
                        ELSE {},
              on    |-> {Region(r.depth, r.pos + step, r.remaining - step, r.left - 1,
                                r.start, r.path)}]

Place(r) ==
    IF r.left > 0 THEN EntryPlace(r)
    ELSE IF r.remaining > 0 THEN HeaderPlace(r) ELSE Nothing

Preorder == Listing([r \in Regions |-> Place(r)])

\* The whole tree of the image.
Tree ==
    LET root == im.inode[im.root]
    IN  IF im.len < SUPER_SIZE \/ im.root \notin DOMAIN im.inode THEN <<Broken>>
        ELSE IF root.dir_size < 4 THEN <<>>
        ELSE IF root.dir = NoPos THEN <<Broken>>
        ELSE Preorder[Region(0, root.dir, root.dir_size - 3, 0, 0, <<>>)]

\* A walk that succeeds lists the whole tree of the image, depth first and in
\* image order, each entry once, the same for list and for extract; and
\* listing fails, unless an allocation does, exactly when that tree has a group
\* or an entry out of bounds, an unsafe name, an inode that cannot be read, a
\* path too long, or no end.  (walk_directory, process_dir_entry.)
ListIsTree ==
    pc = "done" =>
      /\ rc = 0 => out = Tree
      /\ mode = "list" /\ ~MayFail => (rc = -1 <=> Broken \in Range(Tree))

\* The walk ends, on every image.
Terminates == <>(pc = "done")
=============================================================================

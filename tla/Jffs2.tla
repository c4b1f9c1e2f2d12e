-------------------------------- MODULE Jffs2 --------------------------------
(***************************************************************************)
(* crimp_jffs2_list and crimp_jffs2_extract (src/src/extract/jffs2.c)      *)
(* after the log has been scanned (module Jffs2Scan): the nodes are        *)
(* sorted, the newest node of every name and of every inode is taken for   *)
(* the current one, the tree is walked from the root inode, and a file is  *)
(* put together from its fragments in the order of their versions.         *)
(*                                                                         *)
(* Names are numbered in the order of dirent_name_cmp.                     *)
(***************************************************************************)
EXTENDS FsTree

CONSTANTS
    Logs,      \* what scan_log can have collected: [dirents, inodes]
    U32,       \* 2^32 in the code: the fields of a node are below it
    MAX_SIZE   \* JFFS2_MAX_EXTRACTED_FILE_SIZE, 256 MiB in the code

ROOT_INO == 1

Word == 0 .. U32 - 1

\* jffs2_dirent_rec; ino 0 says that the name was deleted.
Dirents == [pino : Word, version : Word, ino : Word, name : Names \cup {Unsafe}]

\* jffs2_inode_rec; `inflates': zlib turns the csize bytes of the payload
\* into exactly dsize.
Inodes == [ino : Word, version : Word, kind : {"dir", "reg", "other"},
           isize : Word, frag_offset : Word, csize : Word, dsize : Word,
           compr : {"none", "zlib", "other"}, inflates : BOOLEAN]

ASSUME Jffs2Assumption ==
    /\ Names \subseteq Nat /\ Unsafe \in Nat
    /\ Logs \subseteq [dirents : Seq(Dirents), inodes : Seq(Inodes)]
    /\ U32 \in Nat \ {0, 1} /\ MAX_SIZE \in Nat

VARIABLES
    log,      \* the nodes in log order
    mode,     \* "list" (output_dir is NULL) or "extract"
    pc,       \* "start", "walk", "file" or "done"
    rc,       \* what the function returns once pc is "done"
    dirents,  \* the dirents, sorted by (pino, name, version)
    inodes,   \* the inode nodes, sorted by (ino, version)
    stack,    \* the frames of walk_directory, the deepest last
    out,      \* the entry list
    disk,     \* below output_dir: path -> what it holds
    file      \* the locals of extract_regular_file

vars == <<log, mode, pc, rc, dirents, inodes, stack, out, disk, file>>

NoFile == [path |-> <<>>, ino |-> 0, isize |-> 0, next |-> 1, content |-> <<>>]

Init ==
    /\ log \in Logs
    /\ mode \in {"list", "extract"}
    /\ pc = "start"
    /\ rc = 0
    /\ dirents = <<>> /\ inodes = <<>>
    /\ stack = <<>>
    /\ out = <<>>
    /\ disk = <<>>
    /\ file = NoFile

MayFail == mode \in IOFaults

Fail == pc' = "done" /\ rc' = -1 /\ out' = <<>> /\ stack' = <<>>

-----------------------------------------------------------------------------
(* scan_and_sort: qsort, which may leave equal elements in any order.      *)

\* A fault: the comparison ignores the version.
MUT_dirent_le_no_version(d, e) ==
    d.pino < e.pino \/ (d.pino = e.pino /\ d.name <= e.name)

\* dirent_cmp(d, e) <= 0 and inode_rec_cmp(r, s) <= 0.
dirent_le(d, e) ==
    \/ d.pino < e.pino
    \/ d.pino = e.pino /\ d.name < e.name
    \/ d.pino = e.pino /\ d.name = e.name /\ d.version <= e.version

MUT_inode_le_no_version(r, s) == r.ino <= s.ino

inode_le(r, s) ==
    r.ino < s.ino \/ (r.ino = s.ino /\ r.version <= s.version)

DirentsSorted(s) == \A i, j \in 1 .. Len(s) : i < j => dirent_le(s[i], s[j])
InodesSorted(s)  == \A i, j \in 1 .. Len(s) : i < j => inode_le(s[i], s[j])

Reorderings(s) ==
    {[i \in 1 .. Len(s) |-> s[p[i]]] :
       p \in {f \in [1 .. Len(s) -> 1 .. Len(s)] :
                \A j \in 1 .. Len(s) : \E i \in 1 .. Len(s) : f[i] = j}}

-----------------------------------------------------------------------------
(* dirent_lower_bound and inode_lower_bound.                               *)

Pinos == [i \in 1 .. Len(dirents) |-> dirents[i].pino]
Inos  == [i \in 1 .. Len(inodes)  |-> inodes[i].ino]

\* A fault: it passes over the keys that are equal.
MUT_lower_bound_skips(keys, k) ==
    LET search[at \in (0 .. Len(keys)) \X (0 .. Len(keys))] ==
          LET lo  == at[1]
              hi  == at[2]
              mid == lo + (hi - lo) \div 2
          IN  IF lo >= hi THEN lo
              ELSE IF keys[mid + 1] <= k THEN search[<<mid + 1, hi>>]
                                        ELSE search[<<lo, mid>>]
    IN  search[<<0, Len(keys)>>] + 1

\* The binary search as it is written, from lo and hi.  Indices are C's plus
\* one.
lower_bound(keys, k) ==
    LET search[at \in (0 .. Len(keys)) \X (0 .. Len(keys))] ==
          LET lo  == at[1]
              hi  == at[2]
              mid == lo + (hi - lo) \div 2
          IN  IF lo >= hi THEN lo
              ELSE IF keys[mid + 1] < k THEN search[<<mid + 1, hi>>]
                                        ELSE search[<<lo, mid>>]
    IN  search[<<0, Len(keys)>>] + 1

\* What it finds, see SearchIsLowerBound.
LowerBound(keys, k) ==
    CHOOSE lo \in 1 .. Len(keys) + 1 :
      /\ \A i \in 1 .. lo - 1 : keys[i] < k
      /\ \A i \in lo .. Len(keys) : keys[i] >= k

\* The run of inode nodes of one inode: from the lower bound on.
Run(ino) ==
    LET start == LowerBound(Inos, ino)
    IN  {i \in start .. Len(inodes) : \A k \in start .. i : inodes[k].ino = ino}

\* find_inode_meta: the last of the run.
HasMeta(ino) == Run(ino) # {}
Meta(ino)    == inodes[CHOOSE i \in Run(ino) : \A k \in Run(ino) : k <= i]

-----------------------------------------------------------------------------
Frame(pino, path, plen) ==
    [pino |-> pino, next |-> LowerBound(Pinos, pino), path |-> path, plen |-> plen]

\* run: sort, crimp_fs_make_directory(output_dir), walk from the root inode.
Start ==
    /\ pc = "start"
    /\ \/ /\ dirents' \in Reorderings(log.dirents) /\ DirentsSorted(dirents')
          /\ inodes' \in Reorderings(log.inodes) /\ InodesSorted(inodes')
          /\ stack' = <<[pino |-> ROOT_INO,
                         next |-> LowerBound(Pinos', ROOT_INO),
                         path |-> <<>>, plen |-> 0]>>
          /\ pc' = "walk"
          /\ UNCHANGED <<rc, out>>
       \/ MayFail /\ Fail /\ UNCHANGED <<dirents, inodes>>
    /\ UNCHANGED <<log, mode, disk, file>>

-----------------------------------------------------------------------------
(* for_each_live_child and visit_child, on the deepest frame.              *)

Top == stack[Len(stack)]

SameName(i, j) ==
    dirents[i].pino = dirents[j].pino /\ dirents[i].name = dirents[j].name

RunEnd(i) ==
    CHOOSE j \in i .. Len(dirents) :
      /\ \A k \in i .. j : SameName(i, k)
      /\ j < Len(dirents) => ~SameName(i, j + 1)

\* A fault: the oldest dirent of the name counts.
MUT_Winner_oldest == dirents[Top.next]

\* The dirent with the highest version, of those with the next name.
Winner == dirents[RunEnd(Top.next)]

AtChild ==
    /\ pc = "walk" /\ stack # <<>>
    /\ Top.next <= Len(dirents) /\ dirents[Top.next].pino = Top.pino

Advanced ==
    [stack EXCEPT ![Len(stack)] =
       [Top EXCEPT !.next = RunEnd(Top.next) + 1]]

SkipDeleted ==
    /\ AtChild /\ Winner.ino = 0
    /\ stack' = Advanced
    /\ UNCHANGED <<log, mode, pc, rc, dirents, inodes, out, disk, file>>

ChildPath == Append(Top.path, Winner.name)
ChildLen  == JoinedLen(Top.path, Top.plen, Winner.name)
ChildMeta == Meta(Winner.ino)
Listed    == Append(out, ListEntry(ChildPath, ChildMeta.kind, ChildMeta.isize))

ChildAccepted ==
    /\ AtChild /\ Winner.ino # 0
    /\ Winner.name # Unsafe
    /\ HasMeta(Winner.ino)
    /\ ChildLen < PATH_CAP

RejectChild ==
    /\ AtChild /\ Winner.ino # 0
    /\ ~ChildAccepted \/ MayFail
    /\ Fail
    /\ UNCHANGED <<log, mode, dirents, inodes, disk, file>>

DirectoryMade ==
    mode = "extract" => Joinable(ChildLen) /\ Creatable(disk, ChildPath)

\* walk_directory's check; the depth of the new frame is Len(stack).
Enterable == Len(stack) <= MAX_DIR_DEPTH

EnterDirectory ==
    /\ ChildAccepted
    /\ ChildMeta.kind = "dir"
    /\ DirectoryMade /\ Enterable
    /\ stack' = Append(Advanced, Frame(Winner.ino, ChildPath, ChildLen))
    /\ out' = Listed
    /\ disk' = IF mode = "extract" THEN Put(disk, ChildPath, Dir) ELSE disk
    /\ UNCHANGED <<log, mode, pc, rc, dirents, inodes, file>>

RejectDirectory ==
    /\ ChildAccepted
    /\ ChildMeta.kind = "dir"
    /\ ~DirectoryMade \/ ~Enterable
    /\ disk' = IF mode = "extract" /\ DirectoryMade
               THEN Put(disk, ChildPath, Dir) ELSE disk
    /\ Fail
    /\ UNCHANGED <<log, mode, dirents, inodes, file>>

VisitOther ==
    /\ ChildAccepted
    /\ \/ ChildMeta.kind = "other" /\ (mode = "extract" => Joinable(ChildLen))
       \/ ChildMeta.kind = "reg" /\ mode = "list"
    /\ stack' = Advanced
    /\ out' = Listed
    /\ UNCHANGED <<log, mode, pc, rc, dirents, inodes, disk, file>>

\* extract_regular_file: calloc of the final size.
VisitRegular ==
    /\ ChildAccepted
    /\ mode = "extract" /\ ChildMeta.kind = "reg"
    /\ Joinable(ChildLen)
    /\ ChildMeta.isize <= MAX_SIZE
    /\ stack' = Advanced
    /\ out' = Listed
    /\ file' = [path |-> ChildPath, ino |-> Winner.ino, isize |-> ChildMeta.isize,
                next |-> LowerBound(Inos, Winner.ino),
                content |-> [b \in 0 .. ChildMeta.isize - 1 |-> 0]]
    /\ pc' = "file"
    /\ UNCHANGED <<log, mode, rc, dirents, inodes, disk>>

RejectRegular ==
    /\ ChildAccepted
    /\ mode = "extract" /\ ChildMeta.kind \in {"reg", "other"}
    /\ ~Joinable(ChildLen) \/ (ChildMeta.kind = "reg" /\ ChildMeta.isize > MAX_SIZE)
    /\ Fail
    /\ UNCHANGED <<log, mode, dirents, inodes, disk, file>>

\* A fault: only the root directory is ever left.
MUT_LeaveDirectory_root_only ==
    /\ pc = "walk" /\ stack # <<>> /\ ~AtChild
    /\ IF Len(stack) = 1 THEN stack' = <<>> /\ pc' = "done"
                         ELSE UNCHANGED <<stack, pc>>
    /\ UNCHANGED <<log, mode, rc, dirents, inodes, out, disk, file>>

LeaveDirectory ==
    /\ pc = "walk" /\ stack # <<>> /\ ~AtChild
    /\ stack' = Front(stack)
    /\ pc' = IF Len(stack) = 1 THEN "done" ELSE "walk"
    /\ UNCHANGED <<log, mode, rc, dirents, inodes, out, disk, file>>

-----------------------------------------------------------------------------
(* extract_regular_file: one fragment per step, then the whole file.  The  *)
(* content is, for each byte, the node it comes from (0: none, a zero).    *)

MoreFragments ==
    file.isize > 0 /\ file.next <= Len(inodes) /\ inodes[file.next].ino = file.ino

\* A node without data, or one entirely past the end of the file.
Skipped(r) == r.dsize = 0 \/ r.frag_offset >= file.isize

\* fetch_fragment; zlib's uncompress is external.
Fetched(r) ==
    \/ r.compr = "none" /\ r.csize = r.dsize
    \/ r.compr = "zlib" /\ r.dsize <= MAX_SIZE /\ r.inflates

\* A fault: the end of the fragment is computed in 32 bits.
MUT_Usable_32bit(r) ==
    IF (r.frag_offset + r.dsize) % U32 > file.isize
    THEN file.isize - r.frag_offset ELSE r.dsize

\* How much of it lies in the file: `end' is a 64-bit sum.
Usable(r) ==
    IF r.frag_offset + r.dsize > file.isize
    THEN file.isize - r.frag_offset ELSE r.dsize

Written(content, r, source) ==
    LET bytes == r.frag_offset .. r.frag_offset + Usable(r) - 1
    IN  [b \in DOMAIN content \cup bytes |->
           IF b \in bytes THEN source ELSE content[b]]

ReplayFragment ==
    /\ pc = "file" /\ MoreFragments
    /\ LET r == inodes[file.next] IN
       \/ Skipped(r) /\ file' = [file EXCEPT !.next = @ + 1]
       \/ /\ ~Skipped(r) /\ Fetched(r)
          /\ file' = [file EXCEPT !.next = @ + 1,
                                  !.content = Written(@, r, file.next)]
    /\ UNCHANGED <<log, mode, pc, rc, dirents, inodes, stack, out, disk>>

\* A fault: the walk goes on without the file.
MUT_RejectFragment_goes_on ==
    /\ pc = "file" /\ MoreFragments
    /\ LET r == inodes[file.next]
       IN  (~Skipped(r) /\ ~Fetched(r)) \/ MayFail
    /\ file' = NoFile
    /\ pc' = "walk"
    /\ UNCHANGED <<log, mode, rc, dirents, inodes, stack, out, disk>>

RejectFragment ==
    /\ pc = "file" /\ MoreFragments
    /\ LET r == inodes[file.next]
       IN  (~Skipped(r) /\ ~Fetched(r)) \/ MayFail
    /\ file' = NoFile
    /\ Fail
    /\ UNCHANGED <<log, mode, dirents, inodes, disk>>

\* What is on disk of the file; torn: the fclose of a file that is kept, or the
\* remove of one that is not, has failed.
Regular(content, torn) ==
    [kind |-> "reg", ino |-> file.ino, isize |-> file.isize, content |-> content,
     torn |-> torn]

\* What the stream buffers is on disk once fclose has succeeded.  After a call
\* that failed, as much is there as had been flushed.
Torn == {Regular([b \in 0 .. n - 1 |-> file.content[b]], TRUE) : n \in 0 .. file.isize}

\* What fclose returns is ignored.
WriteFile ==
    /\ pc = "file" /\ ~MoreFragments
    /\ Openable(disk, file.path)
    /\ \E f \in {Regular(file.content, FALSE)} \cup (IF MayFail THEN Torn ELSE {}) :
         disk' = Put(disk, file.path, f)
    /\ file' = NoFile
    /\ pc' = "walk"
    /\ UNCHANGED <<log, mode, rc, dirents, inodes, stack, out>>

\* fopen fails, or fwrite does and the file is removed again, unless that
\* fails too.
RejectWrite ==
    /\ pc = "file" /\ ~MoreFragments
    /\ \/ (~Openable(disk, file.path) \/ MayFail) /\ UNCHANGED disk
       \/ /\ Openable(disk, file.path) /\ MayFail /\ file.isize > 0
          /\ \/ disk' = Without(disk, file.path)
             \/ \E f \in Torn : disk' = Put(disk, file.path, f)
    /\ file' = NoFile
    /\ Fail
    /\ UNCHANGED <<log, mode, dirents, inodes>>

-----------------------------------------------------------------------------
walk_directory ==
    \/ SkipDeleted \/ RejectChild \/ EnterDirectory \/ RejectDirectory
    \/ VisitOther \/ VisitRegular \/ RejectRegular \/ LeaveDirectory

extract_regular_file ==
    ReplayFragment \/ RejectFragment \/ WriteFile \/ RejectWrite

Returned == pc = "done" /\ UNCHANGED vars

Next == Start \/ walk_directory \/ extract_regular_file \/ Returned

Spec     == Init /\ [][Next]_vars
FairSpec == Spec /\ WF_vars(Start \/ walk_directory \/ extract_regular_file)

-----------------------------------------------------------------------------
(* Correctness.                                                            *)

Frames  == [pino : Word, next : Nat \ {0}, path : Seq(Names), plen : Nat]
Entries == [path : Seq(Names), kind : {"dir", "reg", "other"}, size : Word]

\* The types of the state, and the file being written: its size was checked
\* before its buffer was allocated.  (extract_regular_file.)
TypeOK ==
    /\ log.dirents \in Seq(Dirents) /\ log.inodes \in Seq(Inodes)
    /\ mode \in {"list", "extract"}
    /\ pc \in {"start", "walk", "file", "done"}
    /\ rc \in {0, -1}
    /\ dirents \in Seq(Dirents) /\ inodes \in Seq(Inodes)
    /\ stack \in Seq(Frames) /\ out \in Seq(Entries)
    /\ file \in [path : Seq(Names), ino : Word, isize : {z \in Word : z <= MAX_SIZE},
                 next : Nat \ {0}, content : {file.content}]

\* The recursion is never deeper than MAX_DIR_DEPTH + 1 frames.
StackBounded == Len(stack) <= MAX_DIR_DEPTH + 1

\* The two binary searches find the first element of the run they are asked
\* for, or its place, for every key.  (dirent_lower_bound,
\* inode_lower_bound: `mid', `lo' and `hi'.)
SearchIsLowerBound ==
    pc # "start" =>
      \A k \in Word : /\ lower_bound(Pinos, k) = LowerBound(Pinos, k)
                       /\ lower_bound(Inos, k) = LowerBound(Inos, k)

\* A dirent that no newer one of the same directory and name replaces or
\* deletes.
Live(d) ==
    /\ d.ino # 0
    /\ \A i \in 1 .. Len(log.dirents) :
         LET e == log.dirents[i]
         IN  e.pino = d.pino /\ e.name = d.name => e.version <= d.version

\* Only live entries are listed and entered: never a deleted name, never the
\* inode a name had before.  ("so within a run of equal (pino, name), the
\* last entry is authoritative", for_each_live_child.)
ListsLive(d) ==
    /\ Live(d)
    /\ d.pino = Top.pino
    /\ out' = Append(out, out'[Len(out) + 1])
    /\ out'[Len(out) + 1].path = Append(Top.path, d.name)
    /\ Len(stack') > Len(stack) => stack'[Len(stack) + 1].pino = d.ino

OnlyLiveEntries ==
    [][Len(out') > Len(out) =>
         \E i \in 1 .. Len(log.dirents) : ListsLive(log.dirents[i])]_vars

\* The content of a file is written inside the buffer of its final size,
\* whatever offsets and lengths its fragments declare.  (`end' and `usable'
\* in extract_regular_file.)
ReplayInBuffer == pc = "file" => DOMAIN file.content = 0 .. file.isize - 1

\* Every byte on disk comes from the newest fragment that covers it, or is
\* zero if none does, and all bytes up to the size in the newest node of the
\* inode are there: or the first of them, if the file's own fclose or remove
\* has failed.  ("a later fragment overwrites earlier bytes at its own offset,
\* the same `higher version wins' rule", extract_regular_file.)
Covering(ino, b) ==
    {i \in 1 .. Len(inodes) :
       /\ inodes[i].ino = ino
       /\ inodes[i].frag_offset <= b
       /\ b < inodes[i].frag_offset + inodes[i].dsize}

IsNewest(i, S) == i \in S /\ \A k \in S : inodes[k].version <= inodes[i].version

NewestFragmentWins ==
    \A path \in DOMAIN disk : disk[path].kind = "reg" =>
      LET f == disk[path] IN
      /\ \E n \in 0 .. f.isize :
           DOMAIN f.content = 0 .. n - 1 /\ (n = f.isize \/ f.torn)
      /\ \A b \in DOMAIN f.content :
           IF Covering(f.ino, b) = {} THEN f.content[b] = 0
           ELSE IsNewest(f.content[b], Covering(f.ino, b))
      /\ \E i \in 1 .. Len(inodes) :
           /\ IsNewest(i, {k \in 1 .. Len(inodes) : inodes[k].ino = f.ino})
           /\ inodes[i].isize = f.isize

\* As long as an extraction has not failed, and so after a successful one, the
\* disk shows the list, but for the file whose content is being put together:
\* also when names were deleted, written again as something else, or lead to
\* one inode.
DiskMirrorsList ==
    mode = "extract" /\ rc = 0 =>
      Mirrors(disk, IF pc = "file" THEN Front(out) ELSE out)

\* No two nodes for one name, or for one inode, have the same version: qsort
\* would decide between them.
Unambiguous ==
    /\ \A i, j \in 1 .. Len(log.dirents) :
         LET d == log.dirents[i]
             e == log.dirents[j]
         IN  i # j => <<d.pino, d.name, d.version>> # <<e.pino, e.name, e.version>>
    /\ \A i, j \in 1 .. Len(log.inodes) :
         LET r == log.inodes[i]
             s == log.inodes[j]
         IN  i # j => <<r.ino, r.version>> # <<s.ino, s.version>>

\* A place of the log: a directory, from a name on.  All names are below
\* TopName.
TopName == Max({0} \cup {log.dirents[i].name + 1 : i \in 1 .. Len(log.dirents)})

Regions == [depth : 0 .. MAX_DIR_DEPTH, pino : Word, from : 0 .. TopName,
            path : Seq(Names)]

Region(depth, pino, from, path) ==
    [depth |-> depth, pino |-> pino, from |-> from, path |-> path]

LiveFrom(pino, from) ==
    {d \in Range(log.dirents) : d.pino = pino /\ d.name >= from /\ Live(d)}

\* The newest node of an inode, if it has any.
NewestOf(ino) ==
    {r \in Range(log.inodes) :
       r.ino = ino /\ \A s \in Range(log.inodes) : s.ino = ino => s.version <= r.version}

Place(r) ==
    LET live   == LiveFrom(r.pino, r.from)
        d      == CHOOSE d \in live : \A e \in live : d.name <= e.name
        newest == NewestOf(d.ino)
        meta   == CHOOSE m \in newest : TRUE
        path   == Append(r.path, d.name)
        is_dir == meta.kind = "dir"
        inside == r.depth < MAX_DIR_DEPTH
        entry  == [path |-> path, kind |-> meta.kind,
                   size |-> IF is_dir THEN 0 ELSE meta.isize]
    IN  IF live = {} THEN [items |-> <<>>, down |-> {}, on |-> {}]
        ELSE IF d.name = Unsafe \/ newest = {} \/ StrLen(path) >= PATH_CAP
        THEN [items |-> <<Broken>>, down |-> {}, on |-> {}]
        ELSE [items |-> IF is_dir /\ ~inside THEN <<entry, Broken>> ELSE <<entry>>,
              down  |-> IF is_dir /\ inside THEN {Region(r.depth + 1, d.ino, 0, path)} ELSE {},
              on    |-> {Region(r.depth, r.pino, d.name + 1, r.path)}]

Preorder == Listing([r \in Regions |-> Place(r)])

\* The live tree of the log.
Tree == Preorder[Region(0, ROOT_INO, 0, <<>>)]

\* As long as no two nodes claim the same version, the listing is the live
\* tree of the log: every live name once, in order, a directory before its
\* content; and listing fails, unless an allocation does, exactly when that
\* tree has a name that is unsafe, an inode without a node, or a path that is
\* too long or too deep.  (for_each_live_child, find_inode_meta, dirent_cmp.)
ListIsLive ==
    pc = "done" /\ Unambiguous =>
      /\ rc = 0 => out = Tree
      /\ mode = "list" /\ ~MayFail => (rc = -1 <=> Broken \in Range(Tree))

\* The walk ends, on every log.
Terminates == <>(pc = "done")
=============================================================================

----------------------------- MODULE FsExtract ------------------------------
(***************************************************************************)
(* crimp_fs_extract (src/src/extract/identify.c): extract an image into    *)
(* output_dir ++ ".tmp", and replace output_dir by it once the extraction  *)
(* is complete.  The module follows one process through any number of      *)
(* calls on the same output_dir, as repeated runs of the CLI make them,    *)
(* one file system operation per step, so that a crash or a failing call   *)
(* can fall between any two of them.                                       *)
(*                                                                         *)
(* A directory tree is abstracted to its regular files: a path names a     *)
(* file, and a file's content is the image it was extracted from.          *)
(***************************************************************************)
EXTENDS FsFormat, FiniteSets

CONSTANTS
    Paths,     \* relative paths of regular files
    Images,    \* the contents the image file can have, from run to run
    Header,    \* Header[i] : what the recognisers see of image i
    Content,   \* Content[i] : the regular files image i holds
    Damage,    \* Damage[i] : the files (or Root) of i that cannot be decoded
    Root,      \* the superblock, the log scan or the root inode
    Found,     \* what the first call may find at output_dir and at tmp_dir
    None,      \* no file at this path
    Partial,   \* a file cut short
    Foreign,   \* a file that was not extracted by crimp
    Faults     \* the faults the environment may inject, see FaultKinds

\* "write":  a mkdir, fopen or fwrite fails;
\* "flush":  fclose fails to write what stdio still buffers;
\* "remove": remove, opendir or rmdir fails;
\* "rename": rename fails;
\* "crash":  the process is killed.
FaultKinds == {"write", "flush", "remove", "rename", "crash"}

Data     == Images \cup {None, Partial, Foreign}
NoFiles  == [p \in Paths |-> None]
Absent   == [kind |-> "absent", files |-> NoFiles]
Full(i)  == [kind  |-> "dir",
             files |-> [p \in Paths |-> IF p \in Content[i] THEN i ELSE None]]

\* "file" stands for everything lstat does not call a directory.
SlotStates == {s \in [kind : {"absent", "dir", "file"}, files : [Paths -> Data]] :
                 s.kind # "dir" => s.files = NoFiles}

ASSUME ImagesAssumption ==
    /\ Header  \in [Images -> ImageFile]
    /\ Content \in [Images -> SUBSET Paths]
    /\ Damage  \in [Images -> SUBSET (Paths \cup {Root})]
    /\ \A i \in Images : Damage[i] \subseteq Content[i] \cup {Root}
    /\ Root \notin Paths
ASSUME TokensAssumption ==
    /\ None \notin Images /\ Partial \notin Images /\ Foreign \notin Images
    /\ None # Partial /\ None # Foreign /\ Partial # Foreign
ASSUME FoundAssumption  == Found \subseteq SlotStates
ASSUME FaultsAssumption == Faults \subseteq FaultKinds

VARIABLES
    disk,   \* disk["out"], disk["tmp"] : what output_dir and tmp_dir hold
    pc,     \* where the call is
    img,    \* the image of the current or last call
    ext,    \* the extractor extract_dispatch tries (index in Extractors)
    todo,   \* files still to be written, or entries readdir has yet to return
    cur,    \* the file being written
    rc,     \* "none", "running", "ok", "fail" or "crashed"
    snap    \* history: what output_dir held when the call began

vars == <<disk, pc, img, ext, todo, cur, rc, snap>>

Slots     == {"out", "tmp"}
Removing  == {"clear_tmp", "clean_tmp", "clear_out"}
Target    == IF pc = "clear_out" THEN "out" ELSE "tmp"
Entries(s) == {p \in Paths : disk[s].files[p] # None}

Init ==
    /\ disk \in [Slots -> Found]
    /\ pc = "idle"
    /\ img \in Images
    /\ ext = 1
    /\ todo = {}
    /\ cur \in Paths
    /\ rc = "none"
    /\ snap = disk["out"]

-----------------------------------------------------------------------------
(* crimp_fs_extract: entry and early return.                               *)

\* A fault: the leftovers of a crashed run are not removed.
MUT_Call_keeps_leftovers(i) ==
    /\ pc = "idle"
    /\ img' = i /\ rc' = "running" /\ snap' = disk["out"]
    /\ pc' = "dispatch" /\ todo' = {} /\ ext' = 1
    /\ UNCHANGED <<disk, cur>>

Call(i) ==
    /\ pc = "idle"
    /\ img' = i
    /\ rc' = "running"
    /\ snap' = disk["out"]
    /\ pc' = "clear_tmp"
    /\ todo' = Entries("tmp")
    /\ ext' = 1
    /\ UNCHANGED <<disk, cur>>

\* tmp_dir does not fit its 1280 bytes: nothing is touched.
CallTooLong(i) ==
    /\ pc = "idle"
    /\ img' = i
    /\ rc' = "fail"
    /\ snap' = disk["out"]
    /\ UNCHANGED <<disk, pc, ext, todo, cur>>

-----------------------------------------------------------------------------
(* remove_tree, used on tmp_dir before the extraction, on tmp_dir after a  *)
(* failed one and on output_dir before the rename.  It is best effort: it  *)
(* returns nothing, and its caller goes on whatever is left.               *)

RemoveEntry(p) ==
    /\ pc \in Removing
    /\ p \in todo
    /\ todo' = todo \ {p}
    /\ \/ disk' = [disk EXCEPT ![Target].files[p] = None]
       \/ "remove" \in Faults /\ UNCHANGED disk
    /\ UNCHANGED <<pc, img, ext, cur, rc, snap>>

\* The closing rmdir (or the remove of a non-directory), and what the caller
\* does next.  A failing opendir is a failing remove of every entry.
RemoveTreeReturns ==
    /\ pc \in Removing
    /\ todo = {}
    /\ \/ Entries(Target) = {} /\ disk' = [disk EXCEPT ![Target] = Absent]
       \/ (Entries(Target) # {} \/ "remove" \in Faults) /\ UNCHANGED disk
    /\ pc' = CASE pc = "clear_tmp" -> "dispatch"
               [] pc = "clean_tmp" -> "idle"
               [] pc = "clear_out" -> "rename"
    /\ rc' = IF pc = "clean_tmp" THEN "fail" ELSE rc
    /\ UNCHANGED <<img, ext, todo, cur, snap>>

-----------------------------------------------------------------------------
(* extract_dispatch and the extractor it calls.                            *)

\* A fault: the extractor that failed is tried again.
MUT_NextExtractor_retries == pc' = "dispatch" /\ todo' = {} /\ UNCHANGED ext

NextExtractor == pc' = "dispatch" /\ ext' = ext + 1 /\ todo' = {}

\* The extractor rejects the header, or fails before it creates tmp_dir.
ExtractorRejects ==
    /\ pc = "dispatch"
    /\ ext <= Len(Extractors)
    /\ ~Accepts(Header[img], ext) \/ Root \in Damage[img]
    /\ NextExtractor
    /\ UNCHANGED <<disk, img, cur, rc, snap>>

\* crimp_fs_make_directory(tmp_dir): an existing directory will do.
ExtractorStarts ==
    /\ pc = "dispatch"
    /\ ext <= Len(Extractors)
    /\ Accepts(Header[img], ext)
    /\ \/ /\ disk["tmp"].kind # "file"
          /\ disk' = [disk EXCEPT !["tmp"].kind = "dir"]
          /\ pc' = "write"
          /\ todo' = Content[img]
          /\ UNCHANGED ext
       \/ /\ disk["tmp"].kind = "file" \/ "write" \in Faults
          /\ NextExtractor
          /\ UNCHANGED disk
    /\ UNCHANGED <<img, cur, rc, snap>>

\* Two faults: nothing is cleaned up, or the -1 of extract_dispatch is ignored.
MUT_DispatchFails_no_cleanup ==
    /\ pc = "dispatch" /\ ext > Len(Extractors)
    /\ pc' = "idle" /\ rc' = "fail"
    /\ UNCHANGED <<disk, img, ext, todo, cur, snap>>

MUT_DispatchFails_ignored ==
    /\ pc = "dispatch" /\ ext > Len(Extractors)
    /\ pc' = "clear_out" /\ todo' = Entries("out")
    /\ UNCHANGED <<disk, img, ext, cur, rc, snap>>

\* No extractor is left: remove what the failed one wrote and return -1.
DispatchFails ==
    /\ pc = "dispatch"
    /\ ext > Len(Extractors)
    /\ pc' = "clean_tmp"
    /\ todo' = Entries("tmp")
    /\ UNCHANGED <<disk, img, ext, cur, rc, snap>>

\* A fault: a file that is there already is taken for extracted.
MUT_OpenFile_skips_existing(p) ==
    /\ pc = "write" /\ p \in todo /\ Root \notin Damage[img]
    /\ Extractors[ext] = "jffs2" => p \notin Damage[img]
    /\ cur' = p
    /\ IF disk["tmp"].files[p] # None
       THEN pc' = "write" /\ todo' = todo \ {p} /\ UNCHANGED disk
       ELSE /\ disk' = [disk EXCEPT !["tmp"].files[p] = Partial]
            /\ pc' = "file" /\ UNCHANGED todo
    /\ UNCHANGED <<img, ext, rc, snap>>

\* fopen(disk_path, "wb") creates or truncates.  jffs2 opens the file only
\* when its whole content is in memory, the other two open it first.
OpenFile(p) ==
    /\ pc = "write"
    /\ p \in todo
    /\ Root \notin Damage[img]
    /\ Extractors[ext] = "jffs2" => p \notin Damage[img]
    /\ disk' = [disk EXCEPT !["tmp"].files[p] = Partial]
    /\ cur' = p
    /\ pc' = "file"
    /\ UNCHANGED <<img, ext, todo, rc, snap>>

\* A directory entry, an inode or (jffs2) the content cannot be read, or the
\* file cannot be opened: nothing of it is on disk, the walk is given up.
ExtractorFails ==
    /\ pc = "write"
    /\ Damage[img] # {} \/ "write" \in Faults
    /\ NextExtractor
    /\ UNCHANGED <<disk, img, cur, rc, snap>>

CloseFile ==
    /\ pc = "file"
    /\ cur \notin Damage[img]
    /\ \/ disk' = [disk EXCEPT !["tmp"].files[cur] = img]
       \/ "flush" \in Faults /\ UNCHANGED disk      \* fclose is not checked
    /\ todo' = todo \ {cur}
    /\ pc' = "write"
    /\ UNCHANGED <<img, ext, cur, rc, snap>>

\* A block cannot be decoded or written: no truncated file is left behind.
FileFails ==
    /\ pc = "file"
    /\ cur \in Damage[img] \/ "write" \in Faults
    /\ \/ disk' = [disk EXCEPT !["tmp"].files[cur] = None]
       \/ "remove" \in Faults /\ UNCHANGED disk
    /\ NextExtractor
    /\ UNCHANGED <<img, cur, rc, snap>>

ExtractorSucceeds ==
    /\ pc = "write"
    /\ todo = {}
    /\ Damage[img] = {}
    /\ pc' = "clear_out"
    /\ todo' = Entries("out")
    /\ UNCHANGED <<disk, img, ext, cur, rc, snap>>

-----------------------------------------------------------------------------
(* The rename.  rename(2) moves a directory onto nothing or onto an empty  *)
(* directory, and fails on anything else.                                  *)

Renamable == disk["out"].kind # "file" /\ Entries("out") = {}

Rename ==
    /\ pc = "rename"
    /\ \/ /\ Renamable
          /\ disk' = [out |-> disk["tmp"], tmp |-> Absent]
          /\ rc' = "ok"
       \/ /\ ~Renamable \/ "rename" \in Faults
          /\ rc' = "fail"
          /\ UNCHANGED disk
    /\ pc' = "idle"
    /\ UNCHANGED <<img, ext, todo, cur, snap>>

\* The process is killed: the disk stays as it is, the next run finds it so.
Crash ==
    /\ "crash" \in Faults
    /\ pc # "idle"
    /\ pc' = "idle"
    /\ rc' = "crashed"
    /\ todo' = {}
    /\ UNCHANGED <<disk, img, ext, cur, snap>>

-----------------------------------------------------------------------------
remove_tree == (\E p \in Paths : RemoveEntry(p)) \/ RemoveTreeReturns

extract_dispatch ==
    \/ ExtractorRejects \/ ExtractorStarts \/ DispatchFails
    \/ (\E p \in Paths : OpenFile(p)) \/ ExtractorFails
    \/ CloseFile \/ FileFails \/ ExtractorSucceeds

Step == remove_tree \/ extract_dispatch \/ Rename

Next == (\E i \in Images : Call(i) \/ CallTooLong(i)) \/ Step \/ Crash

Spec == Init /\ [][Next]_vars

\* A call that was started runs: nothing in it waits for anyone else.
FairSpec == Spec /\ WF_vars(Step)

-----------------------------------------------------------------------------
(* Correctness.                                                            *)

TypeOK ==
    /\ disk \in [Slots -> SlotStates]
    /\ pc \in Removing \cup {"idle", "dispatch", "write", "file", "rename"}
    /\ img \in Images
    /\ ext \in 1 .. Len(Extractors) + 1
    /\ todo \subseteq Paths
    /\ cur \in Paths
    /\ rc \in {"none", "running", "ok", "fail", "crashed"}
    /\ snap \in SlotStates

Complete(s) == disk[s] = Full(img)

Installable ==
    {i \in Images : /\ Damage[i] = {}
                    /\ \E k \in 1 .. Len(Extractors) : Accepts(Header[i], k)}

\* What holds at each point of a call when remove and fclose do their work:
\* the invariant the properties below follow from.
Untouched == {"clear_tmp", "dispatch", "write", "file", "clean_tmp"}

Phases ==
    /\ (rc = "running") <=> (pc # "idle")
    /\ pc \in Untouched => disk["out"] = snap
    /\ pc \in {"clear_tmp", "clean_tmp"} => todo = Entries("tmp")
    /\ pc = "dispatch" =>
         \/ disk["tmp"] = Absent
         \/ \A k \in 1 .. Len(Extractors) : k >= ext => ~Accepts(Header[img], k)
    /\ pc \in {"write", "file"} =>
         /\ ext \in 1 .. Len(Extractors) /\ Accepts(Header[img], ext)
         /\ todo \subseteq Content[img]
         /\ disk["tmp"].kind = "dir"
         /\ \A p \in Paths : disk["tmp"].files[p] =
              IF p \in Content[img] \ todo THEN img
              ELSE IF pc = "file" /\ p = cur THEN Partial ELSE None
    /\ pc = "file" => cur \in todo
    /\ pc \in {"clear_out", "rename"} =>
         Complete("tmp") /\ img \in Installable
    /\ pc = "clear_out" => todo = Entries("out")
    /\ pc = "rename" => disk["out"] = Absent
    /\ rc = "ok" => Complete("out") /\ disk["tmp"] = Absent
    /\ disk["out"] = snap \/ (Damage[img] = {} /\ (Complete("tmp") \/ Complete("out")))

\* A call that returned 0 left the complete tree of its image in output_dir,
\* nothing else in it, and no tmp_dir: whatever earlier calls and crashes had
\* left in either place.  (crimp_fs_extract: the first remove_tree, the
\* dispatch, the second remove_tree and the rename.)
SuccessIsComplete == rc = "ok" => Complete("out") /\ disk["tmp"] = Absent

\* At any point of a call, and after a crash at any point, the tree that was
\* there or the complete new one is on disk, in one of the two directories.
\* (crimp_fs_extract: output_dir is removed only after the dispatch.)
NeverLosesBoth == disk["out"] = snap \/ Complete("tmp") \/ Complete("out")

\* output_dir changes only while tmp_dir holds the complete tree of an image
\* that can be decoded.  ("safe now: tmp_dir holds a verified-complete
\* replacement", crimp_fs_extract.)
OutReplacedOnlyWhenReady ==
    [][disk'["out"] # disk["out"] => Complete("tmp") /\ Damage[img] = {}]_vars

\* An extractor that starts writing finds no tmp_dir: it never adds to what a
\* crashed run or the extractor tried before it has left.  (extract_dispatch
\* tries the three on the same directory and cleans up after none of them.)
NoSecondWriter ==
    [][pc = "dispatch" /\ pc' = "write" => disk["tmp"] = Absent]_vars

\* A call that ran and returned -1 leaves no partial tmp_dir: none at all, or
\* (when the rename is what failed) the complete tree.
FailureLeavesNoPartialTmp ==
    [][pc # "idle" /\ pc' = "idle" /\ rc' = "fail" =>
         disk'["tmp"] = Absent \/ disk'["tmp"] = Full(img)]_vars

\* Whatever fails, an image with a file that cannot be decoded never costs
\* the user the extraction that was there.  ("a failed extraction could
\* taint a prior good extraction", crimp_fs_extract.)
DamagedImageHarmless ==
    rc # "none" /\ Damage[img] # {} => disk["out"] = snap

\* Whatever fails, after a success no path of the image shows a file of
\* another image or of the user: at worst the file is cut short.
SuccessServesNoStaleFile ==
    rc = "ok" => \A p \in Content[img] :
                    disk["out"].files[p] \in {img, Partial}

\* output_dir "is always either untouched (this call failed and never mutated
\* it) or a complete, consistent tree (this call succeeded and fully replaced
\* whatever was there before)": the comment above crimp_fs_extract.
AllOrNothing ==
    pc = "idle" => IF rc = "ok" THEN Complete("out") ELSE disk["out"] = snap

\* Every call returns.
CallReturns == (pc # "idle") ~> (pc = "idle")

\* crimp_fs_extract implements AtomicReplace: what a user of output_dir is
\* promised to see while the replacement is under way is the old tree.
Promise == INSTANCE AtomicReplace WITH
    Requests <- Images,
    States   <- SlotStates,
    Result   <- [i \in Images |-> Full(i)],
    shown    <- IF pc \in {"clear_out", "rename"} THEN snap ELSE disk["out"],
    request  <- img,
    status   <- rc

\* Each call is one atomic replacement, or none at all.
ImplementsAtomicReplace == Promise!Spec
=============================================================================

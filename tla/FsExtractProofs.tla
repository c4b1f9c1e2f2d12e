-------------------------- MODULE FsExtractProofs ---------------------------
(***************************************************************************)
(* Theorems about FsFormat and FsExtract, for every set of paths and       *)
(* images.                                                                 *)
(***************************************************************************)
EXTENDS FsExtract, TLAPS

-----------------------------------------------------------------------------
(* The recognisers.                                                        *)

\* Two bytes are known from the 16-bit value they make: the first two bytes
\* of a cramfs and of a jffs2 magic, in either byte order.
LEMMA MagicBytes ==
    \A a, b \in 0 .. 255 :
        /\ a * 256 + b = 10445 => a = 40 /\ b = 205
        /\ a * 256 + b = 15685 => a = 61 /\ b = 69
        /\ a * 256 + b = 6533 => a = 25 /\ b = 133
OBVIOUS

\* A file is accepted by one extractor at most, whatever its bytes: when one
\* has failed, those extract_dispatch tries after it refuse the header.
THEOREM FormatsDisjoint ==
    ASSUME NEW f \in ImageFile,
           NEW k \in 1 .. Len(Extractors), NEW j \in 1 .. Len(Extractors),
           Accepts(f, k), Accepts(f, j)
    PROVE  j = k
<1> USE DEF Extractors
<1>1. f.magic \in [1 .. 4 -> 0 .. 255]
  BY DEF ImageFile, Byte
<1>2. /\ f.magic[1] \in 0 .. 255 /\ f.magic[2] \in 0 .. 255
      /\ f.magic[3] \in 0 .. 255 /\ f.magic[4] \in 0 .. 255
  <2>1. \A i \in 1 .. 4 : f.magic[i] \in 0 .. 255
    BY <1>1
  <2>2. 1 \in 1 .. 4 /\ 2 \in 1 .. 4 /\ 3 \in 1 .. 4 /\ 4 \in 1 .. 4
    OBVIOUS
  <2> QED BY ONLY <2>1, <2>2
<1>a. PICK a \in 0 .. 255 : a = f.magic[1]
  BY <1>2
<1>b. PICK b \in 0 .. 255 : b = f.magic[2]
  BY <1>2
<1>3. squashfs_super(f) => f.magic[1] = 104 /\ f.magic[2] = 115
  BY DEF squashfs_super, SQUASHFS_MAGIC
<1>4. cramfs_super(f) => \/ f.magic[1] = 69 /\ f.magic[2] = 61
                         \/ f.magic[1] = 40 /\ f.magic[2] = 205
  <2> SUFFICES ASSUME cramfs_super(f)
               PROVE  \/ f.magic[1] = 69 /\ f.magic[2] = 61
                      \/ f.magic[1] = 40 /\ f.magic[2] = 205
    OBVIOUS
  <2>1. PICK be \in BOOLEAN : decode_u32(f.magic, be) = CRAMFS_MAGIC
    BY DEF cramfs_super
  <2>2. CASE be
    <3>1. a * 256 + b = 10445
      BY <2>1, <2>2, <1>a, <1>b DEF decode_u32, CRAMFS_MAGIC
    <3> QED BY <3>1, <1>a, <1>b, MagicBytes
  <2>3. CASE ~be
    <3>1. b * 256 + a = 15685
      BY <2>1, <2>3, <1>a, <1>b DEF decode_u32, CRAMFS_MAGIC
    <3> QED BY <3>1, <1>a, <1>b, MagicBytes
  <2> QED BY <2>2, <2>3
<1>5. jffs2_scannable(f) => \/ f.magic[1] = 133 /\ f.magic[2] = 25
                            \/ f.magic[1] = 25 /\ f.magic[2] = 133
  <2> SUFFICES ASSUME jffs2_scannable(f)
               PROVE  \/ f.magic[1] = 133 /\ f.magic[2] = 25
                      \/ f.magic[1] = 25 /\ f.magic[2] = 133
    OBVIOUS
  <2>1. PICK be \in BOOLEAN : decode_u16(f.magic, be) = JFFS2_MAGIC
    BY DEF jffs2_scannable, jffs2_detect
  <2>2. CASE be
    <3>1. a * 256 + b = 6533
      BY <2>1, <2>2, <1>a, <1>b DEF decode_u16, JFFS2_MAGIC
    <3> QED BY <3>1, <1>a, <1>b, MagicBytes
  <2>3. CASE ~be
    <3>1. b * 256 + a = 6533
      BY <2>1, <2>3, <1>a, <1>b DEF decode_u16, JFFS2_MAGIC
    <3> QED BY <3>1, <1>a, <1>b, MagicBytes
  <2> QED BY <2>2, <2>3
<1>6. /\ Accepts(f, 1) <=> squashfs_super(f)
      /\ Accepts(f, 2) <=> cramfs_super(f)
      /\ Accepts(f, 3) <=> jffs2_scannable(f)
  BY DEF Accepts
<1>7. k \in 1 .. 3 /\ j \in 1 .. 3
  OBVIOUS
<1> QED BY <1>3, <1>4, <1>5, <1>6, <1>7

\* The extractor that accepts a file is the one crimp_fs_identify names: what
\* the CLI prints before the extraction is the format that gets extracted.
THEOREM IdentifyNamesTheExtractor ==
    ASSUME NEW f \in ImageFile, NEW k \in 1 .. Len(Extractors), Accepts(f, k)
    PROVE  crimp_fs_identify(f) = Extractors[k]
<1> USE DEF Extractors
<1>1. /\ Accepts(f, 1) <=> squashfs_super(f)
      /\ Accepts(f, 2) <=> cramfs_super(f)
      /\ Accepts(f, 3) <=> jffs2_scannable(f)
  BY DEF Accepts
<1>2. \A j \in 1 .. 3 : Accepts(f, j) => j = k
  BY FormatsDisjoint
<1>3. k = 1 \/ k = 2 \/ k = 3
  OBVIOUS
<1>4. CASE k = 1
  BY <1>1, <1>4 DEF crimp_fs_identify
<1>5. CASE k = 2
  BY <1>1, <1>2, <1>5 DEF crimp_fs_identify
<1>6. CASE k = 3
  BY <1>1, <1>2, <1>6 DEF crimp_fs_identify, jffs2_scannable
<1> QED BY <1>3, <1>4, <1>5, <1>6

-----------------------------------------------------------------------------
(* Type correctness, whatever the faults.                                  *)

\* Only a directory holds files, and files are written to a directory.
TypeInv ==
    /\ TypeOK
    /\ pc \in {"write", "file"} =>
         disk["tmp"].kind = "dir" /\ ext \in 1 .. Len(Extractors)

\* An absent and a complete directory are slots, and only directories hold files.
LEMMA SlotFacts ==
    /\ Absent \in SlotStates
    /\ \A i \in Images : Full(i) \in SlotStates
    /\ \A s \in SlotStates : /\ s \in [kind : {"absent", "dir", "file"},
                                        files : [Paths -> Data]]
                             /\ s.kind # "dir" => s.files = NoFiles
  BY DEF SlotStates, Absent, Full, NoFiles, Data

\* Writing a file in a directory, and removing one anywhere.
LEMMA SlotUpdate ==
    ASSUME NEW s \in SlotStates, NEW p \in Paths, NEW d \in Data,
           s.kind = "dir" \/ d = None
    PROVE  /\ [s EXCEPT !.files[p] = d] \in SlotStates
           /\ [s EXCEPT !.files[p] = d].kind = s.kind
           /\ [s EXCEPT !.files[p] = d].files = [s.files EXCEPT ![p] = d]
<1> DEFINE t == [s EXCEPT !.files[p] = d]
<1>1. s \in [kind : {"absent", "dir", "file"}, files : [Paths -> Data]]
  BY SlotFacts
<1>2. /\ t.kind = s.kind
      /\ t.files = [s.files EXCEPT ![p] = d]
      /\ t \in [kind : {"absent", "dir", "file"}, files : [Paths -> Data]]
  BY <1>1
<1>3. t.kind # "dir" => t.files = NoFiles
  <2> SUFFICES ASSUME t.kind # "dir" PROVE t.files = NoFiles
    OBVIOUS
  <2>1. d = None /\ s.files = NoFiles
    BY <1>2, SlotFacts
  <2> QED BY <1>2, <2>1 DEF NoFiles
<1> QED BY <1>2, <1>3 DEF SlotStates

\* What crimp_fs_make_directory leaves is a directory slot.
LEMMA MakeDirectory ==
    ASSUME NEW s \in SlotStates, s.kind # "file"
    PROVE  /\ [s EXCEPT !.kind = "dir"] \in SlotStates
           /\ [s EXCEPT !.kind = "dir"].kind = "dir"
           /\ [s EXCEPT !.kind = "dir"].files = s.files
  BY SlotFacts DEF SlotStates

\* The initial state has the types.
LEMMA TypeInit == Init => TypeInv
  BY FoundAssumption, ImagesAssumption
  DEF Init, TypeInv, TypeOK, Slots, Removing, Extractors

\* Every step keeps the types.
LEMMA TypeStep == TypeInv /\ [Next]_vars => TypeInv'
<1> SUFFICES ASSUME TypeInv, [Next]_vars PROVE TypeInv'
  OBVIOUS
<1> USE DEF TypeInv, TypeOK, Slots, Removing, Extractors
<1>0. Absent \in SlotStates /\ disk["out"] \in SlotStates /\ disk["tmp"] \in SlotStates
  BY SlotFacts
<1>1. CASE UNCHANGED vars
  BY <1>1 DEF vars
<1>2. ASSUME NEW i \in Images, Call(i) \/ CallTooLong(i)
      PROVE  TypeInv'
  BY <1>2, <1>0 DEF Call, CallTooLong, Entries
<1>3. ASSUME NEW p \in Paths, RemoveEntry(p)
      PROVE  TypeInv'
  <2>1. Target \in Slots /\ pc \notin {"write", "file"}
    BY <1>3 DEF RemoveEntry, Target
  <2>2. [disk[Target] EXCEPT !.files[p] = None] \in SlotStates
    BY <2>1, SlotUpdate DEF Data
  <2>3. disk' \in [Slots -> SlotStates]
    BY <1>3, <2>1, <2>2 DEF RemoveEntry
  <2> QED BY <1>3, <2>1, <2>3 DEF RemoveEntry
<1>4. CASE RemoveTreeReturns
  <2>1. Target \in Slots /\ pc \notin {"write", "file"}
    BY <1>4 DEF RemoveTreeReturns, Target
  <2>2. disk' \in [Slots -> SlotStates]
    BY <1>4, <2>1, <1>0 DEF RemoveTreeReturns
  <2>3. pc' \in {"dispatch", "idle", "rename"}
    BY <1>4 DEF RemoveTreeReturns
  <2> QED BY <1>4, <2>2, <2>3 DEF RemoveTreeReturns
<1>5. CASE ExtractorRejects
  BY <1>5 DEF ExtractorRejects, NextExtractor
<1>6. CASE ExtractorStarts
  <2>1. CASE pc' = "write"
    <3>1. /\ disk["tmp"].kind # "file" /\ ext' = ext /\ todo' = Content[img]
          /\ disk' = [disk EXCEPT !["tmp"].kind = "dir"]
      BY <1>6, <2>1 DEF ExtractorStarts, NextExtractor
    <3>2. disk' \in [Slots -> SlotStates] /\ disk'["tmp"].kind = "dir"
      BY <3>1, <1>0, MakeDirectory
    <3>3. todo' \subseteq Paths
      BY <3>1, ImagesAssumption
    <3>4. ext \in 1 .. 3
      BY <1>6 DEF ExtractorStarts
    <3> QED BY <1>6, <2>1, <3>1, <3>2, <3>3, <3>4 DEF ExtractorStarts
  <2>2. CASE pc' = "dispatch"
    BY <1>6, <2>2 DEF ExtractorStarts, NextExtractor
  <2> QED BY <1>6, <2>1, <2>2 DEF ExtractorStarts, NextExtractor
<1>7. CASE DispatchFails
  BY <1>7, <1>0 DEF DispatchFails, Entries
<1>8. ASSUME NEW p \in Paths, OpenFile(p)
      PROVE  TypeInv'
  <2>1. [disk["tmp"] EXCEPT !.files[p] = Partial] \in SlotStates
        /\ [disk["tmp"] EXCEPT !.files[p] = Partial].kind = "dir"
    BY <1>8, <1>0, SlotUpdate DEF OpenFile, Data
  <2>2. disk' \in [Slots -> SlotStates] /\ disk'["tmp"].kind = "dir"
    BY <1>8, <2>1 DEF OpenFile
  <2> QED BY <1>8, <2>2 DEF OpenFile
<1>9. CASE ExtractorFails
  BY <1>9 DEF ExtractorFails, NextExtractor
<1>10. CASE CloseFile
  <2>1. [disk["tmp"] EXCEPT !.files[cur] = img] \in SlotStates
        /\ [disk["tmp"] EXCEPT !.files[cur] = img].kind = "dir"
    BY <1>10, <1>0, SlotUpdate DEF CloseFile, Data
  <2>2. disk' \in [Slots -> SlotStates] /\ disk'["tmp"].kind = "dir"
    BY <1>10, <2>1 DEF CloseFile
  <2> QED BY <1>10, <2>2 DEF CloseFile
<1>11. CASE FileFails
  <2>1. [disk["tmp"] EXCEPT !.files[cur] = None] \in SlotStates
    BY <1>11, <1>0, SlotUpdate DEF FileFails, Data
  <2>2. disk' \in [Slots -> SlotStates]
    BY <1>11, <2>1 DEF FileFails
  <2> QED BY <1>11, <2>2 DEF FileFails, NextExtractor
<1>12. CASE ExtractorSucceeds
  BY <1>12, <1>0 DEF ExtractorSucceeds, Entries
<1>13. CASE Rename
  BY <1>13, <1>0 DEF Rename
<1>14. CASE Crash
  BY <1>14 DEF Crash
<1> QED
  BY <1>1, <1>2, <1>3, <1>4, <1>5, <1>6, <1>7, <1>8, <1>9, <1>10, <1>11,
     <1>12, <1>13, <1>14 DEF Next, Step, remove_tree, extract_dispatch

\* The variables keep their types whatever fails; in particular no step puts
\* a file where there is no directory.
THEOREM TypeCorrect == Spec => []TypeOK
<1>1. TypeInv => TypeOK
  BY DEF TypeInv
<1> QED BY <1>1, TypeInit, TypeStep, PTL DEF Spec

-----------------------------------------------------------------------------
(* The invariant of a call, when remove_tree removes and fclose flushes.   *)

SoundFaults == "remove" \notin Faults /\ "flush" \notin Faults

\* Two slots of one kind with the same files are the same.
LEMMA SlotEquality ==
    ASSUME NEW s \in SlotStates, NEW t \in SlotStates, s.kind = t.kind,
           \A p \in Paths : s.files[p] = t.files[p]
    PROVE  s = t
<1>1. /\ s \in [kind : {"absent", "dir", "file"}, files : [Paths -> Data]]
      /\ t \in [kind : {"absent", "dir", "file"}, files : [Paths -> Data]]
  BY SlotFacts
<1>2. s.files = t.files
  BY <1>1
<1> QED BY <1>1, <1>2

\* A removed entry is one entry less, the others stay.
LEMMA EntryRemoved ==
    ASSUME TypeInv, NEW p \in Paths, NEW s \in Slots,
           disk' = [disk EXCEPT ![s].files[p] = None]
    PROVE  /\ Entries(s)' = Entries(s) \ {p}
           /\ \A t \in Slots : t # s => disk'[t] = disk[t]
<1>1. disk[s] \in SlotStates /\ disk'[s] = [disk[s] EXCEPT !.files[p] = None]
  BY DEF TypeInv, TypeOK, Slots
<1>2. disk'[s].files = [disk[s].files EXCEPT ![p] = None]
      /\ disk[s].files \in [Paths -> Data]
  BY <1>1, SlotUpdate, SlotFacts DEF Data
<1>3. Entries(s)' = Entries(s) \ {p}
  BY <1>2 DEF Entries
<1>4. \A t \in Slots : t # s => disk'[t] = disk[t]
  BY DEF TypeInv, TypeOK
<1> QED BY <1>3, <1>4

\* Once the extractor that accepts the image has failed, all others refuse it.
LEMMA OthersRefuse ==
    ASSUME TypeInv, ext \in 1 .. Len(Extractors), Accepts(Header[img], ext)
    PROVE  \A k \in 1 .. Len(Extractors) : k >= ext + 1 => ~Accepts(Header[img], k)
<1>1. Header[img] \in ImageFile
  BY ImagesAssumption DEF TypeInv, TypeOK
<1> QED BY <1>1, FormatsDisjoint DEF Extractors

\* No call is under way initially.
LEMMA PhasesInit == Init => Phases
  BY DEF Init, Phases, Untouched

\* Every step keeps what each phase of a call promises.
LEMMA PhasesStep ==
    ASSUME SoundFaults, TypeInv, TypeInv', Phases, [Next]_vars
    PROVE  Phases'
<1> USE DEF Phases, Untouched, Complete, Installable
<1>0. /\ disk["out"] \in SlotStates /\ disk["tmp"] \in SlotStates
      /\ Absent \in SlotStates /\ Full(img) \in SlotStates
      /\ img \in Images
  BY SlotFacts DEF TypeInv, TypeOK, Slots
<1>1. CASE UNCHANGED vars
  BY <1>1 DEF vars, Entries
<1>2. ASSUME NEW i \in Images, Call(i) \/ CallTooLong(i)
      PROVE  Phases'
  BY <1>2 DEF Call, CallTooLong, Entries
<1>3. ASSUME NEW p \in Paths, RemoveEntry(p)
      PROVE  Phases'
  <2>1. pc' = pc /\ disk' = [disk EXCEPT ![Target].files[p] = None]
    BY <1>3 DEF RemoveEntry, SoundFaults
  <2>2. "tmp" \in Slots /\ "out" \in Slots /\ "tmp" # "out"
    BY DEF Slots
  <2>3. CASE pc \in {"clear_tmp", "clean_tmp"}
    <3>1. disk' = [disk EXCEPT !["tmp"].files[p] = None]
      BY <2>1, <2>3 DEF Target
    <3>2. Entries("tmp")' = Entries("tmp") \ {p} /\ disk'["out"] = disk["out"]
      BY <2>2, <3>1, EntryRemoved
    <3> QED BY <1>3, <2>3, <3>2 DEF RemoveEntry
  <2>4. CASE pc = "clear_out"
    <3>1. disk' = [disk EXCEPT !["out"].files[p] = None]
      BY <2>1, <2>4 DEF Target
    <3>2. Entries("out")' = Entries("out") \ {p} /\ disk'["tmp"] = disk["tmp"]
      BY <2>2, <3>1, EntryRemoved
    <3> QED BY <1>3, <2>4, <3>2 DEF RemoveEntry
  <2> QED BY <1>3, <2>3, <2>4 DEF RemoveEntry, Removing
<1>4. CASE RemoveTreeReturns
  <2>1. Entries(Target) = {}
    BY <1>4 DEF RemoveTreeReturns, Removing, Target
  <2>2. disk' = [disk EXCEPT ![Target] = Absent]
    BY <1>4, <2>1 DEF RemoveTreeReturns, SoundFaults
  <2>3. CASE pc \in {"clear_tmp", "clean_tmp"}
    <3>1. disk'["tmp"] = Absent /\ disk'["out"] = disk["out"]
      BY <2>2, <2>3 DEF Target, TypeInv, TypeOK, Slots
    <3> QED BY <1>4, <2>3, <3>1 DEF RemoveTreeReturns
  <2>4. CASE pc = "clear_out"
    <3>1. disk'["out"] = Absent /\ disk'["tmp"] = disk["tmp"]
      BY <2>2, <2>4 DEF Target, TypeInv, TypeOK, Slots
    <3> QED BY <1>4, <2>4, <3>1 DEF RemoveTreeReturns
  <2> QED BY <1>4, <2>3, <2>4 DEF RemoveTreeReturns, Removing
<1>5. CASE ExtractorRejects
  BY <1>5 DEF ExtractorRejects, NextExtractor, TypeInv, TypeOK, Extractors
<1>6. CASE ExtractorStarts
  <2>1. /\ pc = "dispatch" /\ ext \in 1 .. Len(Extractors)
        /\ Accepts(Header[img], ext)
    BY <1>6 DEF ExtractorStarts, TypeInv, TypeOK, Extractors
  <2>2. disk["tmp"] = Absent
    BY <2>1 DEF Extractors
  <2>3. CASE pc' = "write"
    <3>1. /\ ext' = ext /\ todo' = Content[img] /\ img' = img
          /\ disk' = [disk EXCEPT !["tmp"].kind = "dir"]
      BY <1>6, <2>3 DEF ExtractorStarts, NextExtractor
    <3>2. /\ disk'["tmp"] = [disk["tmp"] EXCEPT !.kind = "dir"]
          /\ disk'["out"] = disk["out"]
      BY <3>1 DEF TypeInv, TypeOK, Slots
    <3>3. /\ disk'["tmp"].kind = "dir"
          /\ disk'["tmp"].files = NoFiles
      BY <2>2, <3>2 DEF Absent
    <3> QED BY <1>6, <2>1, <2>3, <3>1, <3>2, <3>3 DEF ExtractorStarts, NoFiles
  <2>4. CASE pc' = "dispatch"
    BY <1>6, <2>2, <2>4 DEF ExtractorStarts, NextExtractor
  <2> QED BY <1>6, <2>3, <2>4 DEF ExtractorStarts, NextExtractor
<1>7. CASE DispatchFails
  BY <1>7 DEF DispatchFails, Entries
<1>8. ASSUME NEW p \in Paths, OpenFile(p)
      PROVE  Phases'
  <2>1. /\ disk'["tmp"] = [disk["tmp"] EXCEPT !.files[p] = Partial]
        /\ disk'["out"] = disk["out"]
    BY <1>8 DEF OpenFile, TypeInv, TypeOK, Slots
  <2>2. /\ disk'["tmp"].kind = "dir"
        /\ disk'["tmp"].files = [disk["tmp"].files EXCEPT ![p] = Partial]
        /\ disk["tmp"].files \in [Paths -> Data]
    BY <1>0, <1>8, <2>1, SlotUpdate, SlotFacts DEF OpenFile, Data
  <2> QED BY <1>8, <2>1, <2>2 DEF OpenFile
<1>9. CASE ExtractorFails
  BY <1>9, OthersRefuse DEF ExtractorFails, NextExtractor
<1>10. CASE CloseFile
  <2>1. /\ disk'["tmp"] = [disk["tmp"] EXCEPT !.files[cur] = img]
        /\ disk'["out"] = disk["out"]
    BY <1>10 DEF CloseFile, TypeInv, TypeOK, Slots, SoundFaults
  <2>2. /\ disk'["tmp"].kind = "dir"
        /\ disk'["tmp"].files = [disk["tmp"].files EXCEPT ![cur] = img]
        /\ disk["tmp"].files \in [Paths -> Data]
        /\ cur \in Paths
    BY <1>0, <1>10, <2>1, SlotUpdate, SlotFacts
       DEF CloseFile, Data, TypeInv, TypeOK
  <2> QED BY <1>10, <2>1, <2>2 DEF CloseFile
<1>11. CASE FileFails
  <2>1. disk'["out"] = disk["out"]
    BY <1>11 DEF FileFails, TypeInv, TypeOK, Slots
  <2> QED BY <1>11, <2>1, OthersRefuse DEF FileFails, NextExtractor
<1>12. CASE ExtractorSucceeds
  <2>1. \A p \in Paths : disk["tmp"].files[p] = Full(img).files[p]
    BY <1>12 DEF ExtractorSucceeds, Full
  <2>2. disk["tmp"] = Full(img)
    BY <1>0, <1>12, <2>1, SlotEquality DEF ExtractorSucceeds, Full
  <2> QED BY <1>0, <1>12, <2>2 DEF ExtractorSucceeds, Entries
<1>13. CASE Rename
  <2>1. Entries("out") = {}
    BY <1>13 DEF Rename, Entries, Absent, NoFiles
  <2> QED BY <1>13, <2>1 DEF Rename
<1>14. CASE Crash
  BY <1>14 DEF Crash
<1> QED
  BY <1>1, <1>2, <1>3, <1>4, <1>5, <1>6, <1>7, <1>8, <1>9, <1>10, <1>11,
     <1>12, <1>13, <1>14 DEF Next, Step, remove_tree, extract_dispatch

\* At every point of every call the two directories are what the phase of the
\* call says, whatever mixture of crashes, write and rename failures the
\* calls before it met.
THEOREM PhasesHold == SoundFaults => (Spec => []Phases)
<1>1. SoundFaults /\ TypeInv /\ TypeInv' /\ Phases /\ [Next]_vars => Phases'
  BY PhasesStep
<1>2. SUFFICES ASSUME SoundFaults PROVE Spec => []Phases
  OBVIOUS
<1>3. Spec => []TypeInv
  BY TypeInit, TypeStep, PTL DEF Spec
<1>4. TypeInv /\ TypeInv' /\ Phases /\ [Next]_vars => Phases'
  BY <1>1, <1>2
<1> QED BY <1>3, <1>4, PhasesInit, PTL DEF Spec

\* A call that returns 0 leaves exactly the tree of its image in output_dir.
THEOREM SuccessIsCompleteHolds == SoundFaults => (Spec => []SuccessIsComplete)
<1>1. Phases => SuccessIsComplete
  BY DEF Phases, SuccessIsComplete
<1> QED BY <1>1, PhasesHold, PTL

\* No crash loses both the old tree and the new one.
THEOREM NeverLosesBothHolds == SoundFaults => (Spec => []NeverLosesBoth)
<1>1. Phases => NeverLosesBoth
  BY DEF Phases, NeverLosesBoth
<1> QED BY <1>1, PhasesHold, PTL

\* The steps of extract_dispatch leave output_dir, and what is recorded of the
\* call, alone.
LEMMA DispatchKeepsOut ==
    ASSUME TypeInv, extract_dispatch
    PROVE  /\ disk'["out"] = disk["out"]
           /\ img' = img /\ rc' = rc /\ snap' = snap
           /\ pc' \notin {"idle", "rename"}
           /\ pc \in Untouched
           /\ pc' = "clear_out" => ExtractorSucceeds
<1> USE DEF TypeInv, TypeOK, Slots, Untouched
<1>1. CASE ExtractorRejects
  BY <1>1 DEF ExtractorRejects, NextExtractor
<1>2. CASE ExtractorStarts
  BY <1>2 DEF ExtractorStarts, NextExtractor
<1>3. CASE DispatchFails
  BY <1>3 DEF DispatchFails
<1>4. CASE \E p \in Paths : OpenFile(p)
  BY <1>4 DEF OpenFile
<1>5. CASE ExtractorFails
  BY <1>5 DEF ExtractorFails, NextExtractor
<1>6. CASE CloseFile
  BY <1>6 DEF CloseFile
<1>7. CASE FileFails
  BY <1>7 DEF FileFails, NextExtractor
<1>8. CASE ExtractorSucceeds
  BY <1>8 DEF ExtractorSucceeds
<1> QED
  BY <1>1, <1>2, <1>3, <1>4, <1>5, <1>6, <1>7, <1>8 DEF extract_dispatch

\* output_dir is touched only in favour of a complete tree.
THEOREM OutReplacedOnlyWhenReadyHolds ==
    SoundFaults => (Spec => OutReplacedOnlyWhenReady)
<1>1. ASSUME TypeInv, Phases, [Next]_vars, disk'["out"] # disk["out"]
      PROVE  Complete("tmp") /\ Damage[img] = {}
  <2> USE DEF TypeInv, TypeOK, Slots
  <2>1. pc \in {"clear_out", "rename"}
    <3>1. CASE UNCHANGED vars
      BY <1>1, <3>1 DEF vars
    <3>2. CASE \E i \in Images : Call(i) \/ CallTooLong(i)
      BY <1>1, <3>2 DEF Call, CallTooLong
    <3>3. CASE \E p \in Paths : RemoveEntry(p)
      BY <1>1, <3>3 DEF RemoveEntry, Target, Removing
    <3>4. CASE RemoveTreeReturns
      BY <1>1, <3>4 DEF RemoveTreeReturns, Target, Removing
    <3>5. CASE extract_dispatch
      BY <1>1, <3>5, DispatchKeepsOut
    <3>6. CASE Rename
      BY <3>6 DEF Rename
    <3>7. CASE Crash
      BY <1>1, <3>7 DEF Crash
    <3> QED
      BY <1>1, <3>1, <3>2, <3>3, <3>4, <3>5, <3>6, <3>7
      DEF Next, Step, remove_tree
  <2> QED BY <1>1, <2>1 DEF Phases, Installable
<1>2. TypeInv /\ Phases /\ [Next]_vars =>
        [disk'["out"] # disk["out"] => Complete("tmp") /\ Damage[img] = {}]_vars
  BY <1>1
<1>3. SoundFaults => (Spec => []Phases)
  BY PhasesHold
<1>4. Spec => []TypeInv
  BY TypeInit, TypeStep, PTL DEF Spec
<1> QED BY <1>2, <1>3, <1>4, PTL DEF Spec, OutReplacedOnlyWhenReady

\* Inductive: output_dir is touched only on behalf of an image without damage.
DamageInv ==
    /\ DamagedImageHarmless
    /\ pc # "idle" => rc # "none"
    /\ pc \in Untouched => disk["out"] = snap
    /\ pc \in {"clear_out", "rename"} => Damage[img] = {}

\* Whatever fails or is killed, an image that cannot be decoded leaves
\* output_dir as the call found it.
THEOREM DamagedImageHarmlessHolds == Spec => []DamagedImageHarmless
<1>1. Init => DamageInv
  BY DEF Init, DamageInv, DamagedImageHarmless, Untouched
<1>2. ASSUME TypeInv, DamageInv, [Next]_vars
      PROVE  DamageInv'
  <2> USE DEF DamageInv, DamagedImageHarmless
  <2>1. CASE UNCHANGED vars
    BY <1>2, <2>1 DEF vars
  <2>2. CASE \E i \in Images : Call(i) \/ CallTooLong(i)
    BY <1>2, <2>2 DEF Call, CallTooLong, Untouched
  <2>3. ASSUME \/ \E p \in Paths : RemoveEntry(p)
               \/ RemoveTreeReturns
        PROVE  DamageInv'
    <3>1. Target = "tmp" => disk'["out"] = disk["out"]
      BY <1>2, <2>3 DEF RemoveEntry, RemoveTreeReturns, TypeInv, TypeOK, Slots
    <3>2. /\ pc \in Removing /\ img' = img /\ snap' = snap
          /\ pc' # pc => pc' = CASE pc = "clear_tmp" -> "dispatch"
                                 [] pc = "clean_tmp" -> "idle"
                                 [] pc = "clear_out" -> "rename"
          /\ pc' # "idle" => rc' = rc
      BY <1>2, <2>3 DEF RemoveEntry, RemoveTreeReturns, Removing
    <3> QED BY <1>2, <3>1, <3>2 DEF Target, Removing, Untouched
  <2>4. CASE extract_dispatch
    <3>1. ExtractorSucceeds => Damage[img] = {}
      BY DEF ExtractorSucceeds
    <3>2. pc' \in Removing \cup {"dispatch", "write", "file"}
      BY <1>2, <2>4, DispatchKeepsOut, TypeStep DEF TypeInv, TypeOK
    <3> QED BY <1>2, <2>4, <3>1, DispatchKeepsOut DEF Untouched
  <2>5. CASE Rename
    BY <1>2, <2>5 DEF Rename, Untouched
  <2>6. CASE Crash
    BY <1>2, <2>6 DEF Crash, Untouched
  <2> QED
    BY <1>2, <2>1, <2>2, <2>3, <2>4, <2>5, <2>6 DEF Next, Step, remove_tree
<1>3. DamageInv => DamagedImageHarmless
  BY DEF DamageInv
<1>4. Spec => []TypeInv
  BY TypeInit, TypeStep, PTL DEF Spec
<1> QED BY <1>1, <1>2, <1>3, <1>4, PTL DEF Spec

\* An extractor starts writing only into nothing.
THEOREM NoSecondWriterHolds == SoundFaults => (Spec => NoSecondWriter)
<1>1. ASSUME TypeInv, Phases, [Next]_vars, pc = "dispatch", pc' = "write"
      PROVE  disk["tmp"] = Absent
  <2>1. ExtractorStarts
    BY <1>1 DEF Next, Step, remove_tree, extract_dispatch, vars, Call, CallTooLong,
       RemoveEntry, RemoveTreeReturns, Removing, ExtractorRejects, NextExtractor, DispatchFails,
       OpenFile, ExtractorFails, CloseFile, FileFails, ExtractorSucceeds, Rename, Crash
  <2>2. ext \in 1 .. Len(Extractors) /\ Accepts(Header[img], ext)
    BY <1>1, <2>1 DEF ExtractorStarts, TypeInv, TypeOK, Extractors
  <2>3. ~ \A k \in 1 .. Len(Extractors) : k >= ext => ~Accepts(Header[img], k)
    BY <2>2 DEF Extractors
  <2> QED BY <1>1, <2>3 DEF Phases
<1>2. TypeInv /\ Phases /\ [Next]_vars =>
        [pc = "dispatch" /\ pc' = "write" => disk["tmp"] = Absent]_vars
  BY <1>1
<1>3. Spec => []TypeInv
  BY TypeInit, TypeStep, PTL DEF Spec
<1> QED BY <1>2, <1>3, PhasesHold, PTL DEF Spec, NoSecondWriter

\* A call that fails leaves no tmp_dir, or the complete tree it could not rename.
THEOREM FailureLeavesNoPartialTmpHolds ==
    SoundFaults => (Spec => FailureLeavesNoPartialTmp)
<1>1. ASSUME SoundFaults, TypeInv, Phases, [Next]_vars,
             pc # "idle", pc' = "idle", rc' = "fail"
      PROVE  disk'["tmp"] = Absent \/ disk'["tmp"] = Full(img)
  <2>1. RemoveTreeReturns \/ Rename
    BY <1>1 DEF Next, Step, remove_tree, extract_dispatch, vars, Call, CallTooLong,
       RemoveEntry, ExtractorRejects, ExtractorStarts, NextExtractor, DispatchFails,
       OpenFile, ExtractorFails, CloseFile, FileFails, ExtractorSucceeds, Crash
  <2>2. CASE RemoveTreeReturns
    <3>1. pc = "clean_tmp" /\ Target = "tmp" /\ todo = {}
      BY <1>1, <2>2 DEF RemoveTreeReturns, Removing, Target
    <3>2. Entries("tmp") = {}
      BY <1>1, <3>1 DEF Phases
    <3>3. disk' = [disk EXCEPT !["tmp"] = Absent]
      BY <1>1, <2>2, <3>1, <3>2 DEF RemoveTreeReturns, SoundFaults
    <3> QED BY <1>1, <3>3 DEF TypeInv, TypeOK, Slots
  <2>3. CASE Rename
    BY <1>1, <2>3 DEF Rename, Phases, Complete
  <2> QED BY <2>1, <2>2, <2>3
<1>2. SUFFICES ASSUME SoundFaults PROVE Spec => FailureLeavesNoPartialTmp
  OBVIOUS
<1>3. TypeInv /\ Phases /\ [Next]_vars =>
        [pc # "idle" /\ pc' = "idle" /\ rc' = "fail" =>
            disk'["tmp"] = Absent \/ disk'["tmp"] = Full(img)]_vars
  BY <1>1, <1>2
<1>4. Spec => []TypeInv
  BY TypeInit, TypeStep, PTL DEF Spec
<1>5. Spec => []Phases
  BY <1>2, PhasesHold
<1> QED BY <1>3, <1>4, <1>5, PTL DEF Spec, FailureLeavesNoPartialTmp

\* Inductive, whatever fails: a path of the image shows what the extractor put
\* there as soon as it has come to it.
Fresh(s, P) == \A p \in P : disk[s].files[p] \in {img, Partial}

FreshInv ==
    /\ rc = "ok" => pc = "idle" /\ Fresh("out", Content[img])
    /\ pc \in {"write", "file"} => Fresh("tmp", Content[img] \ todo)
    /\ pc = "file" => disk["tmp"].files[cur] \in {img, Partial}
    /\ pc \in {"clear_out", "rename"} => Fresh("tmp", Content[img])

\* A file that is written to changes nothing but itself.
LEMMA FileWritten ==
    ASSUME TypeInv, NEW p \in Paths, NEW d,
           disk' = [disk EXCEPT !["tmp"].files[p] = d]
    PROVE  /\ disk'["tmp"].files[p] = d
           /\ \A q \in Paths : q # p => disk'["tmp"].files[q] = disk["tmp"].files[q]
<1>1. disk["tmp"] \in SlotStates /\ disk'["tmp"] = [disk["tmp"] EXCEPT !.files[p] = d]
  BY DEF TypeInv, TypeOK, Slots
<1>2. /\ disk'["tmp"].files = [disk["tmp"].files EXCEPT ![p] = d]
      /\ disk["tmp"].files \in [Paths -> Data]
  BY <1>1, SlotFacts
<1> QED BY <1>2

\* Whatever fails or is killed, a call that succeeds shows no file of another
\* image, nor of the user, at a path of its own.
THEOREM SuccessServesNoStaleFileHolds == Spec => []SuccessServesNoStaleFile
<1>1. Init => FreshInv
  BY DEF Init, FreshInv
<1>2. ASSUME TypeInv, TypeInv', FreshInv, [Next]_vars
      PROVE  FreshInv'
  <2> USE DEF FreshInv, Fresh
  <2>0. img \in Images /\ Content[img] \subseteq Paths /\ cur \in Paths
    BY <1>2, ImagesAssumption DEF TypeInv, TypeOK
  <2>1. CASE UNCHANGED vars
    BY <1>2, <2>1 DEF vars
  <2>2. CASE \E i \in Images : Call(i) \/ CallTooLong(i)
    BY <1>2, <2>2 DEF Call, CallTooLong
  <2>3. CASE \E p \in Paths : RemoveEntry(p)
    <3>1. PICK p \in Paths : RemoveEntry(p)
      BY <2>3
    <3>2. pc \in Removing /\ UNCHANGED <<pc, img, rc, cur>>
      BY <3>1 DEF RemoveEntry
    <3>3. pc = "clear_out" => disk'["tmp"] = disk["tmp"]
      BY <1>2, <3>1 DEF RemoveEntry, Target, TypeInv, TypeOK, Slots
    <3> QED BY <1>2, <3>2, <3>3 DEF Removing
  <2>4. CASE RemoveTreeReturns
    <3>1. /\ pc \in Removing /\ UNCHANGED <<img, cur>>
          /\ pc' = CASE pc = "clear_tmp" -> "dispatch" [] pc = "clean_tmp" -> "idle"
                      [] pc = "clear_out" -> "rename"
          /\ rc' = IF pc = "clean_tmp" THEN "fail" ELSE rc
      BY <2>4 DEF RemoveTreeReturns
    <3>2. pc = "clear_out" => disk'["tmp"] = disk["tmp"]
      BY <1>2, <2>4 DEF RemoveTreeReturns, Target, TypeInv, TypeOK, Slots
    <3> QED BY <1>2, <3>1, <3>2 DEF Removing
  <2>5. CASE ExtractorRejects \/ ExtractorFails \/ DispatchFails
    BY <1>2, <2>5 DEF ExtractorRejects, ExtractorFails, DispatchFails, NextExtractor
  <2>6. CASE ExtractorStarts
    BY <1>2, <2>6 DEF ExtractorStarts, NextExtractor
  <2>7. CASE \E p \in Paths : OpenFile(p)
    <3>1. PICK p \in Paths : OpenFile(p)
      BY <2>7
    <3>2. /\ disk'["tmp"].files[p] = Partial
          /\ \A q \in Paths : q # p => disk'["tmp"].files[q] = disk["tmp"].files[q]
      BY <1>2, <3>1, FileWritten DEF OpenFile
    <3> QED BY <1>2, <2>0, <3>1, <3>2 DEF OpenFile
  <2>8. CASE CloseFile
    <3>1. disk'["tmp"].files[cur] \in {img, Partial}
      BY <1>2, <2>0, <2>8, FileWritten DEF CloseFile
    <3>2. \A q \in Paths : q # cur => disk'["tmp"].files[q] = disk["tmp"].files[q]
      BY <1>2, <2>0, <2>8, FileWritten DEF CloseFile
    <3> QED BY <1>2, <2>0, <2>8, <3>1, <3>2 DEF CloseFile
  <2>9. CASE FileFails
    BY <1>2, <2>9 DEF FileFails, NextExtractor
  <2>10. CASE ExtractorSucceeds
    BY <1>2, <2>10 DEF ExtractorSucceeds
  <2>11. CASE Rename
    <3>1. /\ pc = "rename" /\ pc' = "idle" /\ img' = img
          /\ rc' = "ok" => disk'["out"] = disk["tmp"]
      BY <2>11 DEF Rename
    <3> QED BY <1>2, <3>1
  <2>12. CASE Crash
    BY <1>2, <2>12 DEF Crash
  <2> QED
    BY <1>2, <2>1, <2>2, <2>3, <2>4, <2>5, <2>6, <2>7, <2>8, <2>9, <2>10, <2>11, <2>12
    DEF Next, Step, remove_tree, extract_dispatch
<1>3. FreshInv => SuccessServesNoStaleFile
  BY DEF FreshInv, Fresh, SuccessServesNoStaleFile
<1>4. Spec => []TypeInv
  BY TypeInit, TypeStep, PTL DEF Spec
<1> QED BY <1>1, <1>2, <1>3, <1>4, PTL DEF Spec

-----------------------------------------------------------------------------
(* crimp_fs_extract implements AtomicReplace when the process is not       *)
(* killed and the rename does not fail.                                    *)

WriteFaultsOnly == Faults \subseteq {"write"}

\* The initial states are initial states of the promise.
LEMMA RefinementInit == Init => Promise!Init
  BY TypeInit DEF Init, Promise!Init, TypeInv, TypeOK, Slots

\* Every step is a step of the promise, or does not show.
LEMMA RefinementStep ==
    ASSUME WriteFaultsOnly, TypeInv, Phases, [Next]_vars
    PROVE  [Promise!Next]_(Promise!avars)
<1> USE DEF Promise!Next, Promise!avars
<1> DEFINE shown == IF pc \in {"clear_out", "rename"} THEN snap ELSE disk["out"]
<1>1. CASE UNCHANGED vars
  BY <1>1 DEF vars
<1>2. ASSUME NEW i \in Images, Call(i)
      PROVE  Promise!Begin(i)
  BY <1>2 DEF Call, Promise!Begin, Phases
<1>3. ASSUME NEW i \in Images, CallTooLong(i)
      PROVE  Promise!Refuse(i)
  BY <1>3 DEF CallTooLong, Promise!Refuse, Phases
<1>4. ASSUME NEW p \in Paths, RemoveEntry(p)
      PROVE  UNCHANGED <<shown, img, rc>>
  BY <1>4 DEF RemoveEntry, Removing, Target, TypeInv, TypeOK, Slots
<1>5. CASE RemoveTreeReturns
  <2>1. CASE pc = "clear_tmp"
    BY <1>5, <2>1 DEF RemoveTreeReturns, Target, TypeInv, TypeOK, Slots
  <2>2. CASE pc = "clean_tmp"
    <3>1. disk'["out"] = disk["out"] /\ rc = "running" /\ rc' = "fail"
          /\ pc' = "idle" /\ img' = img
      BY <1>5, <2>2 DEF RemoveTreeReturns, Target, TypeInv, TypeOK, Slots, Phases
    <3>2. Promise!GiveUp
      BY <2>2, <3>1 DEF Promise!GiveUp
    <3> QED BY <3>2
  <2>3. CASE pc = "clear_out"
    BY <1>5, <2>3 DEF RemoveTreeReturns
  <2> QED BY <1>5, <2>1, <2>2, <2>3 DEF RemoveTreeReturns, Removing
<1>6. CASE extract_dispatch
  <2>1. /\ disk'["out"] = disk["out"] /\ img' = img /\ rc' = rc /\ snap' = snap
        /\ pc' # "rename" /\ pc \notin {"clear_out", "rename"}
    BY <1>6, DispatchKeepsOut DEF Untouched
  <2>2. disk["out"] = snap
    BY <1>6, DispatchKeepsOut DEF Phases
  <2>3. UNCHANGED <<shown, img, rc>>
    BY <2>1, <2>2
  <2> QED BY <2>3
<1>7. CASE Rename
  <2>1. /\ pc = "rename" /\ disk["out"] = Absent /\ rc = "running"
        /\ disk["tmp"] = Full(img) /\ img \in Installable
    BY <1>7 DEF Rename, Phases, Complete
  <2>2. Renamable /\ "rename" \notin Faults
    BY <2>1 DEF Renamable, Entries, Absent, NoFiles, WriteFaultsOnly
  <2>3. /\ disk'["out"] = Full(img) /\ rc' = "ok" /\ pc' = "idle" /\ img' = img
    BY <1>7, <2>1, <2>2 DEF Rename
  <2>4. Promise!Install
    BY <2>1, <2>3 DEF Promise!Install, TypeInv, TypeOK
  <2> QED BY <2>4
<1>8. CASE Crash
  BY <1>8 DEF Crash, WriteFaultsOnly
<1> QED
  BY <1>1, <1>2, <1>3, <1>4, <1>5, <1>6, <1>7, <1>8
  DEF Next, Step, remove_tree

\* Seen through output_dir, every call is one atomic replacement by the
\* complete tree of its image, or nothing at all.
THEOREM Refinement == WriteFaultsOnly => (Spec => ImplementsAtomicReplace)
<1>1. SUFFICES ASSUME WriteFaultsOnly PROVE Spec => Promise!Spec
  BY DEF ImplementsAtomicReplace
<1>2. SoundFaults
  BY <1>1 DEF WriteFaultsOnly, SoundFaults
<1>3. Spec => []TypeInv
  BY TypeInit, TypeStep, PTL DEF Spec
<1>4. Spec => []Phases
  BY <1>2, PhasesHold
<1>5. TypeInv /\ Phases /\ [Next]_vars => [Promise!Next]_(Promise!avars)
  BY <1>1, RefinementStep
<1> QED BY <1>3, <1>4, <1>5, RefinementInit, PTL DEF Spec, Promise!Spec

\* Without a crash and with a working rename the comment above
\* crimp_fs_extract is right: untouched, or complete.
THEOREM AllOrNothingHolds == WriteFaultsOnly => (Spec => []AllOrNothing)
<1>1. SUFFICES ASSUME WriteFaultsOnly PROVE Spec => []AllOrNothing
  OBVIOUS
<1>2. SoundFaults
  BY <1>1 DEF WriteFaultsOnly, SoundFaults
<1>3. Spec => []TypeInv
  BY TypeInit, TypeStep, PTL DEF Spec
<1>4. Spec => []Phases
  BY <1>2, PhasesHold
<1>5. Init => AllOrNothing
  BY DEF Init, AllOrNothing
<1>6. ASSUME TypeInv, Phases, Phases', AllOrNothing, [Next]_vars
      PROVE  AllOrNothing'
  <2> USE DEF AllOrNothing
  <2>1. CASE UNCHANGED vars
    BY <1>6, <2>1 DEF vars, Complete
  <2>2. CASE \E i \in Images : Call(i) \/ CallTooLong(i)
    BY <1>6, <2>2 DEF Call, CallTooLong
  <2>3. CASE \E p \in Paths : RemoveEntry(p)
    BY <1>6, <2>3 DEF RemoveEntry, Removing
  <2>4. CASE RemoveTreeReturns
    <3>1. CASE pc = "clean_tmp"
      BY <1>6, <2>4, <3>1
         DEF RemoveTreeReturns, Target, Phases, Untouched, TypeInv, TypeOK, Slots
    <3> QED BY <1>6, <2>4, <3>1 DEF RemoveTreeReturns, Removing
  <2>5. CASE extract_dispatch
    BY <1>6, <2>5, DispatchKeepsOut
  <2>6. CASE Rename
    <3>1. Renamable /\ "rename" \notin Faults
      BY <1>1, <1>6, <2>6
         DEF Rename, Renamable, Phases, Entries, Absent, NoFiles, WriteFaultsOnly
    <3>2. rc' = "ok"
      BY <2>6, <3>1 DEF Rename
    <3> QED BY <1>6, <3>2 DEF Phases
  <2>7. CASE Crash
    BY <1>1, <2>7 DEF Crash, WriteFaultsOnly
  <2> QED
    BY <1>6, <2>1, <2>2, <2>3, <2>4, <2>5, <2>6, <2>7
    DEF Next, Step, remove_tree
<1> QED BY <1>3, <1>4, <1>5, <1>6, PTL DEF Spec
=============================================================================

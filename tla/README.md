# A TLA+ verification of crimp

crimp scans firmware images: it recognises a filesystem image (squashfs,
cramfs, jffs2), extracts it beside the image, scans the extracted files for
weak credentials, crypto and exposed services, identifies software components
and matches them against CVE version ranges. All of it is one single-threaded
C process; the version ranges come from a data set that a Python script
fetches from a server. What is hard in it is not concurrency of threads. It is
a directory on disk that must survive failures and repeated runs; parsers that
follow offsets, counts and versions found in images nobody vouches for; a scan
that must be complete although it is made of several walks over a tree with
links, unreadable entries and path buffers that are too short; and a data set
written in place from a server that changes while it is read.

## Inventory

| Component | State it keeps | Operations | What makes it correct |
|---|---|---|---|
| `extract/identify.c` | `output_dir`, `output_dir.tmp` on disk | `crimp_fs_identify`, `crimp_fs_extract`, `remove_tree`, `extract_dispatch` | a call replaces the old tree by the complete new one, or changes nothing; leftovers of a crash never leak into a result |
| `extract/fs_util.c` | the entry list | decode, safe names, `make_directory`, join of paths, list | paths are never truncated, an unsafe name never reaches the disk |
| `extract/cramfs.c` | recursion frames, entry list, the file being written | `identify`, `list`, `extract` | every read in bounds, recursion bounded, complete files, the disk agrees with the list |
| `extract/jffs2.c` | the list of dirent and inode nodes of the log | `identify`, `list`, `extract` | the newest version of every entry wins, fragments replayed in version order, file sizes bounded |
| `extract/squashfs.c` | metadata cursors, recursion frames, entry list, fragment table | `identify`, `list`, `extract` | cursors never leave their table, counts and sizes bounded |
| `core/walk.c` | the open directories of the recursion, a path buffer | `crimp_walk_directory` | every readable regular file below a directory is visited once, and the walk ends |
| `core/scan.c`, `pattern_scan.c`, `fileutil.c`, `binstring.c` | the first chunk of one file | the walks one after the other, the search for patterns | every pattern of every detector and rule in every file is reported |
| `core/finding.c`, `inventory.c`, `registry.c` | growable arrays | add, clear, run the detectors | nothing is lost when an array grows |
| `core/yaml_rules.c`, `yaml_util.c` | rule list | load a file, load a directory, scan | a file is taken over whole or not at all |
| `core/component_identify.c` | component list | markers and version strings in binaries | each component with the version that stands beside its name |
| `core/cve_match.c` | none | compare versions, match a data set | an order of versions, ranges honoured, incomplete entries ignored |
| `core/sbom.c` | none | print JSON | well-formed output |
| `detectors/*.c` | constant tables | scan | (data of `pattern_scan.c`) |
| `cli/main.c` | the arguments, exit status | parse, extract, scan, report | what fails is reported and what can go on goes on |
| `scripts/sync_cve_dataset.py` | pages fetched so far, the data file | fetch pages, retry, choose the conditions, write | no CVE is missed while the list grows; a failed fetch leaves the file alone |

Interactions: `main.c` calls `crimp_fs_identify`, `crimp_fs_extract` (into a
directory next to the image, the same one on every run), then `walk.c` over the
result; `identify.c` calls the three extractors one after the other on one
directory; all extractors share `fs_util.c`; the scanner calls the registered
detectors, identifies components and applies the loaded YAML rules, in one walk
each; `cve_match.c` compares the components with the data set the script has
left.

## Modules

| Module | Code | Role |
|---|---|---|
| `FsFormat` | `fs_util.c` decoding, `read_superblock`/`detect_endianness`, `crimp_fs_identify` | which extractor accepts which header |
| `AtomicReplace` | the comment above `crimp_fs_extract` | abstract specification: install or refuse, one step |
| `FsExtract` | `identify.c`, and of the extractors what they do to `tmp_dir` | detailed specification, one file system call per step |
| `FsTree` | `fs_util.c`, the path buffers of the extractors | names, path lengths, the tree on disk, the entry list |
| `Cramfs` | `cramfs.c` | walk and block extraction of one cramfs image |
| `Jffs2Scan` | `scan_log`, `find_next_node`, the two node parsers of `jffs2.c` | one pass over the bytes of a log |
| `Jffs2` | the rest of `jffs2.c` | sort, newest nodes, walk, replay of fragments |
| `Squashfs` | `squashfs.c`, above the metadata cursor | walk of the directory table, files from blocks, holes and fragments |
| `MetadataStream` | what `read_inode`, `walk_directory`, `read_fragment_table` take a cursor for | abstract specification: a stream of bytes, read from the front |
| `MetadataCursor` | `cursor_init`, `cursor_load_next_block`, `cursor_read` | the metadata cursor, block by block, over the shared `FILE` |
| `CveMatch` | `cve_match.c` | order of versions, condition lists, matching, as operators; the order of versions as they are written |
| `ComponentIdentify` | `component_identify.c` | the components and versions in the bytes of one file, as operators |
| `Scan` | `main.c`, `walk.c`, `scan.c`, `pattern_scan.c`, `registry.c`, `finding.c`, `inventory.c`, `yaml_rules.c` | one run of crimp from its arguments to its report |
| `SyncDataset` | `sync_cve_dataset.py`, `crimp_cve_match_components` | the script, its server, and crimp on the file it leaves |
| `MC...`, one for each of the specifications that is run | | instances for TLC and reference definitions |
| `FsExtractProofs`, `CramfsProofs`, `Jffs2ScanProofs`, `Jffs2Proofs`, `SquashfsProofs`, `MetadataCursorProofs`, `SyncDatasetProofs`, `ScanProofs` | | theorems |

`FsExtract` extends `FsFormat`; `Cramfs`, `Jffs2` and `Squashfs` extend `FsTree`;
`SyncDataset` extends `CveMatch`, and `Scan` extends `ComponentIdentify`, which
extends `CveMatch`. The modules compose along the call graph: `Scan` sees an
image as something that is replaced by its complete tree or refused, which is
what `AtomicReplace` says and `FsExtract` implements; `FsExtract` sees an
extractor as something that starts only on a header it accepts, writes the
files of the image one after the other, and either completes or fails;
`Cramfs`, `Jffs2` and `Squashfs` say what such an extraction does inside.
`Jffs2` starts from any list of nodes that `Jffs2Scan` can collect. `Squashfs`
reads its tables as streams, which is what `MetadataStream` says and
`MetadataCursor` implements. `SyncDataset` and `Scan` meet in
`crimp_cve_match_components`. Definitions whose name begins with `MUT_` are
faulty variants of a definition, each with the bug named above it; no
specification uses them.

### State and actions

**FsExtract.** `disk["out"]` and `disk["tmp"]` are `output_dir` and `tmp_dir`;
a tree is abstracted to its regular files, a file's content to the image it
was extracted from. `pc` is the line of `crimp_fs_extract` a call has reached.
`Call` takes a call up to the loop of the first `remove_tree`, `CallTooLong`
is the refused `output_dir ++ ".tmp"`; `RemoveEntry` and `RemoveTreeReturns` are
`remove_tree`, one entry at a time in any order readdir may return them, for each
of its three uses; `ExtractorRejects`, `ExtractorStarts`, `OpenFile`,
`FileFails`, `CloseFile`, `ExtractorFails`, `ExtractorSucceeds` and
`DispatchFails` are `extract_dispatch` and what the extractor it calls does to
`tmp_dir`; `Rename` is the end of the function. `Crash` may come
between any two of these, and a further `Call` after it is the next run of the CLI on the
same directory. `snap` is a history variable: what `output_dir` held when the
call began.

**Cramfs.** The C recursion of `walk_directory` is a stack of frames;
`process_dir_entry` is split by what it finds (`RejectEntry`,
`EnterDirectory`, `RejectDirectory`, `VisitOther`, `VisitRegular`,
`RejectRegular`), `extract_regular_file` is one block per step (`WriteBlock`,
`RejectBlock`, `CloseFile`). An image is what its bytes decode to: the inode
and name, the block pointer, the zlib stream at an offset. Every failure is
`Fail`: the recursion unwinds, the list is freed and the function returns -1.
`RejectBlock` is whatever makes the extraction of a file give up (`BlockFails`);
it removes the file. `fclose` and `remove` may fail as any other call on the
disk: the result of neither is looked at, so the file that `CloseFile` keeps or
`RejectBlock` could not remove is then some beginning of what was written
(`Torn`). The model cuts such a file between two blocks; the stream may cut it
anywhere. `torn` marks it on the model's disk, so that the properties can tell
it from a file the code left short.

**Jffs2Scan.** `pos` is the cursor of `scan_log` or, inside `find_next_node`,
the start of the chunk that is read next; `found` the nodes collected.

**Jffs2.** `Start` sorts (`qsort` may leave equal elements in any order);
`SkipDeleted`, `RejectChild`, `EnterDirectory`, `RejectDirectory`,
`VisitOther`, `VisitRegular`, `RejectRegular`, `LeaveDirectory` are
`for_each_live_child` and its callbacks; `ReplayFragment`, `RejectFragment`,
`WriteFile`,
`RejectWrite` are `extract_regular_file`; the last two write, close and if
necessary remove the file, with the outcomes of a failing `fclose` or `remove` as
in `Cramfs`, to the byte. A byte of a file is
abstracted to the node it came from, which is what tells a right replay from
a wrong one. The walk takes the binary searches by what they find
(`LowerBound`); that the loops find it is the theorem `SearchIsLowerBoundHolds`.

**Squashfs.** A frame of `walk_directory` holds the cursor (`pos`), what
`remaining` says is left of the listing, the entries left of the current group
and the group's `start`. `ReadHeader`, `RejectHeader` and `LeaveDirectory` are
its loop; `process_dir_entry` is split as in `Cramfs`, and each of its steps
includes `read_inode` of the child. `extract_regular_file` is one block or hole
(`WriteBlock`) or the tail (`WriteTail`) per step; `RejectContent` is whatever
makes it give up, after which the file is removed, unless `remove` fails; that
and a failing `fclose` leave a beginning of the file, in whole pieces (`Torn`).
An inode is what
`read_inode` returns: its type, where its listing or its blocks are, and the
array of block sizes as far as it can be read. The metadata cursor is
abstracted to the stream it delivers, so that the directory table is a
function from positions to headers and entries; `MetadataCursor` is about the
blocks behind it. An inode that is no directory is accepted as the root
and lists as empty, since `read_inode` leaves its `dir_size` 0, and a header
with count 2^32 - 1 is a group without entries; both are as in the code.

**MetadataCursor.** `buf`, `pos` and `next` are the fields of a cursor, `fpos`
the position of the `FILE` all cursors of an image share; `OthersRead` is any
use of it by someone else between two calls. `cursor_init` is one step,
`cursor_read` one per turn of its loop (`LoadNext`, `LoadFails`, `Copy`) and one
for its return. A table is what its blocks decode to; `rest[o]` of an image,
the table from offset `o` on, is defined by the blocks alone (`ImageOK`).

**Scan.** `pc` is where `main` is; a pass is one call of `crimp_walk_directory`
(one for each detector, one for the components, one for the rules), and `stack`
its recursion: for every open directory what readdir has not returned yet, in
any order. `SkipEntry`, `EnterDirectory`, `VisitFile` are the three ends of an
entry after `stat`, with the path as `snprintf` leaves it (`Join`): where it
does not fit, a prefix of the name, or the directory itself. A file system node
is apart from its paths, so that a link, a cut name and a plain name may lead
to one file. `LoadFile` takes one file of the rule directory. `VisitFile`
includes what `pattern_scan.c` or `component_identify.c` does with the file:
the first match of each pattern in the first chunk up to its first NUL, or
`identify`. A list is the set of what is in it. Memory may run out in
each of the ways the code tells apart. Without memory for a stream or a buffer
the file is passed over, and a rule that cannot be added ends its file.
`Keep` is what a file adds to a list, one entry after another: the `realloc` of
the finding and component lists is not checked, so an entry may be the one at
which the process is killed (`exit = -1`) with those before it added; neither are
the `strdup`s of a finding's name and description and of a component's path, so an
entry may be kept without them (`Without`, the string is `None`). `MatchCves` adds
the findings of the data set in the same way. `Report` prints such a
string as `(null)`, or is killed by it in `write_json_string` (`Missing`).
`ParseOption`, `ParseTarget`, `Usage`, `Report` are `main`.

**ComponentIdentify.** The bytes of a file are a sequence of items with
lengths: markers, versions, mentions of Dropbear, patterns, NULs, other text.
The window of 2 MiB, the version buffer of 64 bytes and the letters that belong
to a version or do not are modelled by the lengths of items and of the pieces
of a version. Which of the separators in a version are `-` is kept (`dashes`), since
`extract_version` takes `.` and `-` alike and `looks_like_dropbear_version` only
`.`; a version may also consist of separators alone, or end in one where the
buffer cuts it.

**CveMatch.** A version is the sequence of its pieces; of a piece, the number of
its digits, their value and the rank of its letters. A run of more than
`MAX_DIGITS` digits counts for `ULLONG_MAX`.

**SyncDataset.** `Reply`, `RequestFails` and `ProductDone` are the loops of
`fetch_all` and `fetch_page` with its three attempts; `OpenFile`, `WriteLine`,
`WriteDone` are `write_yaml`, a line at a time; `Die` and `DieWriting` are an
exception or a kill between any two, the second with the last line whole or
cut. `Publish` and `Withdraw` change the list of a product while the script
pages through it; `Scan` is a run of crimp on the file that is there. The file
is read as libyaml does: as far as its lines go (`Doc`). A record's criteria
that name a version stand for the condition `==` that version; where the code
could not read that condition it has no operator (`Conditions`).

## Runs

| Run | Checks | Distinct states | What it shows |
|---|---|---|---|
| `FsExtract_crash` | `SuccessIsComplete`, `NeverLosesBoth`, `NoSecondWriter`, `FailureLeavesNoPartialTmp` | 8592 | with crashes, failing writes and failing renames at every step of repeated calls, the old or the new tree is always on disk, a success is a complete one, extractors never write over one another's leftovers |
| `FsExtract_atomic` | `ImplementsAtomicReplace`, `CallReturns` | 2193 | when only writes fail, every call is one atomic replacement or none, and every call returns |
| `FsExtract_allfaults` | `DamagedImageHarmless`, `SuccessServesNoStaleFile` | 26712 | what still holds when also `remove`, `opendir`, `rmdir` and `fclose` fail |
| `Cramfs_walk` | `WalkInBounds`, `BlocksFollowPointers`, `FilesComplete`, `DiskMirrorsList`, `PathsFit`, `ListIsPreorder`, `Terminates` | 74732 | every read stays where it belongs, files are complete or gone, every listed directory and file is on disk, the listing is the tree of the image, and every walk ends |
| `Jffs2Scan_log` | `NodesInLog`, `ScanFindsTheLog`, `Terminates` | 30768 | the scan finds exactly the nodes of the log, however gaps fall into chunks |
| `Jffs2_walk` | `SearchIsLowerBound`, `ReplayInBuffer`, `NewestFragmentWins`, `DiskMirrorsList`, `ListIsLive`, `OnlyLiveEntries`, `Terminates` | 8528 | the listing is the live tree and the disk shows it, a file is its newest fragments, nothing is written outside a buffer |
| `Squashfs_walk` | `WalkInListing`, `FileIsItsInode`, `DiskMirrorsList`, `ListIsTree`, `Terminates` | 27403 | every directory is read inside its own listing, files are what their inodes describe or gone, every listed directory and file is on disk, the listing is the tree of the image, and every walk ends |
| `MetadataCursor_stream` | `ImplementsStream`, `ReadReturns` | 132908 | whoever moves the `FILE` between two reads, a cursor delivers the bytes of its table in order, fails only when there are too few, and every read returns |
| `Sync_dataset` | `NothingLost`, `FailedSyncKeepsDataset`, `ReportFollowsServer`, `SyncEnds` | 291581 | paging misses nothing that is listed throughout, a fetch that fails changes nothing, crimp never reports more than the records say, also from half a data set, and after a complete sync no less |
| `Scan_report` | `ReportIsComplete`, `FindingsAreTrue`, `RulesWhole`, `Terminates` | 222578 | a report is that of the whole tree and its inputs, what it says of a path is true of that path, rule files are taken whole, and every run ends |
| `FsExtract_doc_flush` | `AllOrNothing` | violated | see Findings |
| `Scan_doc_version` | `KeepsLooking` | violated | see Findings |

The type invariants (`TypeOK`) are in no run: they are proved.

### Bounds

* `MCFsExtract`: two paths, five images: one of each format, one cramfs header
  that declares an impossible size, one file of no format. Three choices of
  which images are damaged (`MCDamageA`, `B`, `C`), so that the three
  extractors meet damage in a file and squashfs in its root. Two paths are enough for a
  tree that is half removed or half written, and for images whose sets of
  files are equal, contained in each other or disjoint. The number of calls is
  not bounded. The first call may find nothing, a file, an empty directory, foreign files,
  or what an earlier run left, at either path (`MCFound`).
* `MCCramfs`: three directory entries at adjacent offsets, so that a directory
  can contain itself, its parent, its neighbour, an overlapping region, or one
  out of bounds; recursion capped at 2 instead of 32, which cycles exceed;
  blocks of 4 bytes, files of at most two blocks, holes and pointers that go
  backwards or leave the image; path buffers (`PATH_CAP`, `DISK_CAP`) so small
  that both checks of the code refuse some path; images cut off at four places.
* `MCJffs2Scan`: three nodes, gaps of up to three chunks of 8 bytes (65536 in
  the code), malformed nodes at every place but the first, magic numbers
  within payloads and at offsets that are no multiple of 4, images cut within
  a node or with up to 37 bytes behind the last one.
* `MCJffs2`: up to four of ten dirents (deletions, renames, several versions,
  equal versions, a directory that contains the root), or a file of up to
  three of ten fragments (overlapping, beyond the final size, with wrapping
  offset sums, undecodable). Fields are below `U32` = 8, so that the 32-bit
  sums of the code are at their limit; file sizes are capped at 6 bytes
  (256 MiB in the code).

* `MCSquashfs`: two listings, one right behind the other so that a cursor that
  runs on finds something to read; groups of at most two entries (256 in the
  code) with counts below `U32` = 8, so that `count + 1` wraps; directories that
  lead to themselves, to the root, nowhere, or are empty; names of up to three
  bytes (256 in the code), one that is too long, one that is unsafe, one name
  twice, paths that fit the list and not the disk; listings cut within a header
  and within an entry. Blocks of 4 bytes, files of at most two blocks, with holes, short blocks, stored and compressed ones, tails
  inside and outside their fragment, fragments that do not exist; the three
  outcomes of `compression`; block sizes that are too small, too large and no
  power of two; images cut within the superblock and within the data.
* `MCMetadataCursor`: files of three blocks in a buffer of 4 bytes (8192 in the
  code), headers whose size part goes up to 7; stored and packed blocks, short,
  full and empty ones, and each kind of header that is refused; two reads of 0,
  1, 3 or 6 bytes, so that a read lies in one block, ends with it, or takes the
  whole of one and parts of its neighbours; references into the first block, at
  its end, behind it and behind the file; any position of the `FILE` between
  the reads.
* `MCSyncDataset`: two products, pages of two CVEs (2000 in the script), up to
  three CVEs listed at first and two changes, so that a page boundary moves in
  either direction under the script; three attempts as in the script; one run
  after an older data set. Records with and without severity and description,
  with exact versions (one too long for the code to read), ranges, platforms and
  bare wildcards. Numbers saturate above 2 digits (18 in the code), and versions
  of one to three digits, with letters and of different lengths, are compared;
  one range ends at a number that the code cannot tell from that of a component
  it has found, which is reported although the range does not hold it.
* `MCScan`: nine directories and two images, of up to five entries in two
  levels, with a link to the directory above, to a file and to nothing, entries
  that cannot be read, and names that fit the path buffer (16 bytes, 1024 in the
  code) wholly, in part or not at all. Two links in one path (40 on Linux) and
  five open files stop the recursion. Files of up to twelve items, with the
  window (53 bytes) and the version buffer (9 bytes) ending within a marker,
  within a version, and before one; a version of separators alone, and one with a
  `-`. Memory may fail at every place where `Scan` has it fail. Fifteen command lines, among them no
  argument, two targets, an option without its value and one given twice. Two
  built-in detectors, a rule directory of four files of which two are sound,
  and lists that grow with the first and every later power of two. `MaxDepth`
  bounds the paths the reference definition enumerates, not the walk; it is at
  least `MAX_OPEN`, behind which no walk comes.

`IOFaults` names the modes (`list`, `extract`) in which any call on the disk
and any allocation may fail. The three walk runs use `{"extract"}`: with faults
the safety properties are those of a failing walk too, without faults (the
`list` mode) a walk may fail only for a reason found in the image, which
`ListIsPreorder`, `ListIsLive` and `ListIsTree` check in both directions.

The deadlock check is on in the runs of the extractors: a finished walk stutters
explicitly (`Returned`), everything else must be able to go on. It is off in
`MetadataCursor_stream`, `Sync_dataset` and the runs of `Scan`, where a cursor
is not read again, a bound is reached, or the process has exited; that these do
not stop earlier is what `ReadReturns`, `SyncEnds` and `Terminates` say.

### Reference definitions

`ListIsPreorder`, `ListIsLive` and `ListIsTree` compare the stepwise code
with a recursive definition of what it should find, stated over the image and
not over the state of the walk: a recursive function over the places of the
image (`Place`, `Listing`), so that it can be reasoned about. A place of a log
(`Jffs2`) is a directory from a name on: what is listed there is the live dirent
with the least of those names, and its newest inode node. `ListIsLive` excludes
logs in which two nodes for one name or one inode claim the same version, as
`qsort` then decides. `ScanFindsTheLog` needs no recursion: the log of
an image is the one set of offsets that holds the first node and, of every node
in it, the next one behind its end, and the scan records its nodes in order.
`ReportIsComplete` compares a report with the set of all paths of a tree, links
followed, for the trees in which the path of every entry fits the buffer (also
of one that `stat` then refuses, as a link too many does: a cut path may lead
somewhere else instead). `ReportFollowsServer` compares a report with what the
records of the server say (`Vulnerable`), without the file between them and in an
order of versions (`TrulyOlder`) that is defined by the digits as they are
written and knows no saturation. Where the code cannot tell two versions apart
(both numbers too long, `Judgeable`) the record is given the benefit of the doubt:
nothing is reported beyond what the records say or leave in doubt, and everything
is that they say without doubt.

### Fairness

The program is one thread that waits for nobody: no lock, no other process, no
timer. `FairSpec` therefore asks weak fairness of the steps of a call (of the
walk, of the scan), and of nothing else: not of `Call`, `Crash`, or
any single failure. `CallReturns` and `Terminates` say
that no loop of the code, on whatever image, goes on for ever. A metadata
cursor need not be read, but a `cursor_read` that has begun goes on. In `Scan`
all of `Next` is one process that nothing stops, so its `FairSpec` asks weak
fairness of `Next`. In `SyncDataset` only the steps of the running script are
fair: a request is answered or times out (`timeout=30` in the script), but
nobody is obliged to start the script, to run crimp or to change the server.

## Findings

Two places where a comment in the code promises more than the code does; each
has a run that shows it.

* `FsExtract_doc_flush`: the result of `fclose` is not looked at
  (`cramfs.c:266`, `squashfs.c:745`, `jffs2.c:597`); a tail that cannot be
  written is a truncated file in a successful extraction, where
  `identify.c:113-117` promises "a complete, consistent tree".
* `Scan_doc_version`: with `allow_letter_suffix`, `extract_version`
  (`component_identify.c:67`) accepts a run of letters without any digit. Behind
  "OpenSSL default" the word is taken for the version, and the search stops
  there, where `component_identify.c:259-262` says that it goes on past
  occurrences that are not followed by a parseable version.

Other limits that are visible in the models, stated as what the properties
leave out:

* When `rename` fails, or the process dies just before it, `output_dir` is gone
  and the new tree is complete in `tmp_dir` until the next call removes it
  (`AllOrNothing` fails with `Faults` = {"rename"}; `NeverLosesBoth` is what
  holds). `remove_tree` reports no failure, so what it could not remove from an
  earlier run's `tmp_dir` ends up in the next `output_dir` (`Faults` =
  {"remove"}; `SuccessServesNoStaleFile` is what holds).
* A `remove` that fails after a failed extraction of a file leaves the truncated
  file the code means not to leave; the extraction fails all the same.
  `FilesComplete`, `FileIsItsInode` and `NewestFragmentWins` hold of every file
  but those whose own `fclose` or `remove` has failed, and say that these are a
  beginning of what they should be. `DiskMirrorsList` asks that a listed file is
  there, not that it is whole.
* A read error while `jffs2.c` looks for the next node is taken for the end of
  the log, and the scan succeeds with part of it. `NodesInLog` and the first half
  of `ScanFindsTheLog` (what is recorded is a beginning of the log) are proved
  also for reads that fail, the second half (it is all of the log) for those
  that do not.
* A path longer than the buffer of `walk.c` is cut, although `walk.h:6` speaks of
  every regular file: what is cut may name another file, which is then reported
  under that path, a file already visited, or nothing. `FindingsAreTrue` holds
  of the cut path; `ReportIsComplete` is claimed where all paths fit.
* The walk of `walk.c` is bounded by the system's limits on links and open files
  and by the path buffer, not by a depth of its own: its work is finite but
  exponential in the number of links to a directory above.
* A withdrawal from a page already fetched moves the others up, and the script
  misses one (`NothingLost` excludes it); a kill within `write_yaml` leaves a
  shorter data set that is used without a warning (`ReportFollowsServer`: never
  more than the records say, but less).
* An allocation that fails in `finding.c:18` or `inventory.c:20` ends the process
  with a write through NULL. A `strdup` that fails in `finding.c:23-24` or
  `inventory.c:40` leaves an entry without that string, which the report shows
  as `(null)`; a component without a path is read through NULL by
  `write_json_string` (`sbom.c:5`). `FindingsAreTrue` holds of what is left of such
  an entry, `ReportIsComplete` is claimed when memory never ran out.

## Proofs

All theorems hold for every value of the constants that satisfies the
`ASSUME`s of the modules; these only say what kind of value each constant is
(an image is a record of natural numbers, a chunk is a positive multiple of
4), never that an image is well-formed. Of the trees of `Scan`, `TreeOK` says
what a kernel guarantees (a node is a directory or a file, and a directory holds
a name once), and `ContentOK` that items have a length and a version the one
it is written with. Of the records of the server, `SyncAssumption` says what the
script and the file can tell apart: no CVE and no condition list is the mark of a
missing field, and a product has a name. Nothing is assumed of the data set that
is there before the first run, hence `ReportFollowsServer` speaks of files that the
script has written to.

What the models compute with recursive functions (sums over a path or a list of
blocks, the bounds of a binary search, the offsets of a log, the levels of a
tree) is reasoned about without induction over an operator, which the prover
lacks: the function exists up to some bound, because a least bound up to which
it does not would have a predecessor (`LeastIndex`, from well-foundedness of the
natural numbers); so the CHOOSE that stands behind its definition satisfies the
equation, which gives one unfolding; and two functions that satisfy the equation
differ nowhere, because there is no least argument at which they do.

* **FsFormat**: the magic numbers are different bytes (`FormatsDisjoint`), so
  a file is accepted by one extractor at most, and it is the one
  `crimp_fs_identify` names. This is what keeps the three extractors, tried on
  one directory, from writing over one another.
* **FsExtract**: `Phases` is the inductive invariant: for each value of `pc`,
  what `output_dir` and `tmp_dir` hold. `SuccessIsComplete` and
  `NeverLosesBoth` are not inductive by themselves: that the tree after the
  rename is complete rests on what was written, file by file, into a directory
  that was empty, which rests on the first `remove_tree`. `Phases` needs
  `SoundFaults`, that is no failing `remove` and no failing `fclose`; the
  findings show that it is false otherwise. `NoSecondWriter` and
  `FailureLeavesNoPartialTmp` follow from it step by step.
  `DamagedImageHarmless` is proved under all faults, from the smaller invariant
  `DamageInv`, and so is `SuccessServesNoStaleFile`, from `FreshInv`: of every path the
  extractor has come to, `tmp_dir` shows what it wrote there. The refinement of
  `AtomicReplace` is proved for `WriteFaultsOnly` from `Phases`: `output_dir` is
  taken to show `snap` while it is being replaced, and every other step maps
  to a stutter, `Begin`, `Refuse`, `Install` or `GiveUp`.
* **Cramfs**: `TypeCorrect` contains that no subtraction leaves the naturals,
  as `remaining` and `size - bytes written` would if a check of the code were
  missing. `WalkInBounds` and `StackBounded` are proved together from the
  types; `BlocksFollowPointers` needs the strengthening that `prev_end` is the end
  of the last block. `DiskMirrorsList` (here, in Jffs2 and in Squashfs) says that at every step
  of an extraction that has not failed each directory and each regular file of the
  list is on disk as what it is listed as, and nothing else is there (`Mirrors`).
  `MirrorInv` adds what makes it inductive: that the file being written
  is a regular file on disk, or in Jffs2 the last of the list;
  it also holds of images that list a name twice, because `Creatable` and
  `Openable` refuse a directory where a file is and the reverse.
  `FilesComplete` rests on `ContentInv`: a file on disk has its blocks, all of
  them full but the last, and the one being written, or one whose `fclose` or
  `remove` failed, a beginning of them (`TornLaidOut`;
  `Rounded`: the number of blocks, as the code computes it, is the size divided
  by the block size and rounded up). `PathsFit` rests on `PathInv`: the length
  that a frame carries is that of its path, which grows by a slash and a name.
* **Cramfs, `ListIsPreorderHolds`**: what a walk lists is the tree of the image,
  stated over the image alone (`Listing` over its `Regions`). `PlacesRanked` says that
  every place is followed by places of a smaller rank, because an entry takes bytes of its
  directory and a directory is one level deeper, of which there are
  `MAX_DIR_DEPTH` (this is where the cap is needed: a directory may contain itself);
  hence `Listing` is defined (`ListsExist`) and unfolds (`PreorderUnfolds`).
  `ListInv`: the list, and behind it what each frame has still to list, from
  the innermost out (`Rests`), is the tree. `ListedHere` is one entry of it: the code
  accepts it iff the tree does, and a refusal means that the tree is broken there, unless
  an allocation or the disk failed.
* **Jffs2Scan**: recorded payloads lie in their node and in the image, and
  nodes do not overlap, with the cursor behind all of them. For `ScanFindsTheLog`
  the log of an image is shown to exist and to be the only one (it is built up to
  every offset), and `LogInv` says of every state that what was found is the log
  up to the cursor, whose nodes end before it. A gap adds nothing to the log,
  because the chunks in `find_next_node` overlap by enough for no header to be missed.
* **Jffs2**: the searches and the choice of a maximum are CHOOSE expressions;
  `LeastNatural` and `GreatestNatural` show that what they choose exists.
  `Sorted` (the sorted arrays are reorderings of the log, in order) gives that
  a run of equal keys is the set of all nodes with that key, so its last
  element is the newest (`WinnerIsNewest`, `RunOfInode`). From that follow
  `OnlyLiveEntries`, and with `Replayed` (the buffer is what the fragments
  replayed so far say) and `DiskInv` also `NewestFragmentWins`.
  `SearchIsLowerBound` says that the loop of the two binary searches, for every
  sorted sequence and every key, ends at the least index whose key is not
  smaller, which is what the walk takes it for. `Bounds`, what a search of any
  interval should return, solves the equation of the loop (`Turn`), and no other
  function does.
* **Jffs2, `ListIsLiveHolds`**: the argument is that of `ListIsPreorderHolds`,
  with the names of a directory in the place of its bytes (`TopName` is above
  all of them). The walk knows a cursor and the places know a name: `StandsAt`
  says when they agree, namely that the sorted dirents from the cursor on are
  those of the directory from that name on. `StandsNext` keeps it behind a run
  of one name, `FrameStands` begins it where the search of a directory ends,
  `NextLive` says that the winner of the run is the next live dirent of the
  place, or, when it deletes the name, that no dirent of the name is live, and
  `NothingLive` that behind the last name there is none. `NewestIsMeta` is the
  same of the inode. The last two need that no two nodes claim one version.
* **Squashfs**: `TypeOK` is inductive only together with `Readable`, what
  `validate_block_size` and `read_block_sizes` have established when a file is
  begun: the block size is not zero, and there is an entry of the array for
  every block. `WalkInListing` and `StackBounded` follow from `AdvancedFrames`,
  `HeaderFrames` and `EnteredFrames`: whatever a step takes from `remaining` it adds to
  the cursor. For `FileIsItsInode` the strengthening is `BeingWritten`:
  `bytes_before` and `block_offset` are where the pieces written so far end;
  that a beginning of a file keeps its description is `TornDescribed`.
  That `bytes_before` is a multiple of the block size as long as blocks are to
  come rests on the division in `read_block_sizes` (`BlocksFit`).
* **Squashfs, `ListIsTreeHolds`**: as for Cramfs, over places of two kinds, where a
  header and where an entry is expected (`HeaderPlace`, `EntryPlace`), each with the bytes
  of the listing left. The rank counts a level as more than the longest listing
  of the image (`Longest`), which exists because the inodes are finitely many; that no
  frame has more bytes left than that is `WalkInListing`. A header lists nothing, so
  reading one must leave what remains as it is; it does also when its count wraps
  and the group behind it is empty (`ListedAtHeader`). `ListedAtEntry` is one entry. The list
  cap on a path is checked against the length the frame carries, hence
  `Measures`: that length is the path's.
* **MetadataCursor**: `Refinement` shows that a cursor over any chain of blocks
  implements `MetadataStream`, so that what is proved about `Squashfs` over a
  stream holds over blocks. The mapping is `unread`: what the running read has
  copied, what is left in the buffer, and the blocks behind. Loading and copying
  leave it as it is (a lemma on sequences each), so both are stutters;
  `ReadDone` cuts off what was asked for. `TypeCorrect` contains that `buf_pos`
  never exceeds `buf_len`, on which the unsigned subtraction of `cursor_read`
  depends.
* **SyncDataset**: `PagingLosesNothing` for any server, page size and sequence
  of changes: the strengthening is that what was listed throughout is in `out`
  or stands at or behind `start_index` in the server's list, as long as
  nothing before it has been withdrawn. `FailureKeepsDataset` says that nothing
  of the file is touched before everything is fetched.
* **SyncDataset, versions**: `VersionsAreOrdered`: `version_compare` is antisymmetric
  and transitive on all versions (through the least index at which two differ),
  so that a list of conditions accepts an interval of versions. `CompareIsTrue`
  compares it with the order of the digits as they are written (`TrulyOlder`, which
  leaves open two runs that are both too long to be converted): a version that is older there is found
  older, and where no two such runs meet (`Judgeable`) the two orders are one;
  `ConditionsAreTrue` says the same of the operators of a data set.
* **SyncDataset, `ReportFollowsServerHolds`**: from the records through the file to
  the report. `FlattenAt` says where `FlattenSeq` puts its parts, which gives what
  is put together of one CVE and of one product (`EntriesAre`, `BuiltAre`: the
  entries are those of the matches that are taken) and on which line everything
  stands (`IsLayout`, `DatasetLinesAre`). `OnlyEntries` is the reading of a file
  that may end anywhere: an entry that is complete is one that was put together,
  of the component below whose name it stands, since no name comes between
  (this is where the order of the lines matters: an entry cut short must not
  take its fields from the next). `AllEntries` is the reading of a file that is
  complete. With `MatchIsJudged` (`ConditionsAreTrue` for all conditions of a
  match) they give the two halves of the property for any such file
  (`FoundIsTrue`, `AllAreFound`). That the file is one of those is the invariant:
  `IBuilds`, each component is built from a list that holds what is owed to it
  (at the end of a product's paging this is `NothingLost`); `IFile`, while it is
  written the file's lines and those left are the data set, and whenever the
  script has touched the file it begins as some data set does; `IReport`, the
  file does not change under a report.
* **Scan**: `RulesWholeHolds` for any rule directory, order of readdir and moment at
  which memory runs out: what the sound files say is loaded or in a file still
  to load (`RulesInv`).
* **Scan, `FindingsAreTrueHolds`**: a report made at any moment, of any tree,
  through cut paths and with memory running out, is true of the file its path
  names for the kernel. The first half is about the walk. `Levels` are the
  entries reachable in so many steps; `NamesLead` says that a sequence of
  names leads to one node only, and `JoinReaches` that whatever `snprintf` left of a
  path is what the names shown lead to. `OpenDirs` is the invariant: every
  open directory is a place of the tree, under the names and with the links the
  walk has for it. `ReportedInv` then adds what is in the
  lists: whatever `Keep` and `MatchCves` leave of an entry, it is a part of one that is
  true (`KeepAdds`, `MatchAdds`, `FindingLeft`, `ComponentLeft`), and a marker
  that is looked for is a detector's or a sound rule's (`MarkersAre`, from
  `RulesInv`). The second half is about `identify` alone (`VersionsStand`): items lie
  at the sums of the lengths before them, so a version that begins where a
  marker ends is the next item; a token between two borders (`Before`, `Behind`)
  has its neighbours on both sides.
* **Scan, `ReportIsCompleteHolds`**: in a tree whose paths fit, the report is exactly that
  of the readable files. `JoinFits` says that no path is cut there. `Nested`: the
  directories on the stack are reached from each other through entries that
  were taken, so the entries not yet taken have paths of their own. `Ahead` are
  the places below those entries; `SweepInv` says that a file of the tree has been visited in
  this pass iff it is not ahead of the walk, which gives both that
  none is missed and that none comes twice. `PassInv` is the order of the
  passes and the bits of the exit status, `WholeInv` that the lists are what the
  files swept so far say, and `RulesInv` that the rules of the last pass are the sound
  ones. The proof found two mistakes in the statement: `Fits` spoke only of the
  paths that can be reached, and a set union was written in a way the prover's
  grammar reads differently from TLC's, so that it is in parentheses now.

Only model-checked: liveness (`CallReturns`, `Terminates`, `ReadReturns`,
`SyncEnds`), which is out of reach of the prover, as is ENABLED. `KeepsLooking`
and `AllOrNothing` are false (see Findings). Every other property of the runs is
also a theorem.

## Not modelled

* zlib, xz, libyaml and `qsort` are external: a stream inflates to a number of
  bytes or it does not; a file parses or not; a sort yields any ordered
  permutation.
* The layout of squashfs's inodes within their table.
* What `opendir` does without memory in one walk only: a directory that cannot be
  opened is so in every walk (`unreadable`).
* Two crimp processes on one directory at once, and crimp reading the data set
  while the script writes it: the code makes no provision for either.
* What lies in `tmp_dir` when an extractor begins is modelled in `FsExtract`
  only; `Cramfs`, `Jffs2` and `Squashfs` start from an empty directory.
* Which bytes of a name `crimp_fs_path_component_is_safe` refuses: names are
  either safe or `Unsafe`.
* The order of findings and components in the report, and the capacities of the
  lists: a list is a set.
* The wording of output, and `sbom.c`, which formats a list. The tables of the
  detectors are a constant of `Scan`; `spike/`, `tests/` and `data/` are not part
  of the program.

-------------------------------- MODULE Scan ---------------------------------
(***************************************************************************)
(* One run of crimp from its command line to its report: main.c,           *)
(* core/scan.c, core/walk.c, core/pattern_scan.c, core/yaml_rules.c, and   *)
(* the components and CVEs of ComponentIdentify and CveMatch.  The tree is *)
(* walked once for each detector, once for the components and once for the *)
(* rules of the user; readdir returns the entries of a directory in any    *)
(* order.                                                                  *)
(*                                                                         *)
(* A path is the sequence of the names below the scanned directory and the *)
(* length of the string; a string that does not fit is cut, and names      *)
(* something else or nothing.                                              *)
(***************************************************************************)
EXTENDS ComponentIdentify

CONSTANTS
    ArgLists,      \* the command lines
    Directories,   \* path -> the tree below it
    ImageFiles,    \* path -> its tree, or None if it cannot be extracted
    RuleDirs,      \* path -> the files of a directory of rules, see WellFormed
    Datasets,      \* path -> a document, see CveMatch
    Detectors,     \* the patterns of each built-in detector
    NameLen, Cut,  \* the length of a name, and what its first k characters name
    MAX_PATH,      \* the path buffer of crimp_walk_directory, 1024 in the code
    MAX_LINKS,     \* symbolic links the system follows in one path
    MAX_OPEN,      \* files one process may have open
    READ_CHUNK,    \* 65536 in the code
    FirstCapacity, \* of a list of rules, 8 in the code
    MemoryFails    \* may an allocation fail

ASSUME ScanAssumption ==
    /\ MAX_PATH \in Nat /\ MAX_LINKS \in Nat /\ MAX_OPEN \in Nat \ {0}
    /\ FirstCapacity \in Nat \ {0}
    /\ MemoryFails \in BOOLEAN
    /\ Len(Detectors) \in Nat /\ DOMAIN Detectors = 1 .. Len(Detectors)
    /\ None \notin DOMAIN RuleDirs
    /\ \A d \in DOMAIN RuleDirs : \A f \in RuleDirs[d] :
        Len(f.rules) \in Nat /\ DOMAIN f.rules = 1 .. Len(f.rules)

Options == {"--rules", "--cve-dataset"}

\* The trees there are.
Trees == {Directories[d] : d \in DOMAIN Directories} \cup
         {ImageFiles[f] : f \in {f \in DOMAIN ImageFiles : ImageFiles[f] # None}}

\* A node is a directory, a file, or neither; a directory has a name once.
TreeOK(t) ==
    /\ t.root \in DOMAIN t.entries /\ t.len \in Nat
    /\ None \notin DOMAIN t.entries \cup DOMAIN t.content
    /\ DOMAIN t.entries \cap DOMAIN t.content = {}
    /\ \A d \in DOMAIN t.entries : \A e, f \in t.entries[d] :
        /\ NameLen[e.name] \in Nat \ {0}
        /\ e.name = f.name => e = f
    /\ \A f \in DOMAIN t.content : ContentOK(t.content[f])

ASSUME TreesAssumption == None \notin Trees /\ \A t \in Trees : TreeOK(t)

VARIABLES
    args, i, target, rules_dir, cve_dataset,   \* main's arguments and locals
    pc,          \* "args", "target", "walk", "rules", "cve", "report", "done"
    tree,        \* the tree that is scanned
    pass,        \* which walk
    stack,       \* the directories the recursion has open, the innermost first
    seen,        \* the paths this walk has visited
    again,       \* has a walk visited one of them twice
    rules, to_load, \* the rules loaded, and the files still to load
    ran_out,     \* has an allocation failed
    findings, components,
    rc,          \* the bits of crimp_scan_directory
    exit         \* the exit status, -1 for a signal

cli   == <<args, i, target, rules_dir, cve_dataset>>
walk  == <<tree, pass, stack, seen, again>>
lists == <<rules, to_load, ran_out>>
vars  == <<cli, pc, walk, lists, findings, components, rc, exit>>

ComponentPass == Len(Detectors) + 1
RulePass      == Len(Detectors) + 2

Init ==
    /\ args \in ArgLists
    /\ i = 1 /\ target = None /\ rules_dir = None /\ cve_dataset = None
    /\ pc = "args"
    /\ tree = None /\ pass = 0 /\ stack = <<>> /\ seen = {} /\ again = FALSE
    /\ rules = <<>> /\ to_load = {} /\ ran_out = FALSE
    /\ findings = {} /\ components = {} /\ rc = {} /\ exit = None

-----------------------------------------------------------------------------
(* main: the command line, and what is scanned.                            *)

\* An option takes the next argument, whatever it is; the last one counts.
ParseOption ==
    /\ pc = "args" /\ i < Len(args) /\ args[i] \in Options
    /\ IF args[i] = "--rules" THEN rules_dir' = args[i + 1] /\ UNCHANGED cve_dataset
                              ELSE cve_dataset' = args[i + 1] /\ UNCHANGED rules_dir
    /\ i' = i + 2
    /\ UNCHANGED <<args, target, pc, walk, lists, findings, components, rc, exit>>

ParseTarget ==
    /\ pc = "args" /\ i <= Len(args) /\ args[i] \notin Options
    /\ target = None
    /\ target' = args[i] /\ i' = i + 1
    /\ UNCHANGED <<args, rules_dir, cve_dataset, pc, walk, lists, findings, components,
                   rc, exit>>

\* An option without its argument, two targets, or none.
Usage ==
    /\ pc = "args"
    /\ \/ i = Len(args) /\ args[i] \in Options
       \/ i <= Len(args) /\ args[i] \notin Options /\ target # None
       \/ i > Len(args) /\ target = None
    /\ pc' = "done" /\ exit' = 1
    /\ UNCHANGED <<cli, walk, lists, findings, components, rc>>

StartWalk(t, n) ==
    /\ pc' = "walk" /\ pass' = n /\ seen' = {}
    /\ stack' = IF t.root \in t.unreadable THEN <<>>
                ELSE <<[node |-> t.root, names |-> <<>>, len |-> t.len, links |-> 0,
                        left |-> t.entries[t.root]]>>

ScanTarget ==
    /\ pc = "args" /\ i > Len(args) /\ target \in DOMAIN Directories
    /\ tree' = Directories[target]
    /\ StartWalk(tree', 1)
    /\ UNCHANGED <<cli, again, lists, findings, components, rc, exit>>

\* crimp_fs_extract replaces the output directory and reports success only for
\* the complete tree (AtomicReplace).
Extracted ==
    /\ pc = "args" /\ i > Len(args)
    /\ target \in DOMAIN ImageFiles /\ ImageFiles[target] # None
    /\ tree' = ImageFiles[target]
    /\ StartWalk(tree', 1)
    /\ UNCHANGED <<cli, again, lists, findings, components, rc, exit>>

\* Not recognized, too long a path, or a failed extraction: nothing is scanned.
NotExtracted ==
    /\ pc = "args" /\ i > Len(args)
    /\ target # None /\ target \notin DOMAIN Directories
    /\ pc' = "done" /\ exit' = 0
    /\ UNCHANGED <<cli, walk, lists, findings, components, rc>>

-----------------------------------------------------------------------------
(* crimp_walk_directory.                                                   *)

\* stat: the node behind an entry of a directory, through a symbolic link.
Node(t, d, name) ==
    LET E == {e \in t.entries[d] : e.name = name}
    IN IF E = {} THEN [node |-> None, links |-> 0]
       ELSE LET n == (CHOOSE e \in E : TRUE).node
            IN IF n \in DOMAIN t.target THEN [node |-> t.target[n], links |-> 1]
                                        ELSE [node |-> n, links |-> 0]

\* snprintf(path, sizeof(path), "%s/%s", dir_path, entry->d_name): where not
\* even one character of the name fits, the directory itself is named.
Room(dir) == MAX_PATH - 1 - (dir.len + 1)

Reached(t, dir, name) ==
    LET shown == IF NameLen[name] <= Room(dir) THEN name ELSE Cut[<<name, Room(dir)>>]
        at == Node(t, dir.node, shown)
    IN [node |-> IF dir.links + at.links > MAX_LINKS THEN None ELSE at.node,
        names |-> Append(dir.names, shown), len |-> dir.len + 1 + NameLen[shown],
        links |-> dir.links + at.links]

Join(t, dir, name) ==
    IF Room(dir) <= 0
    THEN [node |-> dir.node, names |-> dir.names, len |-> MAX_PATH - 1, links |-> dir.links]
    ELSE Reached(t, dir, name)

Take(e) == [Head(stack) EXCEPT !.left = @ \ {e}]

\* One turn of the loop over readdir; p is what the path of the entry names.
ReadEntry(e, p) ==
    /\ pc = "walk" /\ stack # <<>> /\ e \in Head(stack).left
    /\ p = Join(tree, Head(stack), e.name)

\* A fault: an entry that stat fails on is looked at again.
MUT_SkipEntry_again(e, p) ==
    /\ ReadEntry(e, p)
    /\ p.node \notin DOMAIN tree.entries \cup DOMAIN tree.content
    /\ UNCHANGED vars

\* stat fails, or it is neither a directory nor a regular file.
SkipEntry(e, p) ==
    /\ ReadEntry(e, p)
    /\ p.node \notin DOMAIN tree.entries \cup DOMAIN tree.content
    /\ stack' = <<Take(e)>> \o Tail(stack)
    /\ UNCHANGED <<cli, pc, tree, pass, seen, again, lists, findings, components, rc, exit>>

Openable(node) == node \notin tree.unreadable /\ Len(stack) < MAX_OPEN

\* A fault: a directory that cannot be opened ends the walk.
MUT_EnterDirectory_gives_up(e, p) ==
    /\ ReadEntry(e, p)
    /\ p.node \in DOMAIN tree.entries
    /\ stack' = IF Openable(p.node)
                THEN <<[node |-> p.node, names |-> p.names, len |-> p.len, links |-> p.links,
                        left |-> tree.entries[p.node]], Take(e)>> \o Tail(stack)
                ELSE <<>>
    /\ UNCHANGED <<cli, pc, tree, pass, seen, again, lists, findings, components, rc, exit>>

\* The recursive call: opendir may fail.
EnterDirectory(e, p) ==
    /\ ReadEntry(e, p)
    /\ p.node \in DOMAIN tree.entries
    /\ stack' = (IF Openable(p.node)
                 THEN <<[node |-> p.node, names |-> p.names, len |-> p.len, links |-> p.links,
                         left |-> tree.entries[p.node]]>>
                 ELSE <<>>) \o <<Take(e)>> \o Tail(stack)
    /\ UNCHANGED <<cli, pc, tree, pass, seen, again, lists, findings, components, rc, exit>>

\* strstr in the first READ_CHUNK - 1 bytes of a file, up to the first NUL.
Hit(c, pattern) ==
    \E k \in DOMAIN c :
        /\ c[k].kind = "pattern" /\ c[k].pattern = pattern
        /\ End(c, k) <= READ_CHUNK - 1
        /\ \A j \in 1 .. k : c[j].kind # "nul"

\* pattern_scan.c
scan_file(c, path, markers) ==
    {[by |-> m.by, pattern |-> m.pattern, path |-> path] :
        m \in {m \in markers : Hit(c, m.pattern)}}

Loaded  == Range(rules)
Markers == IF pass = RulePass THEN Loaded ELSE Detectors[pass]

\* What crimp_finding_list_add and crimp_component_list_add copy with strdup: the
\* name of a finding, and its description or the path of a component.  A copy there
\* was no memory for is NULL, and the entry is kept.
Strings == {{"by", "id"}, {"pattern", "path"}}

Without(f, lost) == [k \in DOMAIN f |-> IF k \in UNION lost THEN None ELSE f[k]]

Add(list, next, new) ==
    \E lost \in [new -> SUBSET Strings] :
        next = list \cup {Without(f, lost[f]) : f \in new}

\* What one file adds to a list, one entry after another.  Without memory for its
\* stream or its buffer the file is passed over; a list that cannot grow is written
\* through NULL, behind the entries that were added.
Keep(list, next, new) ==
    \/ next = list \cup new /\ UNCHANGED <<ran_out, pc, exit>>
    \/ /\ MemoryFails /\ new # {}
       /\ ran_out' = TRUE
       /\ \E some \in SUBSET new :
            /\ Add(list, next, some)
            /\ \/ some \in {{}, new} /\ UNCHANGED <<pc, exit>>
               \/ some # new /\ pc' = "done" /\ exit' = -1

\* scan_file of component_identify.c, as a table of the files there are.
Contents == UNION {{t.content[f] : f \in DOMAIN t.content} : t \in Trees}
Spoken   == {[bytes |-> c, of |-> identify(c)] : c \in Contents \cup {<<>>}}

InFile(c, path) ==
    {[component |-> s.component, version |-> s.version, path |-> path] :
        s \in (CHOOSE s \in Spoken : s.bytes = c).of}

\* visit(path, userdata): a file that cannot be opened is passed over.
VisitFile(e, p) ==
    /\ ReadEntry(e, p)
    /\ p.node \in DOMAIN tree.content
    /\ stack' = <<Take(e)>> \o Tail(stack)
    /\ seen' = seen \cup {p.names}
    /\ again' = (again \/ p.names \in seen)
    /\ \E c \in {IF Openable(p.node) THEN tree.content[p.node] ELSE <<>>} :
        IF pass = ComponentPass
        THEN \E new \in {InFile(c, p.names)} :
                Keep(components, components', new) /\ UNCHANGED findings
        ELSE \E new \in {scan_file(c, p.names, Markers)} :
                Keep(findings, findings', new) /\ UNCHANGED components
    /\ UNCHANGED <<cli, tree, pass, rules, to_load, rc>>

CloseDirectory ==
    /\ pc = "walk" /\ stack # <<>> /\ Head(stack).left = {}
    /\ stack' = Tail(stack)
    /\ UNCHANGED <<cli, pc, tree, pass, seen, again, lists, findings, components, rc, exit>>

-----------------------------------------------------------------------------
(* crimp_scan_directory: the walks one after another.                      *)

\* registry_run_all goes on with the next detector, then to the components.
NextPass ==
    /\ pc = "walk" /\ stack = <<>> /\ pass < ComponentPass
    /\ StartWalk(tree, pass + 1)
    /\ UNCHANGED <<cli, tree, again, lists, findings, components, rc, exit>>

\* crimp_yaml_rules_load_dir: opendir.
LoadRules ==
    /\ pc = "walk" /\ stack = <<>> /\ pass = ComponentPass
    /\ rules_dir # None
    /\ pc' = "rules"
    /\ IF rules_dir \in DOMAIN RuleDirs
       THEN to_load' = RuleDirs[rules_dir] /\ UNCHANGED rc
       ELSE rc' = rc \cup {"rules"} /\ UNCHANGED to_load
    /\ UNCHANGED <<cli, walk, rules, ran_out, findings, components, exit>>

\* parse_rule_entry; a severity the code does not know is an error here.
RuleOK(r) ==
    /\ r.by # None /\ r.pattern # None /\ r.pattern # "" /\ r.description # None
    /\ r.severity \in Severities

WellFormed(f) == f.parses /\ \A k \in DOMAIN f.rules : RuleOK(f.rules[k])

\* rule_list_add has to allocate for the next rule.
Full(n) == n = 0 \/ \E k \in 0 .. n : n = FirstCapacity * 2 ^ k

Parsed(f) == [k \in DOMAIN f.rules |-> [by |-> f.rules[k].by, pattern |-> f.rules[k].pattern]]

\* A fault: the rules before the one that does not parse are kept.
MUT_LoadFile_prefix(f) ==
    /\ pc = "rules" /\ f \in to_load
    /\ to_load' = to_load \ {f}
    /\ IF f.yaml /\ f.fits /\ f.parses
       THEN \E k \in 0 .. Len(f.rules) :
                /\ \A j \in 1 .. k : RuleOK(f.rules[j])
                /\ k < Len(f.rules) => ~RuleOK(f.rules[k + 1])
                /\ rules' = rules \o SubSeq(Parsed(f), 1, k)
       ELSE UNCHANGED rules
    /\ UNCHANGED <<cli, pc, walk, ran_out, findings, components, rc, exit>>

\* crimp_yaml_rules_load_file: the whole file or nothing, but when memory runs
\* out while the rules are handed over; a path that does not fit is passed over.
LoadFile(f) ==
    /\ pc = "rules" /\ f \in to_load
    /\ to_load' = to_load \ {f}
    /\ IF f.yaml /\ f.fits /\ WellFormed(f)
       THEN \/ rules' = rules \o Parsed(f) /\ UNCHANGED ran_out
            \/ /\ MemoryFails /\ f.rules # <<>>
               /\ ran_out' = TRUE
               /\ \E k \in 0 .. Len(f.rules) - 1 :
                    /\ k = 0 \/ Full(Len(rules) + k)
                    /\ rules' = rules \o SubSeq(Parsed(f), 1, k)
       ELSE UNCHANGED <<rules, ran_out>>
    /\ UNCHANGED <<cli, pc, walk, findings, components, rc, exit>>

\* crimp_scan_directory_for_yaml_rules, which needs memory for its markers.
ScanRules ==
    /\ pc = "rules" /\ to_load = {} /\ rules # <<>>
    /\ \/ StartWalk(tree, RulePass) /\ UNCHANGED ran_out
       \/ MemoryFails /\ ran_out' = TRUE /\ pc' = "cve" /\ UNCHANGED <<pass, seen, stack>>
    /\ UNCHANGED <<cli, tree, again, rules, to_load, findings, components, rc, exit>>

\* No rules, no directory of rules, or the last walk is over.
WalksDone ==
    /\ \/ pc = "walk" /\ stack = <<>> /\ pass = ComponentPass /\ rules_dir = None
       \/ pc = "walk" /\ stack = <<>> /\ pass = RulePass
       \/ pc = "rules" /\ to_load = {} /\ rules = <<>>
    /\ pc' = "cve"
    /\ UNCHANGED <<cli, walk, lists, findings, components, rc, exit>>

NoDoc == [parses |-> FALSE, components |-> None]

Cves == crimp_cve_match_components(
            IF cve_dataset \in DOMAIN Datasets THEN Datasets[cve_dataset] ELSE NoDoc, components)

\* An entry of the data set whose fields cannot be copied is passed over; the
\* whole of it is not used if it cannot be loaded.
MatchCves ==
    /\ pc = "cve" /\ cve_dataset # None
    /\ \/ /\ findings' = findings \cup Cves.findings
          /\ rc' = (IF Cves.rc = 0 THEN rc ELSE rc \cup {"cve"})
          /\ pc' = "report" /\ UNCHANGED <<ran_out, exit>>
       \/ /\ MemoryFails /\ Cves.rc = 0
          /\ ran_out' = TRUE
          /\ \E some \in SUBSET Cves.findings :
                /\ Add(findings, findings', some)
                /\ \/ pc' = "report" /\ UNCHANGED <<rc, exit>>
                   \/ some = {} /\ rc' = rc \cup {"cve"} /\ pc' = "report" /\ UNCHANGED exit
                   \/ some # Cves.findings /\ pc' = "done" /\ exit' = -1 /\ UNCHANGED rc
    /\ UNCHANGED <<cli, walk, rules, to_load, components>>

\* A string of an entry is NULL.
Missing == \E list \in {findings, components} : \E f \in list : \E k \in DOMAIN f : f[k] = None

\* The lists, the warnings of rc and, if its file can be opened, the SBOM are
\* written; the exit status says nothing of what failed.  printf shows a string
\* that is NULL as "(null)", write_json_string reads it.
Report ==
    /\ pc = "report" \/ (pc = "cve" /\ cve_dataset = None)
    /\ pc' = "done"
    /\ exit' = 0 \/ (Missing /\ exit' = -1)
    /\ UNCHANGED <<cli, walk, lists, findings, components, rc>>

Next ==
    \/ ParseOption \/ ParseTarget \/ Usage \/ ScanTarget \/ Extracted \/ NotExtracted
    \/ /\ stack # <<>>
       /\ \E e \in Head(stack).left : \E p \in {Join(tree, Head(stack), e.name)} :
            SkipEntry(e, p) \/ EnterDirectory(e, p) \/ VisitFile(e, p)
    \/ CloseDirectory \/ NextPass
    \/ LoadRules \/ (\E f \in to_load : LoadFile(f)) \/ ScanRules \/ WalksDone
    \/ MatchCves \/ Report

Spec == Init /\ [][Next]_vars

\* One process that nothing stops.
FairSpec == Spec /\ WF_vars(Next)

-----------------------------------------------------------------------------
(* The tree as it is, without a walk: level by level, with no buffer and   *)
(* no limit on open files.                                                 *)

CONSTANT MaxDepth   \* bound on the depth of the trees, links included

\* As deep as any walk can come.
ASSUME DepthAssumption == MaxDepth \in Nat /\ MAX_OPEN <= MaxDepth

Below(t, x) ==
    IF x.node \notin DOMAIN t.entries \/ x.node \in t.unreadable THEN {}
    ELSE {y \in {[node |-> Node(t, x.node, e.name).node, names |-> Append(x.names, e.name),
                  links |-> x.links + Node(t, x.node, e.name).links] : e \in t.entries[x.node]} :
            y.links <= MAX_LINKS}

Levels(t) ==
    LET level[k \in 0 .. MaxDepth] ==
            IF k = 0 THEN {[node |-> t.root, names |-> <<>>, links |-> 0]}
            ELSE UNION {Below(t, x) : x \in level[k - 1]}
    IN level

All(t)   == UNION {Levels(t)[k] : k \in 0 .. MaxDepth}
Files(t) == {x \in All(t) : x.node \in DOMAIN t.content}

\* The files a scan can read.
Readable(t) == {x \in Files(t) : x.node \notin t.unreadable}

PathLen(names) == Sums([j \in DOMAIN names |-> 1 + NameLen[names[j]]])[Len(names)]

\* The path of every entry fits the buffer, and the directories above it can be
\* open at once.
Fits(t) ==
    /\ \A x \in All(t) :
        /\ Len(x.names) < MAX_OPEN
        /\ x.node \in DOMAIN t.entries \ t.unreadable => \A e \in t.entries[x.node] :
            t.len + PathLen(x.names) + 1 + NameLen[e.name] < MAX_PATH
    /\ Levels(t)[MaxDepth] = {}

FittingTrees == {t \in Trees : Fits(t)}

TreeFiles     == {[tree |-> t, readable |-> Readable(t)] : t \in Trees}
ReadableOf(t) == (CHOOSE f \in TreeFiles : f.tree = t).readable

-----------------------------------------------------------------------------
(* Properties.                                                             *)

\* The rules of every sound file of the directory, from first to last.
SoundRules ==
    IF rules_dir \notin DOMAIN RuleDirs THEN {}
    ELSE UNION {{Parsed(f)[k] : k \in DOMAIN f.rules} :
                    f \in {f \in RuleDirs[rules_dir] : f.yaml /\ f.fits /\ WellFormed(f)}}

AllMarkers == (UNION {Detectors[d] : d \in DOMAIN Detectors}) \cup SoundRules

\* The report of a run is that of the whole tree, whatever the order of its
\* directories, its links and what cannot be read: every pattern of every
\* detector and sound rule in every file, every component, every CVE that is
\* about one, and a warning for an input that could not be used, and nothing
\* else; no file is visited twice in a walk.
ReportIsComplete ==
    pc = "done" /\ exit = 0 /\ tree \in FittingTrees /\ ~ran_out =>
        /\ components = UNION {InFile(tree.content[x.node], x.names) : x \in ReadableOf(tree)}
        /\ findings = (UNION {scan_file(tree.content[x.node], x.names, AllMarkers) :
                                 x \in ReadableOf(tree)})
                      \cup (IF cve_dataset = None THEN {} ELSE Cves.findings)
        /\ "rules" \in rc <=> rules_dir # None /\ rules_dir \notin DOMAIN RuleDirs
        /\ "cve" \in rc <=> cve_dataset # None /\ Cves.rc # 0
        /\ ~again

\* The text of a version in a file stands behind the component's marker or, for
\* Dropbear, is a string of its own next to one that mentions it.
Separated(c, j, k) == \E b \in j .. k : {z \in j .. k : c[z].kind = "nul"} = {b}

VersionStands(c, k, name) ==
    \/ k > 1 /\ c[k - 1].kind = "marker" /\ c[k - 1].name = name
    \/ /\ name = "Dropbear"
       /\ 2 \notin c[k].dashes
       /\ k = 1 \/ c[k - 1].kind = "nul"
       /\ k = Len(c) \/ c[k + 1].kind = "nul" \/ End(c, k) >= Scanned(c)
       /\ \E m \in DOMAIN c :
            /\ \/ c[m].kind = "mention"
               \/ c[m].kind = "marker" /\ c[m].name = "Dropbear"
            /\ Separated(c, k, m) \/ Separated(c, m, k)

\* It is reported as it stands, its letters included or not; only its end is
\* missing where it is longer than the buffer, or the file than the window.
ReportedAs(c, k, version) ==
    LET v == c[k].version
        whole == VersionLen(v) < VERSION_SIZE /\ End(c, k) <= Scanned(c)
    IN \E n \in 1 .. VersionLen(v) :
          /\ version \in {FirstChars(v, n), BeforeLetters(FirstChars(v, n))}
          /\ whole => n = VersionLen(v)

\* What is reported of a path is in the file the path names, also if the walk was
\* led there by a name that was cut off; an entry that has lost a string is what is
\* left of one that is true.
FindingsAreTrue ==
    /\ \A f \in {f \in findings : "pattern" \in DOMAIN f} :
        \E x \in ReadableOf(tree) : \E m \in AllMarkers :
            /\ Hit(tree.content[x.node], m.pattern)
            /\ f.by \in {m.by, None}
            /\ <<f.pattern, f.path>> \in {<<m.pattern, x.names>>, <<None, None>>}
    /\ \A comp \in components :
        \E x \in ReadableOf(tree) :
            /\ comp.path \in {x.names, None}
            /\ Occurrences(tree.content[x.node], comp.component) # {}
            /\ comp.version # <<>> =>
                \E k \in DOMAIN tree.content[x.node] :
                    /\ tree.content[x.node][k].kind = "version"
                    /\ VersionStands(tree.content[x.node], k, comp.component)
                    /\ ReportedAs(tree.content[x.node], k, comp.version)

\* A rule file is taken whole or not at all, and one that is not sound takes
\* nothing from the others, in whatever order the directory lists them.
RulesWhole ==
    /\ Loaded \subseteq SoundRules
    /\ pc \in {"cve", "report", "done"} /\ tree # None /\ rules_dir # None /\ ~ran_out =>
        Loaded = SoundRules

\* The run ends, also with links to a directory above and with paths that are
\* cut off: the system's limits on links and open files bound the recursion.
Terminates == <>(pc = "done")

\* "A marker can appear more than once in a binary before an occurrence that
\* happens to be directly followed by a parseable version. Keep looking past
\* occurrences that aren't" (component_identify.c:259): what is reported is then
\* a version, which begins with a digit.
KeepsLooking ==
    \A comp \in components : \A x \in ReadableOf(tree) :
        LET c == tree.content[x.node]
        IN /\ x.names = comp.path
           /\ \E k \in Occurrences(c, comp.component) :
                LET v == VersionBehind(c, k, comp.component) IN v # <<>> /\ v[1].digits > 0
           => comp.version # <<>> /\ comp.version[1].digits > 0
=============================================================================

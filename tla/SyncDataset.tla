----------------------------- MODULE SyncDataset -----------------------------
(***************************************************************************)
(* scripts/sync_cve_dataset.py and the crimp run that reads its output:    *)
(* the script pages through the CVEs of each product on a server that goes *)
(* on changing, retries failed requests, and then writes the data set in   *)
(* place; it may be killed at any time.  crimp matches the components it   *)
(* knows against whatever the file holds (cve_match.c).                    *)
(***************************************************************************)
EXTENDS CveMatch, SequencesExt

CONSTANTS
    PRODUCTS,       \* the components, in the order they are fetched
    Cves,           \* identifiers of CVE records
    Record,         \* CVE -> its record, see RecordOK
    Servers,        \* what the server may list for each product at first
    OldFile,        \* what is in the data set before the first run
    Components,     \* what crimp_identify_components has found
    PER_PAGE,       \* RESULTS_PER_PAGE, 2000 in the script
    MAX_ATTEMPTS,   \* 3 in the script
    MaxChanges,     \* bound on the changes of the server
    MaxRuns         \* bound on the runs of the script

Product == 1 .. Len(PRODUCTS)

\* `metrics' holds the four CVSS versions, the newest first; `matches' the
\* cpeMatch entries of all configurations, each about one of the products or
\* (None) about something else.  `exact' is the condition "==VERSION" of an
\* entry whose criteria name a version; it has no operator for the code that
\* reads it if that version is empty or too long (Conditions).
MatchOK(m) ==
    /\ m.vulnerable \in BOOLEAN /\ m.product \in Product \cup {None}
    /\ m.exact \in Conditions \cup {None}
    /\ m.range \in Seq(Conditions)

RecordOK(r) ==
    /\ DOMAIN r.metrics = 1 .. 4
    /\ r.described \in BOOLEAN
    /\ Len(r.matches) \in Nat /\ DOMAIN r.matches = 1 .. Len(r.matches)
    /\ \A k \in DOMAIN r.matches : MatchOK(r.matches[k])

ASSUME SyncAssumption ==
    /\ Len(PRODUCTS) \in Nat \ {0} /\ PER_PAGE \in Nat \ {0} /\ MAX_ATTEMPTS \in Nat \ {0}
    /\ MaxChanges \in Nat /\ MaxRuns \in Nat
    /\ \A s \in Servers : s \in [Product -> Seq(Cves)]
    /\ \A c \in Cves : RecordOK(Record[c])
    /\ None \notin Cves /\ None \notin Seq(Conditions)
    /\ \A p \in Product : PRODUCTS[p] # None
    /\ \A comp \in Components : comp.version \in Version

VARIABLES
    server,       \* product -> the CVEs the server lists for it, in its order
    pc,           \* "idle", "request", "fetched", "open", "write", "done", "failed", "killed"
    i,            \* the product being fetched
    start_index, out, attempt,   \* the locals of fetch_all
    components,   \* what build_dataset has put together
    todo,         \* the lines write_yaml has still to write
    file,         \* the data set: its lines, and whether the last one is cut
    report,       \* what the last scan returned
    throughout,   \* the CVEs listed since the product's first request
    removed,      \* has the server since then dropped one of a page already fetched
    owed,         \* <<product, CVE>>: what the run's data set must hold
    before,       \* the file when the script was started
    changes, runs

script == <<pc, i, start_index, out, attempt, components, todo>>
ghosts == <<throughout, removed, owed, before>>
vars == <<server, script, file, report, ghosts, changes, runs>>

NoReport == [rc |-> 1, findings |-> {}]    \* no scan since the script was started

Init ==
    /\ server \in Servers
    /\ pc = "idle"
    /\ i = 1 /\ start_index = 0 /\ out = <<>> /\ attempt = 0
    /\ components = <<>> /\ todo = <<>>
    /\ file = OldFile
    /\ report = NoReport
    /\ throughout = {} /\ removed = FALSE /\ owed = {} /\ before = OldFile
    /\ changes = 0 /\ runs = 0

Listed(s, p) == {s[p][k] : k \in DOMAIN s[p]}

-----------------------------------------------------------------------------
(* What build_dataset keeps of a record.                                   *)

\* The first CVSS version that has a severity at all.
best_severity(r) ==
    LET Rated == {k \in 1 .. 4 : r.metrics[k] \notin {None, "NONE"}}
    IN IF Rated = {} THEN None
       ELSE r.metrics[CHOOSE k \in Rated : \A j \in Rated : k <= j]

\* Platforms and other products are passed over, and so is a wildcard without
\* bounds.
Taken(m, p) == m.vulnerable /\ m.product = p /\ (m.exact # None \/ m.range # <<>>)

Condition(m) == IF m.exact # None THEN <<m.exact>> ELSE m.range

cpe_matches_for_product(r, p) ==
    FlattenSeq([k \in DOMAIN r.matches |->
        IF Taken(r.matches[k], p) THEN <<Condition(r.matches[k])>> ELSE <<>>])

\* The entries of one CVE: none without a severity or an English description.
EntriesOf(c, p) ==
    LET r == Record[c]
        conditions == cpe_matches_for_product(r, p)
    IN IF best_severity(r) = None \/ ~r.described THEN <<>>
       ELSE [k \in DOMAIN conditions |->
                [id |-> c, affected |-> conditions[k], severity |-> best_severity(r)]]

Built(cves, p) == FlattenSeq([k \in DOMAIN cves |-> EntriesOf(cves[k], p)])

-----------------------------------------------------------------------------
(* write_yaml.                                                             *)

Line(kind, what) == [kind |-> kind, what |-> what]

EntryLines(e) ==
    <<Line("id", e.id), Line("affected", e.affected), Line("severity", e.severity),
      Line("description", e.id)>>

ComponentLines(p, es) ==
    <<Line("name", PRODUCTS[p]), Line("cves", None)>>
        \o FlattenSeq([k \in DOMAIN es |-> EntryLines(es[k])])

DatasetLines(comps) ==
    <<Line("components", None)>>
        \o FlattenSeq([p \in DOMAIN comps |-> ComponentLines(p, comps[p])])

-----------------------------------------------------------------------------
(* The file as libyaml reads it.  A file that ends behind a line parses; a *)
(* cut line breaks it, adds nothing that is used, or (`description:' of    *)
(* which only the text is missing) counts like the whole line.             *)

Field(f, k, kind) ==
    IF k \in DOMAIN f.lines /\ f.lines[k].kind = kind THEN f.lines[k].what ELSE None

EntryAt(f, k) ==
    [id |-> f.lines[k].what, affected |-> Field(f, k + 1, "affected"),
     severity |-> Field(f, k + 2, "severity"), description |-> Field(f, k + 3, "description")]

ComponentAt(f, n) ==
    [name |-> f.lines[n].what,
     cves |-> {EntryAt(f, k) : k \in {k \in n + 2 .. Len(f.lines) :
                /\ f.lines[k].kind = "id"
                /\ \A j \in n + 1 .. k : f.lines[j].kind # "name"}}]

Doc(f) ==
    LET names == {n \in DOMAIN f.lines : f.lines[n].kind = "name"}
    IN [parses     |-> ~f.broken /\ names # {},
        components |-> {ComponentAt(f, n) : n \in names}]

-----------------------------------------------------------------------------
(* The script.                                                             *)

Running == pc \in {"request", "fetched", "open", "write"}

StartFetch(p) ==
    /\ i' = p /\ start_index' = 0 /\ out' = <<>> /\ attempt' = 0
    /\ pc' = "request"
    /\ throughout' = Listed(server, p)
    /\ removed' = FALSE

\* A fault: the data set is opened before anything has been fetched.
MUT_StartSync_opens ==
    /\ ~Running
    /\ runs < MaxRuns
    /\ StartFetch(1)
    /\ components' = <<>> /\ todo' = <<>> /\ owed' = {}
    /\ before' = file
    /\ file' = [lines |-> <<>>, broken |-> FALSE]
    /\ report' = NoReport
    /\ runs' = runs + 1
    /\ UNCHANGED <<server, changes>>

StartSync ==
    /\ ~Running
    /\ runs < MaxRuns
    /\ StartFetch(1)
    /\ components' = <<>> /\ todo' = <<>> /\ owed' = {}
    /\ before' = file
    /\ report' = NoReport
    /\ runs' = runs + 1
    /\ UNCHANGED <<server, file, changes>>

Page == SubSeq(server[i], start_index + 1,
               IF start_index + PER_PAGE <= Len(server[i]) THEN start_index + PER_PAGE
                                                           ELSE Len(server[i]))

\* A fault: one page is taken to be as long as the next.
MUT_LastPage_ahead == start_index + Len(Page) + 1 >= Len(server[i])

\* start_index is that of the next page; an empty page ends the paging too.
LastPage == start_index + Len(Page) >= Len(server[i]) \/ Page = <<>>

\* fetch_page answers with a page and the total of the moment.
Reply ==
    /\ pc = "request"
    /\ out' = out \o Page
    /\ start_index' = start_index + Len(Page)
    /\ attempt' = 0
    /\ pc' = IF LastPage THEN "fetched" ELSE "request"
    /\ UNCHANGED <<server, i, components, todo, file, report, throughout, removed,
                   owed, before, changes, runs>>

\* A fault: attempts are counted from nought again.
MUT_RequestFails_again ==
    /\ pc = "request"
    /\ attempt' = (attempt + 1) % MAX_ATTEMPTS
    /\ UNCHANGED <<server, pc, i, start_index, out, components, todo, file, report,
                   ghosts, changes, runs>>

\* HTTPError or URLError: the same page is asked for again, three times in all.
RequestFails ==
    /\ pc = "request"
    /\ attempt' = attempt + 1
    /\ pc' = IF attempt' = MAX_ATTEMPTS THEN "failed" ELSE "request"
    /\ UNCHANGED <<server, i, start_index, out, components, todo, file, report,
                   ghosts, changes, runs>>

\* build_dataset goes on to the next product, or hands over to write_yaml.
ProductDone ==
    /\ pc = "fetched"
    /\ components' = Append(components, Built(out, i))
    /\ owed' = owed \cup {<<i, c>> : c \in IF removed THEN {} ELSE throughout}
    /\ IF i < Len(PRODUCTS)
       THEN StartFetch(i + 1)
       ELSE /\ pc' = "open"
            /\ UNCHANGED <<i, start_index, out, attempt, throughout, removed>>
    /\ UNCHANGED <<server, todo, file, report, before, changes, runs>>

\* open(out_path, "w") cuts the old data set off.
OpenFile ==
    /\ pc = "open"
    /\ file' = [lines |-> <<>>, broken |-> FALSE]
    /\ todo' = DatasetLines(components)
    /\ pc' = "write"
    /\ UNCHANGED <<server, i, start_index, out, attempt, components, report, ghosts,
                   changes, runs>>

WriteLine ==
    /\ pc = "write" /\ todo # <<>>
    /\ file' = [file EXCEPT !.lines = Append(@, Head(todo))]
    /\ todo' = Tail(todo)
    /\ UNCHANGED <<server, pc, i, start_index, out, attempt, components, report, ghosts,
                   changes, runs>>

WriteDone ==
    /\ pc = "write" /\ todo = <<>>
    /\ pc' = "done"
    /\ UNCHANGED <<server, i, start_index, out, attempt, components, todo, file, report,
                   ghosts, changes, runs>>

\* Killed, or an exception that nothing catches, before the file is opened ...
Die ==
    /\ pc \in {"request", "fetched", "open"}
    /\ pc' = "failed"
    /\ UNCHANGED <<server, i, start_index, out, attempt, components, todo, file, report,
                   ghosts, changes, runs>>

\* ... or while it is written: the last line may be cut.
DieWriting ==
    /\ pc = "write"
    /\ pc' = "killed"
    /\ \E b \in IF todo = <<>> THEN {FALSE} ELSE BOOLEAN :
            file' = [file EXCEPT !.broken = b]
    /\ UNCHANGED <<server, i, start_index, out, attempt, components, todo, report, ghosts,
                   changes, runs>>

-----------------------------------------------------------------------------
(* The server, and crimp.                                                  *)

\* A CVE is published: it may appear anywhere in the list.
Publish(p, c, k) ==
    /\ pc = "request" /\ changes < MaxChanges
    /\ c \notin Listed(server, p)
    /\ server' = [server EXCEPT ![p] = InsertAt(@, k, c)]
    /\ changes' = changes + 1
    /\ UNCHANGED <<script, file, report, ghosts, runs>>

\* A CVE is withdrawn, or no longer about the product: those behind it move up.
Withdraw(p, k) ==
    /\ pc = "request" /\ changes < MaxChanges
    /\ server' = [server EXCEPT ![p] = RemoveAt(@, k)]
    /\ throughout' = IF p = i THEN throughout \ {server[p][k]} ELSE throughout
    /\ removed' = (removed \/ (p = i /\ k <= start_index))
    /\ changes' = changes + 1
    /\ UNCHANGED <<script, file, report, owed, before, runs>>

\* crimp reads the data set while no run of the script is at work.
Scan ==
    /\ ~Running
    /\ report' = crimp_cve_match_components(Doc(file), Components)
    /\ UNCHANGED <<server, script, file, ghosts, changes, runs>>

ScriptStep ==
    \/ Reply \/ RequestFails \/ ProductDone \/ OpenFile \/ WriteLine \/ WriteDone
    \/ Die \/ DieWriting

Next ==
    \/ StartSync \/ ScriptStep
    \/ \E p \in Product :
        \/ \E c \in Cves, k \in 1 .. Len(server[p]) + 1 : Publish(p, c, k)
        \/ \E k \in DOMAIN server[p] : Withdraw(p, k)
    \/ Scan

Spec == Init /\ [][Next]_vars

\* The script is one process that goes on once it has been started: each
\* request is answered or times out, and nothing stops it for ever.
FairSpec == Spec /\ WF_vars(ScriptStep)

-----------------------------------------------------------------------------
(* Properties.                                                             *)

TypeOK ==
    /\ server \in [Product -> Seq(Cves)]
    /\ pc \in {"idle", "request", "fetched", "open", "write", "done", "failed", "killed"}
    /\ i \in Product /\ start_index \in Nat /\ out \in Seq(Cves)
    /\ attempt \in 0 .. MAX_ATTEMPTS
    /\ throughout \subseteq Cves /\ removed \in BOOLEAN
    /\ changes \in 0 .. MaxChanges /\ runs \in 0 .. MaxRuns

\* Paging by fetch_all finds every CVE that the server has listed for the
\* product from the first request to the last, however many are published in
\* between and however often a page is asked for again.  (What the server
\* withdraws from a page already fetched moves the rest up: one may be missed.)
NothingLost ==
    pc = "fetched" /\ ~removed => throughout \subseteq {out[k] : k \in DOMAIN out}

\* A sync that fails before it writes leaves the data set as it was: main
\* fetches every product before write_yaml opens the file.
FailedSyncKeepsDataset ==
    pc \in {"request", "fetched", "open", "failed"} => file = before

\* What a record says of a component, read without the detour over the file and
\* in the order of the versions as they are written.  Versions that the code
\* cannot tell apart (Comparable) are given the benefit of `doubt'.
Says(condition, version, doubt) ==
    IF Comparable(version, condition.version)
    THEN Holds(condition.op, version, condition.version)
    ELSE doubt

Affects(c, comp, doubt) ==
    LET r == Record[c]
    IN /\ r.described /\ best_severity(r) # None
       /\ \E k \in DOMAIN r.matches :
            LET m == r.matches[k]
            IN /\ m.vulnerable /\ m.product \in Product /\ PRODUCTS[m.product] = comp.component
               /\ IF m.exact # None THEN Says(m.exact, comp.version, doubt)
                  ELSE /\ m.range # <<>>
                       /\ \A j \in DOMAIN m.range : Says(m.range[j], comp.version, doubt)

Vulnerable(doubt) ==
    {x \in Cves \X {comp \in Components : comp.version # <<>>} : Affects(x[1], x[2], doubt)}

\* What crimp reports is what the records say of the components it has found.
\* Once the script has written to the file it is never more, whatever a killed
\* script has left there; and after a complete sync no less, for the CVEs that
\* were listed throughout, of the product that the record is about.
ReportFollowsServer ==
    /\ pc \in {"done", "killed"} \/ file # OldFile =>
         \A f \in report.findings : \E x \in Vulnerable(TRUE) :
            /\ f.id = x[1] /\ f.path = x[2].path
            /\ best_severity(Record[f.id]) \in Severities =>
                    f.severity = best_severity(Record[f.id])
    /\ pc = "done" /\ report # NoReport =>
         \A x \in Vulnerable(FALSE) :
            (\A p \in Product : PRODUCTS[p] = x[2].component => <<p, x[1]>> \in owed)
                => \E f \in report.findings : f.id = x[1] /\ f.path = x[2].path

\* A run of the script comes to an end, whatever the server answers.
SyncEnds == Running ~> ~Running
=============================================================================

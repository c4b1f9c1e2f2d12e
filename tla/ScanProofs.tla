----------------------------- MODULE ScanProofs ------------------------------
(***************************************************************************)
(* Proofs about Scan: the rules a run scans for are those of the sound     *)
(* files; what is reported of a path is in the file it names; and in a     *)
(* tree whose paths fit everything there is is reported.                   *)
(***************************************************************************)
EXTENDS Scan, NaturalsInduction, WellFoundedInduction, SequenceTheorems, FiniteSetTheorems,
        TLAPS

-----------------------------------------------------------------------------
(* Rules.                                                                  *)

DirFiles == IF rules_dir \in DOMAIN RuleDirs THEN RuleDirs[rules_dir] ELSE {}
Sound(f) == f.yaml /\ f.fits /\ WellFormed(f)
Of(f)    == {Parsed(f)[k] : k \in DOMAIN f.rules}
SoundOf(F) == UNION {Of(f) : f \in {f \in F : Sound(f)}}

\* The walks behind the rules, and what comes after them.
RulesLoaded ==
    \/ pc = "walk" /\ pass = RulePass
    \/ pc \in {"cve", "report"}
    \/ pc = "done" /\ tree # None

\* Why RulesWhole holds: what is not loaded yet is still to load.
RulesInv ==
    /\ pass \in Nat
    /\ rules \in Seq(SoundRules)
    /\ to_load \subseteq DirFiles
    /\ pc = "args" => tree = None
    /\ pc = "args" \/ (pc = "walk" /\ pass <= ComponentPass) => rules = <<>> /\ to_load = {}
    /\ pc = "rules" /\ ~ran_out => SoundRules \subseteq Loaded \cup SoundOf(to_load)
    /\ RulesLoaded /\ rules_dir # None /\ ~ran_out => SoundRules \subseteq Loaded

\* The rules of the sound files, as the two definitions name them.
LEMMA SoundRulesAre == SoundRules = SoundOf(DirFiles)
BY DEF SoundRules, SoundOf, DirFiles, Sound, Of

\* What was parsed of a file is a sequence of its rules.
LEMMA ParsedSeq ==
    ASSUME NEW f \in DirFiles
    PROVE  /\ Len(f.rules) \in Nat
           /\ DOMAIN f.rules = 1 .. Len(f.rules)
           /\ Parsed(f) \in Seq(Of(f))
           /\ Len(Parsed(f)) = Len(f.rules)
           /\ Range(Parsed(f)) = Of(f)
<1>1. Len(f.rules) \in Nat /\ DOMAIN f.rules = 1 .. Len(f.rules)
  BY ScanAssumption DEF DirFiles
<1> DEFINE n == Len(f.rules)
           rule(k) == [by |-> f.rules[k].by, pattern |-> f.rules[k].pattern]
<1> HIDE DEF n, rule
<1>2. Parsed(f) = [k \in 1 .. n |-> rule(k)]
  BY <1>1 DEF Parsed, n, rule
<1>3. Of(f) = {rule(k) : k \in 1 .. n}
  BY <1>1, <1>2 DEF Of, n
<1>4. n \in Nat
  BY <1>1 DEF n
<1>5. Parsed(f) \in Seq(Of(f)) /\ Len(Parsed(f)) = n
  BY <1>2, <1>3, <1>4
<1>6. Range(Parsed(f)) = Of(f)
  BY <1>2, <1>3, <1>5 DEF Range
<1> QED BY <1>1, <1>5, <1>6 DEF n

\* A concatenation and its elements.
LEMMA ConcatSeq ==
    ASSUME NEW S, NEW a \in Seq(S), NEW b \in Seq(S)
    PROVE  /\ a \o b \in Seq(S)
           /\ Range(a \o b) = Range(a) \cup Range(b)
<1> DEFINE c == a \o b
<1>1. /\ c \in Seq(S) /\ Len(c) = Len(a) + Len(b)
      /\ DOMAIN c = 1 .. Len(a) + Len(b) /\ DOMAIN a = 1 .. Len(a)
      /\ DOMAIN b = 1 .. Len(b)
      /\ Len(a) \in Nat /\ Len(b) \in Nat
  OBVIOUS
<1>2. /\ \A k \in 1 .. Len(a) : c[k] = a[k]
      /\ \A k \in 1 .. Len(b) : c[Len(a) + k] = b[k]
  OBVIOUS
<1> HIDE DEF c
<1>3. \A k \in 1 .. Len(a) + Len(b) : k \in 1 .. Len(a) \/ k - Len(a) \in 1 .. Len(b)
  BY <1>1
<1>4. \A k \in 1 .. Len(b) : Len(a) + k \in 1 .. Len(a) + Len(b)
  BY <1>1
<1>5. ASSUME NEW k \in DOMAIN c
      PROVE  c[k] \in Range(a) \cup Range(b)
  <2>1. CASE k \in 1 .. Len(a)
    BY <1>1, <1>2, <2>1 DEF Range
  <2>2. CASE k - Len(a) \in 1 .. Len(b)
    <3>1. Len(a) + (k - Len(a)) = k
      BY <1>1
    <3>2. c[k] = b[k - Len(a)]
      BY <1>2, <2>2, <3>1
    <3> QED BY <1>1, <2>2, <3>2 DEF Range
  <2> QED BY <1>1, <1>3, <2>1, <2>2
<1>6. \A k \in 1 .. Len(a) : k \in DOMAIN c
  BY <1>1
<1>7. \A x \in Range(a) \cup Range(b) : \E k \in DOMAIN c : x = c[k]
  BY <1>1, <1>2, <1>4, <1>6 DEF Range
<1>8. Range(c) = {c[k] : k \in DOMAIN c}
  BY DEF Range
<1>9. Range(c) = Range(a) \cup Range(b)
  BY <1>5, <1>7, <1>8
<1> QED BY <1>1, <1>9 DEF c

\* A prefix of a sequence.
LEMMA PrefixSeq ==
    ASSUME NEW S, NEW a \in Seq(S), NEW k \in Nat, k <= Len(a)
    PROVE  SubSeq(a, 1, k) \in Seq(S)
OBVIOUS

-----------------------------------------------------------------------------
\* What reading one file for the components or the findings changes.
LEMMA VisitKeeps ==
    ASSUME NEW e, NEW p, VisitFile(e, p)
    PROVE  /\ UNCHANGED <<rules, to_load, rules_dir, pass, tree>>
           /\ \/ UNCHANGED <<pc, ran_out>>
              \/ ran_out' = TRUE /\ pc' \in {pc, "done"}
           /\ pc = "walk"
<1>1. UNCHANGED <<rules, to_load, rules_dir, pass, tree>> /\ pc = "walk"
  BY DEF VisitFile, ReadEntry, cli
<1>2. PICK next, new, list : Keep(list, next, new)
  BY DEF VisitFile
<1> QED BY <1>1, <1>2 DEF Keep

\* Nothing of the invariant changes, or memory ran out in a walk.
LEMMA RulesKept ==
    ASSUME RulesInv, UNCHANGED <<rules, to_load, rules_dir, pass, tree>>,
           \/ UNCHANGED <<pc, ran_out>>
           \/ pc = "walk" /\ ran_out' = TRUE /\ pc' \in {pc, "done"}
    PROVE  RulesInv'
<1>1. /\ Loaded' = Loaded /\ SoundRules' = SoundRules /\ DirFiles' = DirFiles
      /\ SoundOf(to_load)' = SoundOf(to_load)
      /\ ComponentPass' = ComponentPass /\ RulePass' = RulePass
  BY DEF Loaded, SoundRules, DirFiles, SoundOf, Sound, Of, ComponentPass, RulePass
<1>2. CASE UNCHANGED <<pc, ran_out>>
  BY <1>1, <1>2 DEF RulesInv, RulesLoaded
<1>3. CASE pc = "walk" /\ ran_out' = TRUE /\ pc' \in {pc, "done"}
  <2>1. pc' # "args" /\ (pc' = "walk" => pc = "walk")
    BY <1>3
  <2> QED BY <1>1, <1>3, <2>1 DEF RulesInv
<1> QED BY <1>2, <1>3

\* The rule pass is the one behind the component pass.
LEMMA PassesAre ==
    /\ ComponentPass \in Nat /\ RulePass = ComponentPass + 1
    /\ 1 <= ComponentPass
BY ScanAssumption DEF ComponentPass, RulePass

\* Before the rules are loaded there are none, whatever the arguments are.
LEMMA NoRulesYet ==
    ASSUME rules' = <<>>, to_load' = {}, pass' \in Nat,
           \/ pc' = "args" /\ tree' = None
           \/ pc' = "walk" /\ pass' <= ComponentPass
           \/ pc' = "done" /\ tree' = None
    PROVE  RulesInv'
<1>1. <<>> \in Seq(SoundRules')
  OBVIOUS
<1>2. ~RulesLoaded'
  BY PassesAre DEF RulesLoaded, RulePass, ComponentPass
<1> QED BY <1>1, <1>2 DEF RulesInv

\* A file read by crimp_yaml_rules_load_dir adds its rules, or nothing.
LEMMA LoadFileStep ==
    ASSUME RulesInv, NEW f \in to_load, LoadFile(f)
    PROVE  RulesInv'
<1>1. /\ pc = "rules" /\ pc' = "rules" /\ to_load' = to_load \ {f}
      /\ UNCHANGED <<rules_dir, pass, tree>>
  BY DEF LoadFile, cli, walk
<1>2. /\ SoundRules' = SoundRules /\ DirFiles' = DirFiles
  BY <1>1 DEF SoundRules, DirFiles
<1>3. f \in DirFiles /\ rules \in Seq(SoundRules)
  BY DEF RulesInv
<1>4. SUFFICES /\ rules' \in Seq(SoundRules)
               /\ ~ran_out' => SoundRules \subseteq Loaded' \cup SoundOf(to_load')
  BY <1>1, <1>2, <1>4 DEF RulesInv, RulesLoaded
<1>5. CASE ~Sound(f)
  <2>1. UNCHANGED <<rules, ran_out>>
    BY <1>5 DEF LoadFile, Sound
  <2>2. SoundOf(to_load') = SoundOf(to_load)
    BY <1>1, <1>5 DEF SoundOf
  <2> QED BY <1>1, <1>3, <2>1, <2>2 DEF RulesInv, Loaded, Range
<1>6. CASE Sound(f)
  <2>1. Of(f) \subseteq SoundRules
    BY <1>3, <1>6, SoundRulesAre DEF SoundOf
  <2>2. /\ Len(f.rules) \in Nat /\ Parsed(f) \in Seq(Of(f)) /\ Len(Parsed(f)) = Len(f.rules)
        /\ Range(Parsed(f)) = Of(f)
    BY <1>3, ParsedSeq
  <2>3. Parsed(f) \in Seq(SoundRules)
    BY <2>1, <2>2
  <2>4. SoundOf(to_load) = SoundOf(to_load') \cup Of(f)
    BY <1>1, <1>6 DEF SoundOf
  <2>5. CASE rules' = rules \o Parsed(f) /\ UNCHANGED ran_out
    <3>1. /\ rules \o Parsed(f) \in Seq(SoundRules)
          /\ Range(rules \o Parsed(f)) = Range(rules) \cup Range(Parsed(f))
      BY <1>3, <2>3, ConcatSeq
    <3>2. Range(rules') = Range(rules) \cup Of(f)
      BY <2>2, <2>5, <3>1
    <3>3. Loaded' = Loaded \cup Of(f)
      BY <3>2 DEF Loaded, Range
    <3> QED BY <1>1, <2>4, <2>5, <3>1, <3>3 DEF RulesInv
  <2>6. CASE /\ ran_out' = TRUE
             /\ \E k \in 0 .. Len(f.rules) - 1 : rules' = rules \o SubSeq(Parsed(f), 1, k)
    <3>1. PICK k \in 0 .. Len(f.rules) - 1 : rules' = rules \o SubSeq(Parsed(f), 1, k)
      BY <2>6
    <3>2. k \in Nat /\ k <= Len(Parsed(f))
      BY <2>2
    <3>3. SubSeq(Parsed(f), 1, k) \in Seq(SoundRules)
      BY <2>3, <3>2, PrefixSeq
    <3>4. rules' \in Seq(SoundRules)
      BY <1>3, <3>1, <3>3, ConcatSeq
    <3> QED BY <2>6, <3>4
  <2> QED BY <1>6, <2>5, <2>6 DEF LoadFile, Sound
<1> QED BY <1>5, <1>6

\* Every step keeps what is loaded, and what is still to load, together sound.
LEMMA RulesStep ==
    ASSUME RulesInv, [Next]_vars
    PROVE  RulesInv'
<1> USE DEF cli, walk, lists
<1>1. CASE ParseOption \/ ParseTarget
  <2>1. /\ pc = "args" /\ pc' = "args" /\ UNCHANGED <<rules, to_load, pass, tree>>
    BY <1>1 DEF ParseOption, ParseTarget
  <2> QED BY <2>1, NoRulesYet DEF RulesInv
<1>2. CASE Usage \/ NotExtracted
  <2>1. /\ pc = "args" /\ pc' = "done" /\ UNCHANGED <<rules, to_load, pass, tree>>
    BY <1>2 DEF Usage, NotExtracted
  <2> QED BY <2>1, NoRulesYet DEF RulesInv
<1>3. CASE ScanTarget \/ Extracted
  <2>1. /\ pc = "args" /\ pc' = "walk" /\ pass' = 1 /\ UNCHANGED <<rules, to_load>>
    BY <1>3 DEF ScanTarget, Extracted, StartWalk
  <2> QED BY <2>1, PassesAre, NoRulesYet DEF RulesInv
<1>4. CASE \E e, p : SkipEntry(e, p) \/ EnterDirectory(e, p) \/ VisitFile(e, p)
  <2>1. PICK e, p : SkipEntry(e, p) \/ EnterDirectory(e, p) \/ VisitFile(e, p)
    BY <1>4
  <2>2. CASE SkipEntry(e, p) \/ EnterDirectory(e, p)
    <3>1. UNCHANGED <<rules, to_load, rules_dir, pass, tree, pc, ran_out>>
      BY <2>2 DEF SkipEntry, EnterDirectory
    <3> QED BY <3>1, RulesKept
  <2>3. CASE VisitFile(e, p)
    BY <2>3, VisitKeeps, RulesKept
  <2> QED BY <2>1, <2>2, <2>3
<1>5. CASE CloseDirectory
  <2>1. UNCHANGED <<rules, to_load, rules_dir, pass, tree, pc, ran_out>>
    BY <1>5 DEF CloseDirectory
  <2> QED BY <2>1, RulesKept
<1>6. CASE NextPass
  <2>1. /\ pc = "walk" /\ pc' = "walk" /\ pass < ComponentPass /\ pass' = pass + 1
        /\ UNCHANGED <<rules, to_load>>
    BY <1>6 DEF NextPass, StartWalk
  <2>2. pass \in Nat /\ pass <= ComponentPass /\ pass' \in Nat /\ pass' <= ComponentPass
    BY <2>1, PassesAre DEF RulesInv
  <2> QED BY <2>1, <2>2, NoRulesYet DEF RulesInv
<1>7. CASE LoadRules
  <2>1. /\ pc = "walk" /\ pass = ComponentPass /\ pc' = "rules"
        /\ UNCHANGED <<rules, rules_dir, pass, tree, ran_out>>
    BY <1>7 DEF LoadRules
  <2>2. rules = <<>> /\ to_load = {}
    BY <2>1, PassesAre DEF RulesInv
  <2>3. to_load' = DirFiles
    BY <1>7, <2>2 DEF LoadRules, DirFiles
  <2>4. DirFiles' = DirFiles /\ SoundRules' = SoundRules
    BY <2>1 DEF DirFiles, SoundRules
  <2>5. SoundRules \subseteq SoundOf(to_load')
    BY <2>3, SoundRulesAre
  <2> QED BY <2>1, <2>2, <2>3, <2>4, <2>5 DEF RulesInv, RulesLoaded
<1>8. CASE \E f \in to_load : LoadFile(f)
  BY <1>8, LoadFileStep
<1>9. CASE ScanRules
  <2>1. /\ pc = "rules" /\ to_load = {} /\ UNCHANGED <<rules, to_load, rules_dir, tree>>
        /\ \/ pc' = "walk" /\ pass' = RulePass /\ UNCHANGED ran_out
           \/ pc' = "cve" /\ pass' = pass /\ ran_out' = TRUE
    BY <1>9 DEF ScanRules, StartWalk
  <2>2. SoundOf(to_load) = {}
    BY <2>1 DEF SoundOf
  <2>3. Loaded' = Loaded /\ SoundRules' = SoundRules /\ DirFiles' = DirFiles
    BY <2>1 DEF Loaded, SoundRules, DirFiles
  <2>4. pass' \in Nat /\ ~(pc' = "walk" /\ pass' <= ComponentPass)
    BY <2>1, PassesAre DEF RulesInv
  <2>5. ~ran_out' => SoundRules \subseteq Loaded
    BY <2>1, <2>2 DEF RulesInv
  <2>6. ComponentPass' = ComponentPass
    BY DEF ComponentPass
  <2> QED BY <2>1, <2>3, <2>4, <2>5, <2>6 DEF RulesInv
<1>10. CASE WalksDone
  <2>1. /\ pc' = "cve" /\ UNCHANGED <<rules, to_load, rules_dir, pass, tree, ran_out>>
        /\ \/ pc = "walk" /\ rules_dir = None
           \/ pc = "walk" /\ pass = RulePass
           \/ pc = "rules" /\ to_load = {} /\ rules = <<>>
    BY <1>10 DEF WalksDone
  <2>2. Loaded' = Loaded /\ SoundRules' = SoundRules /\ DirFiles' = DirFiles
    BY <2>1 DEF Loaded, SoundRules, DirFiles
  <2>3. rules_dir # None /\ ~ran_out => SoundRules \subseteq Loaded
    BY <2>1 DEF RulesInv, RulesLoaded, SoundOf
  <2> QED BY <2>1, <2>2, <2>3 DEF RulesInv
<1>11. CASE MatchCves \/ Report
  <2>1. /\ pc \in {"cve", "report"} /\ pc' \in {"report", "done"}
        /\ UNCHANGED <<rules, to_load, rules_dir, pass, tree>>
        /\ ran_out' = ran_out \/ ran_out' = TRUE
    BY <1>11 DEF MatchCves, Report
  <2>2. Loaded' = Loaded /\ SoundRules' = SoundRules /\ DirFiles' = DirFiles
    BY <2>1 DEF Loaded, SoundRules, DirFiles
  <2>3. rules_dir # None /\ ~ran_out' => SoundRules \subseteq Loaded
    BY <2>1 DEF RulesInv, RulesLoaded
  <2> QED BY <2>1, <2>2, <2>3 DEF RulesInv
<1>12. CASE UNCHANGED vars
  <2>1. UNCHANGED <<rules, to_load, rules_dir, pass, tree, pc, ran_out>>
    BY <1>12 DEF vars
  <2> QED BY <2>1, RulesKept
<1> QED
  BY <1>1, <1>2, <1>3, <1>4, <1>5, <1>6, <1>7, <1>8, <1>9, <1>10, <1>11, <1>12 DEF Next

\* For any trees, rule directories and order in which they are listed, and when
\* memory runs out: no rule of a file that is not sound is loaded, and without
\* that failure every rule of every sound file is.  (yaml_rules.c.)
THEOREM RulesWholeHolds == Spec => []RulesWhole
<1>1. Init => RulesInv
  BY DEF Init, RulesInv, RulesLoaded
<1>2. RulesInv /\ [Next]_vars => RulesInv'
  BY RulesStep
<1>3. RulesInv => RulesWhole
  <2> SUFFICES ASSUME RulesInv PROVE RulesWhole
    OBVIOUS
  <2>1. Loaded \subseteq SoundRules
    BY DEF RulesInv, Loaded, Range
  <2> QED BY <2>1 DEF RulesInv, RulesLoaded, RulesWhole
<1> QED BY <1>1, <1>2, <1>3, PTL DEF Spec

-----------------------------------------------------------------------------
(* Sums.  The function is recursive: that one with its equation exists     *)
(* follows from the least length for which it would not.                   *)

\* A nonempty set of natural numbers has a least element.
LEMMA LeastIndex ==
    ASSUME NEW T, T \subseteq Nat, T # {}
    PROVE  \E x \in T : \A y \in T : x <= y
<1> DEFINE R == {ss \in Nat \X Nat : ss[1] < ss[2]}
<1>1. IsWellFoundedOn(R, Nat)
  BY NatLessThanWellFounded DEF OpToRel
<1>2. \A x, y \in Nat : x < y => <<x, y>> \in R
  OBVIOUS
<1> HIDE DEF R
<1>3. PICK x \in T : \A y \in T : ~ (<<y, x>> \in R)
  BY <1>1, WFMin
<1>4. ASSUME NEW y \in T PROVE x <= y
  <2>1. x \in Nat /\ y \in Nat /\ ~ (y < x)
    BY <1>2, <1>3
  <2> QED BY <2>1
<1> QED BY <1>4

IsSums(w, m, f) == f = [n \in 0 .. m |-> IF n = 0 THEN 0 ELSE f[n - 1] + w[n]]

\* There are sums of any lengths.
LEMMA SumsExist ==
    ASSUME NEW m \in Nat, NEW w \in [1 .. m -> Nat], NEW l \in 0 .. m
    PROVE  \E f \in [0 .. l -> Nat] : IsSums(w, l, f)
<1> DEFINE T == {k \in 0 .. m : ~ \E f \in [0 .. k -> Nat] : IsSums(w, k, f)}
<1>0. T \subseteq Nat
  OBVIOUS
<1>1. ASSUME T # {} PROVE FALSE
  <2>1. PICK k \in T : \A j \in T : k <= j
    <3> HIDE DEF T
    <3> QED BY <1>0, <1>1, LeastIndex
  <2>2. k # 0
    <3>1. IsSums(w, 0, [n \in 0 .. 0 |-> 0]) /\ [n \in 0 .. 0 |-> 0] \in [0 .. 0 -> Nat]
      BY DEF IsSums
    <3> QED BY <2>1, <3>1
  <2>3. k \in 1 .. m /\ k - 1 \in 0 .. m /\ k - 1 \notin T
    <3>1. k \in 0 .. m
      OBVIOUS
    <3>2. k \in 1 .. m /\ k - 1 \in 0 .. m /\ ~(k <= k - 1)
      BY <2>2, <3>1
    <3> QED BY <2>1, <3>2
  <2>4. PICK f \in [0 .. k - 1 -> Nat] : IsSums(w, k - 1, f)
    BY <2>3
  <2> DEFINE g == [n \in 0 .. k |-> IF n = k THEN f[k - 1] + w[k] ELSE f[n]]
  <2>5. g \in [0 .. k -> Nat]
    BY <2>3, <2>4
  <2>6. ASSUME NEW n \in 0 .. k
        PROVE  g[n] = IF n = 0 THEN 0 ELSE g[n - 1] + w[n]
    <3>1. CASE n = k
      <4>1. n # 0 /\ n - 1 \in 0 .. k /\ n - 1 # k
        BY <2>3, <3>1
      <4> QED BY <3>1, <4>1
    <3>2. CASE n # k
      <4>1. n \in 0 .. k - 1 /\ (n # 0 => n - 1 \in 0 .. k /\ n - 1 # k)
        BY <2>3, <3>2
      <4>2. f[n] = IF n = 0 THEN 0 ELSE f[n - 1] + w[n]
        BY <2>4, <4>1 DEF IsSums
      <4> QED BY <3>2, <4>1, <4>2
    <3> QED BY <3>1, <3>2
  <2> HIDE DEF g
  <2>7. IsSums(w, k, g)
    BY <2>5, <2>6 DEF IsSums
  <2> QED BY <2>1, <2>5, <2>7
<1> QED BY <1>1

\* Two rows of numbers that begin alike, and their sums.
SumAlike(w, u, m, f, g) ==
    \A n \in 0 .. m :
        /\ f[n] = IF n = 0 THEN 0 ELSE f[n - 1] + w[n]
        /\ g[n] = IF n = 0 THEN 0 ELSE g[n - 1] + u[n]
        /\ n # 0 => w[n] = u[n]

\* Sums of the same lengths are the same.
LEMMA SumsAgree ==
    ASSUME NEW w, NEW u, NEW m \in Nat, NEW f, NEW g, SumAlike(w, u, m, f, g)
    PROVE  f[m] = g[m]
<1> DEFINE T == {k \in 0 .. m : f[k] # g[k]}
<1>0. T \subseteq Nat
  OBVIOUS
<1>1. ASSUME T # {} PROVE FALSE
  <2>1. PICK k \in T : \A j \in T : k <= j
    <3> HIDE DEF T
    <3> QED BY <1>0, <1>1, LeastIndex
  <2>2. /\ f[k] = IF k = 0 THEN 0 ELSE f[k - 1] + w[k]
        /\ g[k] = IF k = 0 THEN 0 ELSE g[k - 1] + u[k]
        /\ k # 0 => w[k] = u[k]
    BY <2>1 DEF SumAlike
  <2>3. k # 0
    BY <2>1, <2>2
  <2>4. k \in 1 .. m /\ k - 1 \in 0 .. m /\ k - 1 \notin T
    BY <2>1, <2>3
  <2>5. f[k - 1] = g[k - 1]
    BY <2>4
  <2> QED BY <2>1, <2>2, <2>4, <2>5
<1> QED BY <1>1

\* What Sums computes.
LEMMA SumsAre ==
    ASSUME NEW m \in Nat, NEW w \in [1 .. m -> Nat]
    PROVE  /\ Sums(w) \in [0 .. m -> Nat]
           /\ Sums(w)[0] = 0
           /\ \A n \in 1 .. m : Sums(w)[n] = Sums(w)[n - 1] + w[n]
<1> DEFINE F(f) == [n \in {0} \cup DOMAIN w |-> IF n = 0 THEN 0 ELSE f[n - 1] + w[n]]
<1>1. PICK f \in [0 .. m -> Nat] : IsSums(w, m, f)
  <2>1. m \in 0 .. m
    OBVIOUS
  <2> QED BY <2>1, SumsExist
<1>2. {0} \cup DOMAIN w = 0 .. m
  OBVIOUS
<1>3. f = F(f)
  BY <1>1, <1>2 DEF IsSums
<1>4. Sums(w) = CHOOSE g : g = F(g)
  BY DEF Sums
<1> HIDE DEF F
<1>5. Sums(w) = F(Sums(w))
  BY <1>3, <1>4
<1> DEFINE s == Sums(w)
<1>6. IsSums(w, m, s)
  BY <1>2, <1>5 DEF F, IsSums
<1> HIDE DEF s
<1>7. ASSUME NEW n \in 0 .. m PROVE s[n] = f[n]
  <2>1. SumAlike(w, w, n, f, s)
    BY <1>1, <1>6 DEF SumAlike, IsSums
  <2>2. n \in Nat
    OBVIOUS
  <2> QED BY <2>1, <2>2, SumsAgree
<1>8. s = f
  <2>1. s = [n \in 0 .. m |-> s[n]]
    BY <1>6 DEF IsSums
  <2>2. f = [n \in 0 .. m |-> f[n]]
    OBVIOUS
  <2> QED BY <1>7, <2>1, <2>2
<1>9. /\ s \in [0 .. m -> Nat] /\ s[0] = 0
      /\ \A n \in 1 .. m : s[n] = s[n - 1] + w[n]
  <2>1. s \in [0 .. m -> Nat]
    BY <1>8
  <2>2. \A n \in 0 .. m : f[n] = IF n = 0 THEN 0 ELSE f[n - 1] + w[n]
    BY <1>1 DEF IsSums
  <2> QED BY <1>8, <2>1, <2>2
<1> QED BY <1>9 DEF s

\* The sums of the first numbers depend on nothing behind them.
LEMMA SumsPrefix ==
    ASSUME NEW m \in Nat, NEW w \in [1 .. m -> Nat], NEW l \in Nat, NEW u \in [1 .. l -> Nat],
           NEW n \in Nat, n <= m, n <= l, \A j \in 1 .. n : w[j] = u[j]
    PROVE  Sums(w)[n] = Sums(u)[n]
<1> DEFINE f == Sums(w)
           g == Sums(u)
<1>1. f[0] = 0 /\ \A j \in 1 .. m : f[j] = f[j - 1] + w[j]
  BY SumsAre
<1>2. g[0] = 0 /\ \A j \in 1 .. l : g[j] = g[j - 1] + u[j]
  BY SumsAre
<1> HIDE DEF f, g
<1>3. SumAlike(w, u, n, f, g)
  BY <1>1, <1>2 DEF SumAlike
<1>4. f[n] = g[n]
  BY <1>3, SumsAgree
<1> QED BY <1>4 DEF f, g

\* Sums of natural numbers never go down.
LEMMA SumsGrow ==
    ASSUME NEW m \in Nat, NEW w \in [1 .. m -> Nat], NEW h \in 0 .. m, NEW j \in 0 .. m, h <= j
    PROVE  Sums(w)[h] <= Sums(w)[j]
<1> DEFINE f == Sums(w)
           T == {k \in h .. m : ~(f[h] <= f[k])}
<1>1. f \in [0 .. m -> Nat] /\ \A n \in 1 .. m : f[n] = f[n - 1] + w[n]
  BY SumsAre
<1> HIDE DEF f
<1>2. T \subseteq Nat
  OBVIOUS
<1>3. ASSUME T # {} PROVE FALSE
  <2>1. PICK k \in T : \A n \in T : k <= n
    <3> HIDE DEF T
    <3> QED BY <1>2, <1>3, LeastIndex
  <2>2. k # h /\ k \in h .. m
    BY <1>1, <2>1
  <2>3. k - 1 \in h .. m /\ k \in 1 .. m /\ k - 1 \in 0 .. m /\ ~(k <= k - 1)
    BY <2>2
  <2>4. f[h] <= f[k - 1]
    BY <2>1, <2>3
  <2>5. f[k] = f[k - 1] + w[k] /\ w[k] \in Nat /\ f[k - 1] \in Nat /\ f[h] \in Nat
    BY <1>1, <2>3
  <2> QED BY <2>1, <2>4, <2>5
<1>4. j \in h .. m
  OBVIOUS
<1> QED BY <1>3, <1>4 DEF f

-----------------------------------------------------------------------------
(* The levels of a tree.                                                   *)

Root(t)    == [node |-> t.root, names |-> <<>>, links |-> 0]
Wider(t, L) == UNION {Below(t, x) : x \in L}
IsLevels(t, m, f) == f = [k \in 0 .. m |-> IF k = 0 THEN {Root(t)} ELSE Wider(t, f[k - 1])]

\* There are levels down to any depth.
LEMMA LevelsExist ==
    ASSUME NEW t, NEW m \in Nat
    PROVE  \E f : IsLevels(t, m, f)
<1> DEFINE T == {k \in Nat : ~ \E f : IsLevels(t, k, f)}
<1>0. T \subseteq Nat
  OBVIOUS
<1>1. ASSUME T # {} PROVE FALSE
  <2>1. PICK k \in T : \A j \in T : k <= j
    <3> HIDE DEF T
    <3> QED BY <1>0, <1>1, LeastIndex
  <2>2. k # 0
    <3>1. IsLevels(t, 0, [n \in 0 .. 0 |-> {Root(t)}])
      BY DEF IsLevels
    <3> QED BY <2>1, <3>1
  <2>3. k \in Nat /\ k - 1 \in Nat /\ k - 1 \notin T
    <3>1. k \in Nat
      OBVIOUS
    <3>2. k - 1 \in Nat /\ ~(k <= k - 1)
      BY <2>2, <3>1
    <3> QED BY <2>1, <3>1, <3>2
  <2>4. PICK f : IsLevels(t, k - 1, f)
    BY <2>3
  <2> DEFINE g == [n \in 0 .. k |-> IF n = k THEN Wider(t, f[k - 1]) ELSE f[n]]
  <2>6. ASSUME NEW n \in 0 .. k
        PROVE  g[n] = IF n = 0 THEN {Root(t)} ELSE Wider(t, g[n - 1])
    <3>1. CASE n = k
      <4>1. n # 0 /\ n - 1 \in 0 .. k /\ n - 1 # k
        BY <2>2, <2>3, <3>1
      <4> QED BY <3>1, <4>1
    <3>2. CASE n # k
      <4>1. n \in 0 .. k - 1 /\ (n # 0 => n - 1 \in 0 .. k /\ n - 1 # k)
        BY <2>3, <3>2
      <4>2. f[n] = IF n = 0 THEN {Root(t)} ELSE Wider(t, f[n - 1])
        BY <2>4, <4>1 DEF IsLevels
      <4> QED BY <3>2, <4>1, <4>2
    <3> QED BY <3>1, <3>2
  <2>7. g = [n \in 0 .. k |-> g[n]]
    OBVIOUS
  <2> HIDE DEF g
  <2>8. IsLevels(t, k, g)
    BY <2>6, <2>7 DEF IsLevels
  <2> QED BY <2>1, <2>8
<1> QED BY <1>1

\* The equation of Levels.
LEMMA LevelsAre ==
    ASSUME NEW t
    PROVE  /\ Levels(t)[0] = {Root(t)}
           /\ \A k \in 1 .. MaxDepth : Levels(t)[k] = UNION {Below(t, x) : x \in Levels(t)[k - 1]}
<1> DEFINE F(f) == [k \in 0 .. MaxDepth |-> IF k = 0 THEN {Root(t)} ELSE Wider(t, f[k - 1])]
<1>0. MaxDepth \in Nat
  BY DepthAssumption
<1>1. PICK f : f = F(f)
  BY <1>0, LevelsExist DEF IsLevels
<1>2. Levels(t) = CHOOSE g : g = F(g)
  BY DEF Levels, Root, Wider
<1> HIDE DEF F
<1>3. Levels(t) = F(Levels(t))
  BY <1>1, <1>2
<1> DEFINE s == Levels(t)
<1> HIDE DEF s
<1>4. s = [k \in 0 .. MaxDepth |-> IF k = 0 THEN {Root(t)} ELSE Wider(t, s[k - 1])]
  BY <1>3 DEF F, s
<1>5. /\ s[0] = {Root(t)}
      /\ \A k \in 1 .. MaxDepth : s[k] = Wider(t, s[k - 1])
  <2>1. ASSUME NEW k \in 0 .. MaxDepth
        PROVE  s[k] = IF k = 0 THEN {Root(t)} ELSE Wider(t, s[k - 1])
    BY <1>4
  <2>2. 0 \in 0 .. MaxDepth /\ \A k \in 1 .. MaxDepth : k \in 0 .. MaxDepth /\ k # 0
    BY <1>0
  <2> QED BY <2>1, <2>2
<1> QED BY <1>5 DEF s, Wider

\* A way down, by name.
Child(t, x, n) ==
    [node |-> Node(t, x.node, n).node, names |-> Append(x.names, n),
     links |-> x.links + Node(t, x.node, n).links]

\* An entry of a level is an entry of a directory of the level above.
LEMMA LevelBelow ==
    ASSUME NEW t, NEW k \in 1 .. MaxDepth, NEW y
    PROVE  y \in Levels(t)[k] <=>
             \E x \in Levels(t)[k - 1] :
                /\ x.node \in DOMAIN t.entries /\ x.node \notin t.unreadable
                /\ \E e \in t.entries[x.node] : y = Child(t, x, e.name)
                /\ y.links <= MAX_LINKS
<1>1. Levels(t)[k] = UNION {Below(t, x) : x \in Levels(t)[k - 1]}
  BY LevelsAre
<1>2. ASSUME NEW x
      PROVE  y \in Below(t, x) <=>
                /\ x.node \in DOMAIN t.entries /\ x.node \notin t.unreadable
                /\ \E e \in t.entries[x.node] : y = Child(t, x, e.name)
                /\ y.links <= MAX_LINKS
  BY DEF Below, Child
<1> QED BY <1>1, <1>2

NamesOf(t) == UNION {{e.name : e \in t.entries[d]} : d \in DOMAIN t.entries}

\* What the elements of a level are.
IsPlace(t, k, y) ==
    /\ y = [node |-> y.node, names |-> y.names, links |-> y.links]
    /\ y.names \in Seq(NamesOf(t)) /\ Len(y.names) = k /\ y.links \in Nat

\* How many links an entry is, 0 or 1.
LEMMA NodeLinks == ASSUME NEW t, NEW d, NEW n PROVE Node(t, d, n).links \in Nat
BY DEF Node

\* An entry of a place is a place one level further down.
LEMMA ChildIs ==
    ASSUME NEW t, NEW k \in Nat, NEW x, IsPlace(t, k, x), NEW n \in NamesOf(t)
    PROVE  LET y == Child(t, x, n)
           IN /\ IsPlace(t, k + 1, y)
              /\ y.names[k + 1] = n
              /\ \A h \in 1 .. k : y.names[h] = x.names[h]
<1> DEFINE y == Child(t, x, n)
<1>1. /\ y.node = Node(t, x.node, n).node /\ y.names = Append(x.names, n)
      /\ y.links = x.links + Node(t, x.node, n).links
      /\ y = [node |-> y.node, names |-> y.names, links |-> y.links]
  BY DEF Child
<1>2. y.links \in Nat
  BY <1>1, NodeLinks DEF IsPlace
<1>3. /\ y.names \in Seq(NamesOf(t)) /\ Len(y.names) = k + 1
      /\ y.names[k + 1] = n /\ \A h \in 1 .. k : y.names[h] = x.names[h]
  <2>1. x.names \in Seq(NamesOf(t)) /\ Len(x.names) = k
    BY DEF IsPlace
  <2> HIDE DEF y
  <2> QED BY <1>1, <2>1
<1> HIDE DEF y
<1>4. IsPlace(t, k + 1, y)
  BY <1>1, <1>2, <1>3 DEF IsPlace
<1> QED BY <1>3, <1>4 DEF y

\* Every entry of a level has as many names as the level is deep.
LEMMA LevelsArePlaces ==
    ASSUME NEW t, NEW k \in 0 .. MaxDepth, NEW y \in Levels(t)[k]
    PROVE  IsPlace(t, k, y)
<1> DEFINE T == {j \in 0 .. MaxDepth : ~ \A z \in Levels(t)[j] : IsPlace(t, j, z)}
<1>0. T \subseteq Nat
  OBVIOUS
<1>1. ASSUME T # {} PROVE FALSE
  <2>1. PICK j \in T : \A h \in T : j <= h
    <3> HIDE DEF T
    <3> QED BY <1>0, <1>1, LeastIndex
  <2>2. j # 0
    <3>1. IsPlace(t, 0, Root(t))
      BY DEF IsPlace, Root
    <3>2. Levels(t)[0] = {Root(t)}
      BY LevelsAre
    <3> QED BY <2>1, <3>1, <3>2
  <2>3. j \in 1 .. MaxDepth /\ j - 1 \in 0 .. MaxDepth /\ j - 1 \notin T
    <3>1. j \in 0 .. MaxDepth
      OBVIOUS
    <3>2. j \in 1 .. MaxDepth /\ j - 1 \in 0 .. MaxDepth /\ ~(j <= j - 1)
      BY <2>2, <3>1, DepthAssumption
    <3> QED BY <2>1, <3>2
  <2>4. ASSUME NEW z \in Levels(t)[j] PROVE IsPlace(t, j, z)
    <3>1. PICK x \in Levels(t)[j - 1] :
             /\ x.node \in DOMAIN t.entries
             /\ \E e \in t.entries[x.node] : z = Child(t, x, e.name)
      BY <2>3, LevelBelow
    <3>2. PICK e \in t.entries[x.node] : z = Child(t, x, e.name)
      BY <3>1
    <3>3. e.name \in NamesOf(t)
      BY <3>1 DEF NamesOf
    <3>4. IsPlace(t, j - 1, x)
      BY <2>3
    <3>5. j - 1 \in Nat /\ (j - 1) + 1 = j
      BY <2>3
    <3>6. IsPlace(t, (j - 1) + 1, Child(t, x, e.name))
      BY <3>3, <3>4, <3>5, ChildIs
    <3> QED BY <3>2, <3>5, <3>6
  <2> QED BY <2>1, <2>4
<1> QED BY <1>1

\* The names lead to one place only.
LEMMA NamesLead ==
    ASSUME NEW t, NEW k \in 0 .. MaxDepth, NEW y \in Levels(t)[k], NEW z \in Levels(t)[k],
           y.names = z.names
    PROVE  y = z
<1> DEFINE T == {j \in 0 .. MaxDepth :
                    ~ \A u, v \in Levels(t)[j] : u.names = v.names => u = v}
<1>0. T \subseteq Nat
  OBVIOUS
<1>1. ASSUME T # {} PROVE FALSE
  <2>1. PICK j \in T : \A h \in T : j <= h
    <3> HIDE DEF T
    <3> QED BY <1>0, <1>1, LeastIndex
  <2>2. j # 0
    <3>1. Levels(t)[0] = {Root(t)}
      BY LevelsAre
    <3> QED BY <2>1, <3>1
  <2>3. j \in 1 .. MaxDepth /\ j - 1 \in 0 .. MaxDepth /\ j - 1 \notin T
    <3>1. j \in 0 .. MaxDepth
      OBVIOUS
    <3>2. j \in 1 .. MaxDepth /\ j - 1 \in 0 .. MaxDepth /\ ~(j <= j - 1)
      BY <2>2, <3>1, DepthAssumption
    <3> QED BY <2>1, <3>2
  <2>4. ASSUME NEW u \in Levels(t)[j], NEW v \in Levels(t)[j], u.names = v.names
        PROVE  u = v
    <3>1. PICK x \in Levels(t)[j - 1] :
             /\ x.node \in DOMAIN t.entries
             /\ \E e \in t.entries[x.node] : u = Child(t, x, e.name)
      BY <2>3, LevelBelow
    <3>2. PICK e \in t.entries[x.node] : u = Child(t, x, e.name)
      BY <3>1
    <3>3. PICK w \in Levels(t)[j - 1] :
             /\ w.node \in DOMAIN t.entries
             /\ \E f \in t.entries[w.node] : v = Child(t, w, f.name)
      BY <2>3, LevelBelow
    <3>4. PICK f \in t.entries[w.node] : v = Child(t, w, f.name)
      BY <3>3
    <3>5. /\ x.names \in Seq(NamesOf(t)) /\ Len(x.names) = j - 1
          /\ w.names \in Seq(NamesOf(t)) /\ Len(w.names) = j - 1
      BY <2>3, LevelsArePlaces DEF IsPlace
    <3>6. u.names = Append(x.names, e.name) /\ v.names = Append(w.names, f.name)
      BY <3>2, <3>4 DEF Child
    <3>7. x.names = w.names /\ e.name = f.name
      <4>1. e.name \in NamesOf(t) /\ f.name \in NamesOf(t)
        BY <3>1, <3>3 DEF NamesOf
      <4>2. Append(x.names, e.name) = Append(w.names, f.name)
        BY <2>4, <3>6
      <4>3. x.names \in Seq(NamesOf(t)) /\ w.names \in Seq(NamesOf(t))
        BY <3>5
      <4> DEFINE p == x.names
                 q == w.names
                 a == e.name
                 b == f.name
      <4>4. a \in NamesOf(t) /\ b \in NamesOf(t) /\ Append(p, a) = Append(q, b)
              /\ p \in Seq(NamesOf(t)) /\ q \in Seq(NamesOf(t))
        BY <4>1, <4>2, <4>3
      <4> HIDE DEF p, q, a, b
      <4>5. p = q /\ a = b
        BY ONLY <4>4, AppendInjective
      <4> QED BY <4>5 DEF p, q, a, b
    <3>8. x = w
      BY <2>3, <3>7
    <3> QED BY <3>2, <3>4, <3>7, <3>8
  <2> QED BY <2>1, <2>4
<1> QED BY <1>1

\* Where a place lies, its directories lie above it.
LEMMA Ancestor ==
    ASSUME NEW t, NEW k \in 0 .. MaxDepth, NEW x \in Levels(t)[k], NEW h \in Nat, h < k
    PROVE  \E y \in Levels(t)[h] :
              /\ \A n \in 1 .. h : y.names[n] = x.names[n]
              /\ y.node \in DOMAIN t.entries /\ y.node \notin t.unreadable
              /\ \E e \in t.entries[y.node] :
                    /\ e.name = x.names[h + 1]
                    /\ Child(t, y, e.name) \in Levels(t)[h + 1]
                    /\ h + 1 = k => x = Child(t, y, e.name)
<1> DEFINE Has(z, m) ==
             \E y \in Levels(t)[h] :
              /\ \A n \in 1 .. h : y.names[n] = z.names[n]
              /\ y.node \in DOMAIN t.entries /\ y.node \notin t.unreadable
              /\ \E e \in t.entries[y.node] :
                    /\ e.name = z.names[h + 1]
                    /\ Child(t, y, e.name) \in Levels(t)[h + 1]
                    /\ h + 1 = m => z = Child(t, y, e.name)
           T == {j \in h + 1 .. MaxDepth : ~ \A z \in Levels(t)[j] : Has(z, j)}
<1>0. T \subseteq Nat
  OBVIOUS
<1>1. ASSUME T # {} PROVE FALSE
  <2>1. PICK j \in T : \A m \in T : j <= m
    <3> HIDE DEF T
    <3> QED BY <1>0, <1>1, LeastIndex
  <2>2. j \in h + 1 .. MaxDepth
    BY <2>1
  <2>3. j \in 1 .. MaxDepth /\ j - 1 \in 0 .. MaxDepth /\ j - 1 \in Nat /\ (j - 1) + 1 = j
    BY <2>2, DepthAssumption
  <2>4. ASSUME NEW z \in Levels(t)[j] PROVE Has(z, j)
    <3>1. PICK w \in Levels(t)[j - 1] :
             /\ w.node \in DOMAIN t.entries /\ w.node \notin t.unreadable
             /\ \E e \in t.entries[w.node] : z = Child(t, w, e.name)
      BY <2>3, LevelBelow
    <3>2. PICK e \in t.entries[w.node] : z = Child(t, w, e.name)
      BY <3>1
    <3>3. e.name \in NamesOf(t)
      BY <3>1 DEF NamesOf
    <3>4. IsPlace(t, j - 1, w)
      BY <2>3, LevelsArePlaces
    <3>5. /\ z.names[j] = e.name
          /\ \A n \in 1 .. j - 1 : z.names[n] = w.names[n]
      BY <2>3, <3>2, <3>3, <3>4, ChildIs
    <3>6. CASE j = h + 1
      <4>1. j - 1 = h
        BY <3>6
      <4> QED BY <3>1, <3>2, <3>5, <3>6, <4>1
    <3>7. CASE j # h + 1
      <4>1. j - 1 \in h + 1 .. MaxDepth /\ ~(j <= j - 1)
        BY <2>2, <2>3, <3>7
      <4>2. j - 1 \notin T
        BY <2>1, <4>1
      <4>3. Has(w, j - 1)
        BY <4>1, <4>2
      <4>4. h + 1 \in 1 .. j - 1 /\ \A n \in 1 .. h : n \in 1 .. j - 1
        BY <4>1
      <4>5. w.names[h + 1] = z.names[h + 1] /\ \A n \in 1 .. h : w.names[n] = z.names[n]
        BY <3>5, <4>4
      <4> QED BY <3>7, <4>3, <4>5
    <3> QED BY <3>6, <3>7
  <2> QED BY <2>1, <2>4
<1>2. k \in h + 1 .. MaxDepth
  BY DepthAssumption
<1>3. k \notin T
  BY <1>1
<1> QED BY <1>2, <1>3

-----------------------------------------------------------------------------
(* What the path of an entry names.                                        *)

Place(f) == [node |-> f.node, names |-> f.names, links |-> f.links]

\* An open directory is a place k levels down.
OpenAt(t, k, f) ==
    /\ Place(f) \in Levels(t)[k]
    /\ f.node \in DOMAIN t.entries /\ f.node \notin t.unreadable

\* A path grows by a slash and a name.
LEMMA PathLenAppend ==
    ASSUME NEW t, TreeOK(t), NEW names \in Seq(NamesOf(t)), NEW n \in NamesOf(t)
    PROVE  PathLen(names) \in Nat /\ PathLen(Append(names, n)) = PathLen(names) + 1 + NameLen[n]
<1> DEFINE m == Len(names)
           more == Append(names, n)
           w == [j \in DOMAIN names |-> 1 + NameLen[names[j]]]
           u == [j \in DOMAIN more |-> 1 + NameLen[more[j]]]
<1>1. \A q \in NamesOf(t) : NameLen[q] \in Nat
  BY DEF TreeOK, NamesOf
<1>2. /\ m \in Nat /\ DOMAIN names = 1 .. m
      /\ \A j \in 1 .. m : names[j] \in NamesOf(t)
  OBVIOUS
<1>3. /\ DOMAIN more = 1 .. m + 1 /\ Len(more) = m + 1 /\ more[m + 1] = n
      /\ \A j \in 1 .. m : more[j] = names[j]
  OBVIOUS
<1>4. w \in [1 .. m -> Nat] /\ \A j \in 1 .. m : w[j] = 1 + NameLen[names[j]]
  BY <1>1, <1>2
<1>5. u \in [1 .. m + 1 -> Nat] /\ \A j \in 1 .. m + 1 : u[j] = 1 + NameLen[more[j]]
  <2>1. ASSUME NEW j \in 1 .. m + 1 PROVE more[j] \in NamesOf(t)
    BY <1>2, <1>3
  <2> QED BY <1>1, <1>3, <2>1
<1>6. PathLen(names) = Sums(w)[m] /\ PathLen(more) = Sums(u)[m + 1]
  BY <1>3 DEF PathLen
<1> HIDE DEF w, u, m, more
<1>7. Sums(w) \in [0 .. m -> Nat]
  BY <1>2, <1>4, SumsAre
<1>8. m + 1 \in Nat /\ Sums(u)[m + 1] = Sums(u)[m] + u[m + 1]
  <2>1. m + 1 \in Nat /\ m + 1 \in 1 .. m + 1 /\ (m + 1) - 1 = m
    BY <1>2
  <2>2. \A j \in 1 .. m + 1 : Sums(u)[j] = Sums(u)[j - 1] + u[j]
    BY <1>5, <2>1, SumsAre
  <2> QED BY <2>1, <2>2
<1>9. Sums(w)[m] = Sums(u)[m]
  <2>1. \A j \in 1 .. m : w[j] = u[j]
    BY <1>2, <1>3, <1>4, <1>5
  <2>2. m <= m /\ m <= m + 1
    BY <1>2
  <2> QED BY <1>2, <1>4, <1>5, <1>8, <2>1, <2>2, SumsPrefix
<1>10. u[m + 1] = 1 + NameLen[n] /\ NameLen[n] \in Nat
  BY <1>1, <1>2, <1>3, <1>5
<1>11. Sums(w)[m] \in Nat
  BY <1>2, <1>7
<1> QED BY <1>6, <1>8, <1>9, <1>10, <1>11 DEF more

\* In any tree: a path that names a file or a directory names one that is
\* there under that path, or the directory it was made for.
LEMMA JoinReaches ==
    ASSUME NEW t, TreeOK(t), NEW k \in Nat, k < MaxDepth, NEW f, OpenAt(t, k, f),
           NEW n, NEW p, p = Join(t, f, n),
           p.node \in DOMAIN t.entries \cup DOMAIN t.content
    PROVE  Place(p) = Place(f) \/ Place(p) \in Levels(t)[k + 1]
<1>1. CASE Room(f) <= 0
  BY <1>1 DEF Join, Place
<1>2. CASE ~(Room(f) <= 0)
  <2> DEFINE shown == IF NameLen[n] <= Room(f) THEN n ELSE Cut[<<n, Room(f)>>]
             at == Node(t, f.node, shown)
             E == {e \in t.entries[f.node] : e.name = shown}
             y == Child(t, Place(f), shown)
  <2>1. /\ p.node = IF f.links + at.links > MAX_LINKS THEN None ELSE at.node
        /\ p.names = Append(f.names, shown) /\ p.links = f.links + at.links
    BY <1>2 DEF Join, Reached
  <2>2. p.node # None
    BY DEF TreeOK
  <2>3. E # {}
    <3>1. E = {} => at.node = None
      BY DEF Node
    <3> QED BY <2>1, <2>2, <3>1
  <2>4. ~(f.links + at.links > MAX_LINKS)
    BY <2>1, <2>2
  <2>5. Place(p) = y
    <3>1. y = [node |-> at.node, names |-> Append(f.names, shown), links |-> f.links + at.links]
      BY DEF Child, Place
    <3> QED BY <2>1, <2>4, <3>1 DEF Place
  <2>6. PICK e \in t.entries[f.node] : e.name = shown
    BY <2>3
  <2>7. y.links = f.links + at.links
    BY DEF Child, Place
  <2>8. f.links + at.links <= MAX_LINKS
    <3>1. k \in 0 .. MaxDepth
      BY DepthAssumption
    <3>2. f.links \in Nat
      BY <3>1, LevelsArePlaces DEF OpenAt, IsPlace, Place
    <3>3. at.links \in Nat
      BY NodeLinks
    <3> HIDE DEF at
    <3> QED BY <2>4, <3>2, <3>3, ScanAssumption
  <2>9. k + 1 \in 1 .. MaxDepth /\ (k + 1) - 1 = k
    BY DepthAssumption
  <2>10. y \in Levels(t)[k + 1]
    <3>1. Place(f).node = f.node
      BY DEF Place
    <3>2. y = Child(t, Place(f), e.name)
      BY <2>6
    <3> HIDE DEF y
    <3> QED BY <2>6, <2>7, <2>8, <2>9, <3>1, <3>2, LevelBelow DEF OpenAt
  <2> QED BY <2>5, <2>10
<1> QED BY <1>1, <1>2

\* In a tree that fits: the path of an entry names what the entry leads to.
LEMMA JoinFits ==
    ASSUME NEW t, TreeOK(t), Fits(t), NEW k \in Nat, k < MaxDepth, NEW f, OpenAt(t, k, f),
           f.len = t.len + PathLen(f.names),
           NEW e \in t.entries[f.node], NEW p, p = Join(t, f, e.name)
    PROVE  LET y == Child(t, Place(f), e.name)
           IN /\ IF y.links <= MAX_LINKS THEN Place(p) = y ELSE p.node = None
              /\ p.len = t.len + PathLen(p.names)
<1> DEFINE y == Child(t, Place(f), e.name)
           at == Node(t, f.node, e.name)
<1>1. k \in 0 .. MaxDepth
  BY DepthAssumption
<1>2. f.names \in Seq(NamesOf(t)) /\ f.links \in Nat
  BY <1>1, LevelsArePlaces DEF OpenAt, IsPlace, Place
<1>3. e.name \in NamesOf(t)
  BY DEF OpenAt, NamesOf
<1>4. /\ PathLen(f.names) \in Nat
      /\ PathLen(Append(f.names, e.name)) = PathLen(f.names) + 1 + NameLen[e.name]
  BY <1>2, <1>3, PathLenAppend
<1>5. t.len \in Nat /\ NameLen[e.name] \in Nat \ {0} /\ MAX_PATH \in Nat /\ MAX_LINKS \in Nat
  BY ScanAssumption DEF TreeOK, OpenAt
<1>6. t.len + PathLen(f.names) + 1 + NameLen[e.name] < MAX_PATH
  <2>1. Place(f) \in All(t)
    BY <1>1 DEF OpenAt, All
  <2>2. Place(f).node = f.node /\ Place(f).names = f.names
    BY DEF Place
  <2> QED BY <2>1, <2>2 DEF Fits, OpenAt
<1>7. ~(Room(f) <= 0) /\ NameLen[e.name] <= Room(f)
  BY <1>4, <1>5, <1>6 DEF Room
<1>8. /\ p.node = IF f.links + at.links > MAX_LINKS THEN None ELSE at.node
      /\ p.names = Append(f.names, e.name) /\ p.links = f.links + at.links
      /\ p.len = f.len + 1 + NameLen[e.name]
  BY <1>7 DEF Join, Reached
<1>9. y = [node |-> at.node, names |-> Append(f.names, e.name), links |-> f.links + at.links]
  BY DEF Child, Place
<1>10. at.links \in Nat
  BY NodeLinks
<1> HIDE DEF at, y
<1>11. IF y.links <= MAX_LINKS THEN Place(p) = y ELSE p.node = None
  <2>1. y.links = f.links + at.links
    BY <1>9
  <2>2. y.links <= MAX_LINKS <=> ~(f.links + at.links > MAX_LINKS)
    BY <1>2, <1>5, <1>10, <2>1
  <2> QED BY <1>8, <1>9, <2>2 DEF Place
<1>12. p.len = t.len + PathLen(p.names)
  <2>1. p.len = f.len + 1 + NameLen[e.name]
    BY <1>8
  <2>2. PathLen(p.names) = PathLen(f.names) + 1 + NameLen[e.name]
    BY <1>4, <1>8
  <2> QED BY <1>4, <1>5, <2>1, <2>2
<1> QED BY <1>11, <1>12 DEF y

-----------------------------------------------------------------------------
(* The recursion of a walk, and what is reported on it.                    *)

IsStack(s) == \E S : s \in Seq(S)
IsFrame(f) ==
    f = [node |-> f.node, names |-> f.names, len |-> f.len, links |-> f.links, left |-> f.left]

\* The innermost frame is replaced, is left for a directory in it, or ends.
Moved(s, u, a) ==
    /\ IsStack(u) /\ Len(u) = Len(s) /\ u[1] = a
    /\ \A j \in 2 .. Len(s) : u[j] = s[j]
Pushed(s, u, b, a) ==
    /\ IsStack(u) /\ Len(u) = Len(s) + 1 /\ u[1] = b /\ u[2] = a
    /\ \A j \in 3 .. Len(s) + 1 : u[j] = s[j - 1]
Popped(s, u) ==
    /\ IsStack(u) /\ Len(u) = Len(s) - 1
    /\ \A j \in 1 .. Len(s) - 1 : u[j] = s[j + 1]

\* The deepest frame is the first.
LEMMA StackLen ==
    ASSUME NEW s, IsStack(s), s # <<>> PROVE Len(s) \in Nat \ {0} /\ Head(s) = s[1]
BY DEF IsStack

\* The three things that a step of the walk does to the stack.
LEMMA StackOps ==
    ASSUME NEW s, IsStack(s), s # <<>>, NEW a, NEW b
    PROVE  /\ Moved(s, <<a>> \o Tail(s), a)
           /\ Moved(s, <<>> \o <<a>> \o Tail(s), a)
           /\ Pushed(s, <<b>> \o <<a>> \o Tail(s), b, a)
           /\ Popped(s, Tail(s))
<1>1. PICK S : s \in Seq(S)
  BY DEF IsStack
<1> DEFINE U == S \cup {a, b}
           r == Tail(s)
<1>2. /\ r \in Seq(U) /\ Len(r) = Len(s) - 1 /\ Len(s) \in Nat \ {0}
      /\ \A j \in 1 .. Len(s) - 1 : r[j] = s[j + 1]
  <2>1. s \in Seq(U)
    BY <1>1, SeqMonotonic
  <2> HIDE DEF U
  <2> QED BY <2>1
<1>3. <<a>> \in Seq(U) /\ Len(<<a>>) = 1 /\ <<a>>[1] = a
  OBVIOUS
<1>4. <<b>> \o <<a>> = <<b, a>> /\ <<b, a>> \in Seq(U) /\ Len(<<b, a>>) = 2
  <2>1. Append(<<b>>, a) = <<b, a>>
    <3> DEFINE q == Append(<<b>>, a)
    <3>1. q \in Seq({a, b}) /\ Len(q) = 2 /\ q[1] = b /\ q[2] = a
      OBVIOUS
    <3>2. <<b, a>> \in Seq({a, b}) /\ Len(<<b, a>>) = 2
      OBVIOUS
    <3> HIDE DEF q
    <3>3. \A j \in 1 .. 2 : q[j] = <<b, a>>[j]
      <4>1. \A j \in 1 .. 2 : j = 1 \/ j = 2
        OBVIOUS
      <4> QED BY <3>1, <4>1
    <3>4. q = <<b, a>>
      BY <3>1, <3>2, <3>3, SeqEqual
    <3> QED BY <3>4 DEF q
  <2>2. <<b>> \in Seq(U) /\ a \in U
    OBVIOUS
  <2>3. Append(<<b>>, a) = <<b>> \o <<a>>
    BY <2>2, AppendIsConcat
  <2>4. <<b, a>> \in Seq(U) /\ Len(<<b, a>>) = 2
    OBVIOUS
  <2> QED BY <2>1, <2>3, <2>4
<1>5. <<>> \o <<a>> = <<a>>
  OBVIOUS
<1> HIDE DEF U, r
<1>6. /\ <<a>> \o r \in Seq(U) /\ Len(<<a>> \o r) = Len(s) /\ (<<a>> \o r)[1] = a
      /\ \A j \in 2 .. Len(s) : (<<a>> \o r)[j] = s[j]
  <2>1. <<a>> \o r \in Seq(U) /\ Len(<<a>> \o r) = 1 + Len(r) /\ (<<a>> \o r)[1] = a
    BY <1>2, <1>3, ConcatProperties
  <2>2. ASSUME NEW j \in 2 .. Len(s) PROVE (<<a>> \o r)[j] = s[j]
    <3>1. j - 1 \in 1 .. Len(s) - 1 /\ j \in 1 .. 1 + Len(r) /\ ~(j <= 1) /\ (j - 1) + 1 = j
      BY <1>2
    <3>2. (<<a>> \o r)[j] = r[j - 1]
      BY <1>2, <1>3, <3>1, ConcatProperties
    <3> QED BY <1>2, <3>1, <3>2
  <2> QED BY <1>2, <2>1, <2>2
<1>7. /\ <<b, a>> \o r \in Seq(U) /\ Len(<<b, a>> \o r) = Len(s) + 1
      /\ (<<b, a>> \o r)[1] = b /\ (<<b, a>> \o r)[2] = a
      /\ \A j \in 3 .. Len(s) + 1 : (<<b, a>> \o r)[j] = s[j - 1]
  <2>1. /\ <<b, a>> \o r \in Seq(U) /\ Len(<<b, a>> \o r) = 2 + Len(r)
        /\ (<<b, a>> \o r)[1] = b /\ (<<b, a>> \o r)[2] = a
    BY <1>2, <1>4, ConcatProperties
  <2>2. ASSUME NEW j \in 3 .. Len(s) + 1 PROVE (<<b, a>> \o r)[j] = s[j - 1]
    <3>1. /\ j - 2 \in 1 .. Len(s) - 1 /\ j \in 1 .. 2 + Len(r) /\ ~(j <= 2)
          /\ (j - 2) + 1 = j - 1
      BY <1>2
    <3>2. (<<b, a>> \o r)[j] = r[j - 2]
      BY <1>2, <1>4, <3>1, ConcatProperties
    <3> QED BY <1>2, <3>1, <3>2
  <2> QED BY <1>2, <2>1, <2>2
<1>8. Moved(s, <<a>> \o r, a)
  BY <1>6 DEF Moved, IsStack
<1>9. Pushed(s, <<b, a>> \o r, b, a)
  BY <1>7 DEF Pushed, IsStack
<1>10. Popped(s, r)
  BY <1>2 DEF Popped, IsStack
<1> QED BY <1>4, <1>5, <1>8, <1>9, <1>10 DEF r

\* The frame of a directory that is entered.
Entered(p) == [node |-> p.node, names |-> p.names, len |-> p.len, links |-> p.links,
               left |-> tree.entries[p.node]]

\* What is left of a frame when an entry is taken from it.
LEMMA TakeIs ==
    ASSUME IsStack(stack), stack # <<>>, IsFrame(stack[1]), NEW e
    PROVE  Take(e) = [node |-> stack[1].node, names |-> stack[1].names, len |-> stack[1].len,
                      links |-> stack[1].links, left |-> stack[1].left \ {e}]
<1>1. Head(stack) = stack[1]
  BY StackLen
<1> DEFINE f == stack[1]
<1>2. Take(e) = [f EXCEPT !.left = f.left \ {e}]
  BY <1>1 DEF Take
<1>3. f = [node |-> f.node, names |-> f.names, len |-> f.len, links |-> f.links, left |-> f.left]
  BY DEF IsFrame
<1> HIDE DEF f
<1>4. [f EXCEPT !.left = f.left \ {e}]
         = [node |-> f.node, names |-> f.names, len |-> f.len, links |-> f.links,
            left |-> f.left \ {e}]
  <2>1. \A n, m, l, k, L, K :
          [[node |-> n, names |-> m, len |-> l, links |-> k, left |-> L] EXCEPT !.left = K]
            = [node |-> n, names |-> m, len |-> l, links |-> k, left |-> K]
    OBVIOUS
  <2> QED BY ONLY <1>3, <2>1
<1> QED BY <1>2, <1>4 DEF f

\* How the steps of a walk change the recursion.
LEMMA WalkSteps ==
    ASSUME IsStack(stack)
    PROVE  /\ \A e, p : SkipEntry(e, p) \/ VisitFile(e, p) =>
                stack # <<>> /\ Moved(stack, stack', Take(e))
           /\ \A e, p : EnterDirectory(e, p) =>
                /\ stack # <<>>
                /\ IF Openable(p.node) THEN Pushed(stack, stack', Entered(p), Take(e))
                                       ELSE Moved(stack, stack', Take(e))
           /\ CloseDirectory => stack # <<>> /\ Popped(stack, stack')
<1>1. ASSUME NEW e, NEW p, SkipEntry(e, p) \/ VisitFile(e, p)
      PROVE  stack # <<>> /\ Moved(stack, stack', Take(e))
  <2>1. stack # <<>> /\ stack' = <<Take(e)>> \o Tail(stack)
    BY <1>1 DEF SkipEntry, VisitFile, ReadEntry
  <2> QED BY <2>1, StackOps
<1>2. ASSUME NEW e, NEW p, EnterDirectory(e, p)
      PROVE  /\ stack # <<>>
             /\ IF Openable(p.node) THEN Pushed(stack, stack', Entered(p), Take(e))
                                    ELSE Moved(stack, stack', Take(e))
  <2>1. stack # <<>>
    BY <1>2 DEF EnterDirectory, ReadEntry
  <2>2. CASE Openable(p.node)
    <3>1. stack' = <<Entered(p)>> \o <<Take(e)>> \o Tail(stack)
      BY <1>2, <2>2 DEF EnterDirectory, Entered
    <3> QED BY <2>1, <2>2, <3>1, StackOps
  <2>3. CASE ~Openable(p.node)
    <3>1. stack' = <<>> \o <<Take(e)>> \o Tail(stack)
      BY <1>2, <2>3 DEF EnterDirectory
    <3> QED BY <2>1, <2>3, <3>1, StackOps
  <2> QED BY <2>1, <2>2, <2>3
<1>3. ASSUME CloseDirectory PROVE stack # <<>> /\ Popped(stack, stack')
  <2>1. stack # <<>> /\ stack' = Tail(stack)
    BY <1>3 DEF CloseDirectory
  <2> QED BY <2>1, StackOps
<1> QED BY <1>1, <1>2, <1>3

-----------------------------------------------------------------------------
(* The directories a walk has open.                                        *)

\* An open directory, h levels down or less.
FrameOK(t, h, f) ==
    /\ IsFrame(f) /\ f.left \subseteq t.entries[f.node]
    /\ \E k \in 0 .. h : OpenAt(t, k, f)

\* Why the walk never leaves the tree.
OpenDirs ==
    /\ IsStack(stack) /\ Len(stack) \in Nat /\ Len(stack) <= MAX_OPEN
    /\ pc \in {"walk", "rules", "cve", "report"} => tree \in Trees
    /\ pc = "args" => tree = None /\ stack = <<>>
    /\ \A j \in 1 .. Len(stack) : FrameOK(tree, Len(stack) - j, stack[j])

\* What the path of an entry names: the directory again, or a place.
LEMMA EntryReaches ==
    ASSUME OpenDirs, NEW e, NEW p, ReadEntry(e, p),
           p.node \in DOMAIN tree.entries \cup DOMAIN tree.content
    PROVE  \E k \in 0 .. Len(stack) :
             /\ Place(p) \in Levels(tree)[k] /\ k \in 0 .. MaxDepth
             /\ p.node \in DOMAIN tree.content => k > 0
<1>1. /\ stack # <<>> /\ p = Join(tree, Head(stack), e.name) /\ pc = "walk"
  BY DEF ReadEntry
<1>2. Len(stack) \in Nat \ {0} /\ Head(stack) = stack[1]
  BY <1>1, StackLen DEF OpenDirs
<1>3. tree \in Trees /\ TreeOK(tree)
  BY <1>1, TreesAssumption DEF OpenDirs
<1>4. FrameOK(tree, Len(stack) - 1, stack[1])
  BY <1>2 DEF OpenDirs
<1>5. PICK k \in 0 .. Len(stack) - 1 : OpenAt(tree, k, stack[1])
  BY <1>4 DEF FrameOK
<1>6. /\ k \in Nat /\ k < MaxDepth /\ k \in 0 .. Len(stack) /\ k + 1 \in 0 .. Len(stack)
      /\ k \in 0 .. MaxDepth /\ k + 1 \in 0 .. MaxDepth /\ k + 1 > 0
  BY <1>2, DepthAssumption, ScanAssumption DEF OpenDirs
<1> DEFINE f == stack[1]
<1>7. Place(p) = Place(f) \/ Place(p) \in Levels(tree)[k + 1]
  <2> DEFINE n == e.name
  <2>1. p = Join(tree, f, n) /\ OpenAt(tree, k, f)
    BY <1>1, <1>2, <1>5
  <2> HIDE DEF f, n
  <2> QED BY <1>3, <1>6, <2>1, JoinReaches
<1>8. CASE Place(p) \in Levels(tree)[k + 1]
  BY <1>6, <1>8
<1>9. CASE Place(p) = Place(f)
  <2>1. p.node = f.node
    BY <1>9 DEF Place
  <2>2. p.node \notin DOMAIN tree.content
    BY <1>3, <1>5, <2>1 DEF OpenAt, TreeOK
  <2>3. Place(p) \in Levels(tree)[k]
    BY <1>5, <1>9 DEF OpenAt
  <2> QED BY <1>6, <2>2, <2>3
<1> QED BY <1>7, <1>8, <1>9

\* A walk begins at the root.
LEMMA WalkBegins ==
    ASSUME NEW t \in Trees, NEW n, StartWalk(t, n)
    PROVE  /\ IsStack(stack') /\ Len(stack') \in Nat /\ Len(stack') <= MAX_OPEN
           /\ \A j \in 1 .. Len(stack') : FrameOK(t, Len(stack') - j, stack'[j])
           /\ \/ stack' = <<>> /\ t.root \in t.unreadable
              \/ /\ stack' = <<[node |-> t.root, names |-> <<>>, len |-> t.len, links |-> 0,
                                left |-> t.entries[t.root]]>>
                 /\ t.root \notin t.unreadable
<1> DEFINE f == [node |-> t.root, names |-> <<>>, len |-> t.len, links |-> 0,
                 left |-> t.entries[t.root]]
<1>1. stack' = IF t.root \in t.unreadable THEN <<>> ELSE <<f>>
  BY DEF StartWalk
<1>2. MAX_OPEN \in Nat \ {0}
  BY ScanAssumption
<1>3. CASE t.root \in t.unreadable
  <2>1. stack' = <<>>
    BY <1>1, <1>3
  <2>2. Len(<<>>) = 0 /\ <<>> \in Seq({})
    OBVIOUS
  <2>3. IsStack(stack')
    BY <2>1, <2>2 DEF IsStack
  <2> QED BY <1>2, <1>3, <2>1, <2>2, <2>3
<1>4. CASE t.root \notin t.unreadable
  <2>1. stack' = <<f>>
    BY <1>1, <1>4
  <2>2. FrameOK(t, 0, f)
    <3>1. IsFrame(f) /\ f.left \subseteq t.entries[f.node]
      BY DEF IsFrame
    <3>2. Place(f) = Root(t) /\ f.node = t.root
      BY DEF Place, Root
    <3>3. t.root \in DOMAIN t.entries
      BY TreesAssumption DEF TreeOK
    <3>4. Root(t) \in Levels(t)[0]
      BY LevelsAre
    <3> HIDE DEF f
    <3>5. OpenAt(t, 0, f)
      BY <1>4, <3>2, <3>3, <3>4 DEF OpenAt
    <3>6. 0 \in 0 .. 0
      OBVIOUS
    <3> QED BY <3>1, <3>5, <3>6 DEF FrameOK
  <2> HIDE DEF f
  <2>3. <<f>> \in Seq({f}) /\ Len(<<f>>) = 1 /\ <<f>>[1] = f
    OBVIOUS
  <2>4. IsStack(stack')
    BY <2>1, <2>3 DEF IsStack
  <2>5. \A j \in 1 .. Len(stack') : FrameOK(t, Len(stack') - j, stack'[j])
    <3>1. \A j \in 1 .. 1 : j = 1 /\ 1 - j = 0
      OBVIOUS
    <3> QED BY <2>1, <2>2, <2>3, <3>1
  <2> QED BY <1>2, <1>4, <2>1, <2>3, <2>4, <2>5 DEF f
<1> QED BY <1>3, <1>4

\* The frames behind the innermost one stay what they are.
LEMMA FramesMoved ==
    ASSUME OpenDirs, stack # <<>>, NEW e, Moved(stack, stack', Take(e)), tree' = tree
    PROVE  /\ IsStack(stack') /\ Len(stack') \in Nat /\ Len(stack') <= MAX_OPEN
           /\ \A j \in 1 .. Len(stack') : FrameOK(tree', Len(stack') - j, stack'[j])
<1>1. Len(stack) \in Nat \ {0}
  BY StackLen DEF OpenDirs
<1>2. IsStack(stack') /\ Len(stack') = Len(stack) /\ stack'[1] = Take(e)
  BY DEF Moved
<1>3. FrameOK(tree, Len(stack) - 1, stack[1])
  BY <1>1 DEF OpenDirs
<1>4. FrameOK(tree, Len(stack) - 1, Take(e))
  <2> DEFINE f == stack[1]
             g == [node |-> f.node, names |-> f.names, len |-> f.len, links |-> f.links,
                   left |-> f.left \ {e}]
  <2>1. Take(e) = g
    BY <1>3, TakeIs DEF FrameOK, OpenDirs
  <2>2. IsFrame(g) /\ Place(g) = Place(f) /\ g.node = f.node /\ g.left \subseteq f.left
    BY DEF IsFrame, Place
  <2> HIDE DEF f, g
  <2>3. FrameOK(tree, Len(stack) - 1, f)
    BY <1>3 DEF f
  <2>4. FrameOK(tree, Len(stack) - 1, g)
    BY <2>2, <2>3 DEF FrameOK, OpenAt
  <2> QED BY <2>1, <2>4
<1>5. ASSUME NEW j \in 1 .. Len(stack) PROVE FrameOK(tree, Len(stack) - j, stack'[j])
  <2>1. CASE j = 1
    BY <1>2, <1>4, <2>1
  <2>2. CASE j # 1
    <3>1. j \in 2 .. Len(stack)
      BY <1>1, <2>2
    <3> QED BY <3>1 DEF Moved, OpenDirs
  <2> QED BY <2>1, <2>2
<1> QED BY <1>1, <1>2, <1>5 DEF OpenDirs

\* A directory that is opened is a place of the tree, as those above it are.
LEMMA FramesPushed ==
    ASSUME OpenDirs, NEW e, NEW p, ReadEntry(e, p), p.node \in DOMAIN tree.entries,
           Openable(p.node), Pushed(stack, stack', Entered(p), Take(e)), tree' = tree
    PROVE  /\ IsStack(stack') /\ Len(stack') \in Nat /\ Len(stack') <= MAX_OPEN
           /\ \A j \in 1 .. Len(stack') : FrameOK(tree', Len(stack') - j, stack'[j])
<1> DEFINE n == Len(stack)
<1>1. stack # <<>> /\ n \in Nat \ {0}
  BY StackLen DEF OpenDirs, ReadEntry
<1>2. /\ IsStack(stack') /\ Len(stack') = n + 1
      /\ stack'[1] = Entered(p) /\ stack'[2] = Take(e)
      /\ \A j \in 3 .. n + 1 : stack'[j] = stack[j - 1]
  BY DEF Pushed
<1>3. FrameOK(tree, n - 1, stack[1])
  BY <1>1 DEF OpenDirs
<1>4. FrameOK(tree, n - 1, Take(e))
  <2> DEFINE f == stack[1]
             g == [node |-> f.node, names |-> f.names, len |-> f.len, links |-> f.links,
                   left |-> f.left \ {e}]
  <2>1. Take(e) = g
    BY <1>1, <1>3, TakeIs DEF FrameOK, OpenDirs
  <2>2. IsFrame(g) /\ Place(g) = Place(f) /\ g.node = f.node /\ g.left \subseteq f.left
    BY DEF IsFrame, Place
  <2> HIDE DEF f, g
  <2>3. FrameOK(tree, n - 1, f)
    BY <1>3 DEF f
  <2>4. FrameOK(tree, n - 1, g)
    BY <2>2, <2>3 DEF FrameOK, OpenAt
  <2> QED BY <2>1, <2>4
<1>5. FrameOK(tree, n, Entered(p))
  <2> DEFINE g == Entered(p)
  <2>1. IsFrame(g) /\ Place(g) = Place(p) /\ g.node = p.node /\ g.left = tree.entries[p.node]
    BY DEF Entered, IsFrame, Place
  <2> HIDE DEF g
  <2>2. PICK k \in 0 .. n : Place(p) \in Levels(tree)[k]
    BY EntryReaches
  <2>3. p.node \notin tree.unreadable
    BY DEF Openable
  <2>4. OpenAt(tree, k, g)
    BY <2>1, <2>2, <2>3 DEF OpenAt
  <2>5. FrameOK(tree, n, g)
    BY <2>1, <2>4 DEF FrameOK
  <2> QED BY <2>5 DEF g
<1>6. n + 1 <= MAX_OPEN
  BY <1>1, ScanAssumption DEF Openable, OpenDirs
<1>7. ASSUME NEW j \in 1 .. n + 1 PROVE FrameOK(tree, (n + 1) - j, stack'[j])
  <2>1. CASE j = 1
    <3>1. (n + 1) - j = n
      BY <1>1, <2>1
    <3> QED BY <1>2, <1>5, <2>1, <3>1
  <2>2. CASE j = 2
    <3>1. (n + 1) - j = n - 1
      BY <1>1, <2>2
    <3> QED BY <1>2, <1>4, <2>2, <3>1
  <2>3. CASE j # 1 /\ j # 2
    <3>1. j \in 3 .. n + 1 /\ j - 1 \in 1 .. n /\ (n + 1) - j = n - (j - 1)
      BY <1>1, <2>3
    <3>2. FrameOK(tree, n - (j - 1), stack[j - 1])
      BY <3>1 DEF OpenDirs
    <3> QED BY <1>2, <3>1, <3>2
  <2> QED BY <2>1, <2>2, <2>3
<1> HIDE DEF n
<1> QED BY <1>1, <1>2, <1>6, <1>7

\* A directory that is closed leaves those above it as they were.
LEMMA FramesPopped ==
    ASSUME OpenDirs, stack # <<>>, Popped(stack, stack'), tree' = tree
    PROVE  /\ IsStack(stack') /\ Len(stack') \in Nat /\ Len(stack') <= MAX_OPEN
           /\ \A j \in 1 .. Len(stack') : FrameOK(tree', Len(stack') - j, stack'[j])
<1> DEFINE n == Len(stack)
<1>1. n \in Nat \ {0} /\ n <= MAX_OPEN
  BY StackLen DEF OpenDirs
<1>2. IsStack(stack') /\ Len(stack') = n - 1 /\ \A j \in 1 .. n - 1 : stack'[j] = stack[j + 1]
  BY DEF Popped
<1>3. ASSUME NEW j \in 1 .. n - 1 PROVE FrameOK(tree, (n - 1) - j, stack'[j])
  <2>1. j + 1 \in 1 .. n /\ (n - 1) - j = n - (j + 1)
    BY <1>1
  <2>2. FrameOK(tree, n - (j + 1), stack[j + 1])
    BY <2>1 DEF OpenDirs
  <2> QED BY <1>2, <2>1, <2>2
<1> HIDE DEF n
<1> QED BY <1>1, <1>2, <1>3, ScanAssumption

\* No directory is open at first.
LEMMA OpenDirsInit == Init => OpenDirs
<1> SUFFICES ASSUME Init PROVE OpenDirs
  OBVIOUS
<1>1. <<>> \in Seq({}) /\ Len(<<>>) = 0
  OBVIOUS
<1> QED BY <1>1, ScanAssumption DEF Init, OpenDirs, IsStack

\* Every step keeps the open directories places of the tree.
LEMMA OpenDirsStep == ASSUME OpenDirs, [Next]_vars PROVE OpenDirs'
<1>0. tree \in Trees => tree # None
  BY TreesAssumption
<1>1. CASE UNCHANGED vars
  BY <1>1 DEF vars, cli, walk, lists, OpenDirs
<1>2. CASE ParseOption \/ ParseTarget
  BY <1>2 DEF ParseOption, ParseTarget, walk, OpenDirs
<1>3. CASE Usage \/ NotExtracted
  BY <1>3 DEF Usage, NotExtracted, walk, OpenDirs
<1>4. CASE ScanTarget \/ Extracted
  <2>1. tree' \in Trees /\ StartWalk(tree', 1) /\ pc' = "walk"
    BY <1>4 DEF ScanTarget, Extracted, Trees, StartWalk
  <2> DEFINE t == tree'
  <2>2. /\ IsStack(stack') /\ Len(stack') \in Nat /\ Len(stack') <= MAX_OPEN
        /\ \A j \in 1 .. Len(stack') : FrameOK(t, Len(stack') - j, stack'[j])
    <3>1. t \in Trees /\ StartWalk(t, 1)
      BY <2>1
    <3> HIDE DEF t
    <3> QED BY <3>1, WalkBegins
  <2> QED BY <2>1, <2>2 DEF OpenDirs
<1>5. ASSUME NEW e, NEW p, SkipEntry(e, p) \/ VisitFile(e, p) PROVE OpenDirs'
  <2>1. stack # <<>> /\ Moved(stack, stack', Take(e))
    BY <1>5, WalkSteps DEF OpenDirs
  <2>2. tree' = tree /\ pc = "walk"
    BY <1>5 DEF SkipEntry, VisitFile, ReadEntry
  <2>3. pc' = pc \/ pc' = "done"
    BY <1>5 DEF SkipEntry, VisitFile, Keep
  <2>4. /\ IsStack(stack') /\ Len(stack') \in Nat /\ Len(stack') <= MAX_OPEN
        /\ \A j \in 1 .. Len(stack') : FrameOK(tree', Len(stack') - j, stack'[j])
    BY <2>1, <2>2, FramesMoved
  <2> QED BY <2>2, <2>3, <2>4 DEF OpenDirs
<1>6. ASSUME NEW e, NEW p, EnterDirectory(e, p) PROVE OpenDirs'
  <2>1. /\ tree' = tree /\ pc = "walk" /\ pc' = pc
        /\ ReadEntry(e, p) /\ p.node \in DOMAIN tree.entries
    BY <1>6 DEF EnterDirectory, ReadEntry
  <2>2. /\ stack # <<>>
        /\ IF Openable(p.node) THEN Pushed(stack, stack', Entered(p), Take(e))
                               ELSE Moved(stack, stack', Take(e))
    BY <1>6, WalkSteps DEF OpenDirs
  <2>3. /\ IsStack(stack') /\ Len(stack') \in Nat /\ Len(stack') <= MAX_OPEN
        /\ \A j \in 1 .. Len(stack') : FrameOK(tree', Len(stack') - j, stack'[j])
    <3>1. CASE Openable(p.node)
      BY <2>1, <2>2, <3>1, FramesPushed
    <3>2. CASE ~Openable(p.node)
      BY <2>1, <2>2, <3>2, FramesMoved
    <3> QED BY <3>1, <3>2
  <2> QED BY <2>1, <2>3 DEF OpenDirs
<1>7. CASE CloseDirectory
  <2>1. tree' = tree /\ pc = "walk" /\ pc' = pc
    BY <1>7 DEF CloseDirectory
  <2>2. stack # <<>> /\ Popped(stack, stack')
    BY <1>7, WalkSteps DEF OpenDirs
  <2>3. /\ IsStack(stack') /\ Len(stack') \in Nat /\ Len(stack') <= MAX_OPEN
        /\ \A j \in 1 .. Len(stack') : FrameOK(tree', Len(stack') - j, stack'[j])
    BY <2>1, <2>2, FramesPopped
  <2> QED BY <2>1, <2>3 DEF OpenDirs
<1>8. ASSUME NEW n, StartWalk(tree, n), tree' = tree, pc \in {"walk", "rules"}
      PROVE  OpenDirs'
  <2>1. tree \in Trees /\ pc' = "walk"
    BY <1>8 DEF OpenDirs, StartWalk
  <2>2. /\ IsStack(stack') /\ Len(stack') \in Nat /\ Len(stack') <= MAX_OPEN
        /\ \A j \in 1 .. Len(stack') : FrameOK(tree, Len(stack') - j, stack'[j])
    BY <1>8, <2>1, WalkBegins
  <2> QED BY <1>8, <2>1, <2>2 DEF OpenDirs
<1>9. CASE NextPass
  BY <1>8, <1>9 DEF NextPass
<1>10. CASE ScanRules
  <2>1. CASE StartWalk(tree, RulePass)
    BY <1>8, <1>10, <2>1 DEF ScanRules
  <2>2. CASE pc' = "cve" /\ UNCHANGED <<pass, seen, stack>>
    BY <1>10, <2>2 DEF ScanRules, OpenDirs
  <2> QED BY <1>10, <2>1, <2>2 DEF ScanRules
<1>11. CASE LoadRules \/ WalksDone \/ MatchCves \/ Report \/ \E f \in to_load : LoadFile(f)
  <2>1. /\ tree' = tree /\ stack' = stack
        /\ pc \in {"walk", "rules", "cve", "report"} /\ pc' \in {"rules", "cve", "report", "done"}
    BY <1>11 DEF LoadRules, WalksDone, MatchCves, Report, LoadFile, walk
  <2> QED BY <2>1 DEF OpenDirs
<1>12. QED
  BY <1>1, <1>2, <1>3, <1>4, <1>5, <1>6, <1>7, <1>9, <1>10, <1>11 DEF Next

-----------------------------------------------------------------------------
(* The walks one after another.                                            *)

\* The walks for patterns.
ScanPasses == DOMAIN Detectors \cup {RulePass}

\* The order of the walks, and what the bits of rc say.
NoRuleDir == rules_dir # None /\ rules_dir \notin DOMAIN RuleDirs

PassInv ==
    /\ tree # None => pass \in 1 .. RulePass
    /\ pc \in {"rules", "cve", "report"} => stack = <<>>
    /\ pc = "rules" => pass = ComponentPass
    /\ pc = "cve" /\ ~ran_out => pass = RulePass \/ (pass = ComponentPass /\ rules = <<>>)
    /\ pc # "done" => exit = None
    /\ pc \in {"args", "walk", "rules", "cve"} => "cve" \notin rc
    /\ pc = "args" \/ (pc = "walk" /\ pass <= ComponentPass) => "rules" \notin rc
    /\ pc \in {"rules", "cve"} \/ (pc = "walk" /\ pass = RulePass) => ("rules" \in rc <=> NoRuleDir)
    /\ pc = "report" => cve_dataset # None

\* The numbers of the passes.
LEMMA PassNumbers ==
    /\ ComponentPass \in Nat /\ RulePass = ComponentPass + 1 /\ ComponentPass \in 1 .. RulePass
    /\ 1 \in 1 .. RulePass /\ RulePass \in 1 .. RulePass
    /\ \A q \in DOMAIN Detectors : q \in Nat \ {0} /\ q < ComponentPass
    /\ \A q \in ScanPasses : q \in Nat \ {0} /\ q # ComponentPass
BY ScanAssumption DEF ComponentPass, RulePass, ScanPasses

\* The first pass is due at first.
LEMMA PassInit == Init => PassInv
BY PassNumbers DEF Init, PassInv

\* Every step keeps the passes in order.
LEMMA PassStep == ASSUME OpenDirs, RulesInv, PassInv, [Next]_vars PROVE PassInv'
<1>0. /\ ComponentPass \in Nat /\ RulePass = ComponentPass + 1 /\ ComponentPass \in 1 .. RulePass
      /\ 1 \in 1 .. RulePass /\ RulePass \in 1 .. RulePass
  BY PassNumbers
<1>1. CASE UNCHANGED vars
  BY <1>1 DEF vars, cli, walk, lists, PassInv, NoRuleDir
<1>2. CASE ParseOption \/ ParseTarget
  BY <1>2 DEF ParseOption, ParseTarget, walk, lists, PassInv
<1>3. CASE Usage \/ NotExtracted
  BY <1>3 DEF Usage, NotExtracted, walk, lists, PassInv
<1>4. CASE ScanTarget \/ Extracted
  BY <1>0, <1>4 DEF ScanTarget, Extracted, StartWalk, PassInv
<1>5. ASSUME NEW e, NEW p, SkipEntry(e, p) \/ EnterDirectory(e, p) PROVE PassInv'
  BY <1>5 DEF SkipEntry, EnterDirectory, ReadEntry, cli, lists, PassInv, NoRuleDir
<1>6. ASSUME NEW e, NEW p, VisitFile(e, p) PROVE PassInv'
  <2>1. /\ pc = "walk" /\ tree' = tree /\ pass' = pass /\ rc' = rc /\ UNCHANGED cli
        /\ (pc' = pc /\ exit' = exit) \/ pc' = "done"
    BY <1>6 DEF VisitFile, ReadEntry, Keep
  <2> QED BY <2>1 DEF cli, PassInv, NoRuleDir
<1>7. CASE CloseDirectory
  BY <1>7 DEF CloseDirectory, cli, lists, PassInv, NoRuleDir
<1>8. CASE NextPass
  <2>1. /\ pc = "walk" /\ pass < ComponentPass /\ pc' = "walk" /\ pass' = pass + 1
        /\ tree' = tree /\ rc' = rc /\ exit' = exit
    BY <1>8 DEF NextPass, StartWalk
  <2>2. pass \in Nat
    BY DEF RulesInv
  <2>3. pass + 1 \in 1 .. RulePass /\ pass + 1 <= ComponentPass /\ pass <= ComponentPass
        /\ pass + 1 # RulePass
    BY <1>0, <2>1, <2>2
  <2> QED BY <2>1, <2>3 DEF PassInv
<1>9. CASE LoadRules
  <2>1. /\ pc = "walk" /\ pass = ComponentPass /\ stack = <<>> /\ rules_dir # None
        /\ pc' = "rules" /\ UNCHANGED <<cli, walk, ran_out, exit>>
        /\ IF rules_dir \in DOMAIN RuleDirs THEN rc' = rc ELSE rc' = rc \cup {"rules"}
    BY <1>9 DEF LoadRules
  <2>2. "rules" \notin rc /\ "cve" \notin rc /\ exit = None
    BY <1>0, <2>1 DEF PassInv
  <2> QED BY <2>1, <2>2 DEF cli, walk, PassInv, NoRuleDir
<1>10. ASSUME NEW f \in to_load, LoadFile(f) PROVE PassInv'
  BY <1>10 DEF LoadFile, cli, walk, PassInv, NoRuleDir
<1>11. CASE ScanRules
  <2>1. CASE StartWalk(tree, RulePass)
    BY <1>0, <1>11, <2>1 DEF ScanRules, StartWalk, cli, PassInv, NoRuleDir
  <2>2. CASE ran_out' = TRUE /\ pc' = "cve" /\ UNCHANGED <<pass, seen, stack>>
    BY <1>11, <2>2 DEF ScanRules, cli, PassInv, NoRuleDir
  <2> QED BY <1>11, <2>1, <2>2 DEF ScanRules
<1>12. CASE WalksDone
  <2>1. pc' = "cve" /\ UNCHANGED <<cli, walk, lists, rc, exit>>
    BY <1>12 DEF WalksDone
  <2>2. CASE pc = "walk" /\ stack = <<>> /\ pass = ComponentPass /\ rules_dir = None
    <3>1. rules = <<>> /\ "rules" \notin rc
      BY <1>0, <2>2 DEF RulesInv, PassInv
    <3> QED BY <2>1, <2>2, <3>1 DEF cli, walk, lists, PassInv, NoRuleDir
  <2>3. CASE pc = "walk" /\ stack = <<>> /\ pass = RulePass
    BY <2>1, <2>3 DEF cli, walk, lists, PassInv, NoRuleDir
  <2>4. CASE pc = "rules" /\ to_load = {} /\ rules = <<>>
    BY <2>1, <2>4 DEF cli, walk, lists, PassInv, NoRuleDir
  <2> QED BY <1>12, <2>2, <2>3, <2>4 DEF WalksDone
<1>13. CASE MatchCves
  BY <1>13 DEF MatchCves, cli, walk, PassInv
<1>14. CASE Report
  BY <1>14 DEF Report, walk, PassInv
<1> QED BY <1>1, <1>2, <1>3, <1>4, <1>5, <1>6, <1>7, <1>8, <1>9, <1>10, <1>11, <1>12, <1>13, <1>14
    DEF Next

-----------------------------------------------------------------------------
(* What is reported of a path is in the file the path names.               *)

\* The components of a file, under its path.
LEMMA InFileIs ==
    ASSUME NEW c \in Contents \cup {<<>>}, NEW path
    PROVE  InFile(c, path) = {[component |-> s.component, version |-> s.version, path |-> path] :
                                s \in identify(c)}
<1> DEFINE h == CHOOSE s \in Spoken : s.bytes = c
<1>1. [bytes |-> c, of |-> identify(c)] \in Spoken
  BY DEF Spoken
<1>2. h \in Spoken /\ h.bytes = c
  <2>1. [bytes |-> c, of |-> identify(c)].bytes = c
    OBVIOUS
  <2>2. \E s \in Spoken : s.bytes = c
    BY <1>1, <2>1
  <2> QED BY <2>2
<1> HIDE DEF h
<1>3. PICK b \in Contents \cup {<<>>} : h = [bytes |-> b, of |-> identify(b)]
  BY <1>2 DEF Spoken
<1>4. h.of = identify(c)
  BY <1>2, <1>3
<1> QED BY <1>4 DEF InFile, h

\* Of a file that cannot be opened nothing is reported.
LEMMA NothingInNothing ==
    ASSUME NEW path
    PROVE  InFile(<<>>, path) = {} /\ \A markers : scan_file(<<>>, path, markers) = {}
<1>1. DOMAIN <<>> = {}
  OBVIOUS
<1>2. identify(<<>>) = {}
  BY <1>1 DEF identify, Occurrences
<1>3. InFile(<<>>, path) = {}
  BY <1>2, InFileIs
<1>4. \A pattern : ~Hit(<<>>, pattern)
  BY <1>1 DEF Hit
<1> QED BY <1>3, <1>4 DEF scan_file

\* A regular file that is visited is one of the tree's, under its path.
LEMMA VisitedIsThere ==
    ASSUME OpenDirs, NEW e, NEW p, VisitFile(e, p)
    PROVE  /\ tree \in Trees
           /\ Place(p) \in Files(tree)
           /\ Openable(p.node) => Place(p) \in Readable(tree)
<1>1. ReadEntry(e, p) /\ p.node \in DOMAIN tree.content
  BY DEF VisitFile
<1>2. PICK k \in 0 .. Len(stack) : Place(p) \in Levels(tree)[k] /\ k \in 0 .. MaxDepth
  BY <1>1, EntryReaches
<1>3. Place(p).node = p.node
  BY DEF Place
<1>4. Place(p) \in Files(tree)
  BY <1>1, <1>2, <1>3 DEF Files, All
<1>5. Openable(p.node) => Place(p) \in Readable(tree)
  BY <1>3, <1>4 DEF Openable, Readable
<1> QED BY <1>1, <1>4, <1>5 DEF OpenDirs, ReadEntry

\* What one visit adds to the report.
Seen(p) == IF Openable(p.node) THEN tree.content[p.node] ELSE <<>>

\* What is kept of an entry: all of it, or without a string that was not copied.
LeftOf(g, f) == g = f \/ \E lost \in SUBSET Strings : g = Without(f, lost)

\* What one file adds to a list, whenever memory runs out.
LEMMA KeepAdds ==
    ASSUME NEW list, NEW next, NEW new, Keep(list, next, new)
    PROVE  \A g \in next : g \in list \/ \E f \in new : LeftOf(g, f)
<1>1. CASE next = list \cup new
  BY <1>1 DEF LeftOf
<1>2. CASE \E some \in SUBSET new : Add(list, next, some)
  <2>1. PICK some \in SUBSET new : Add(list, next, some)
    BY <1>2
  <2>2. PICK lost \in [some -> SUBSET Strings] :
           next = list \cup {Without(f, lost[f]) : f \in some}
    BY <2>1 DEF Add
  <2>3. \A f \in some : LeftOf(Without(f, lost[f]), f) /\ f \in new
    BY <2>1, <2>2 DEF LeftOf
  <2> QED BY <2>2, <2>3
<1> QED BY <1>1, <1>2 DEF Keep

\* A description is lost as a whole.
LEMMA LostTogether ==
    ASSUME NEW lost \in SUBSET Strings
    PROVE  "pattern" \in UNION lost <=> "path" \in UNION lost
BY DEF Strings

\* What is left of a finding, and of a component.
LEMMA FindingLeft ==
    ASSUME NEW by, NEW pattern, NEW path, NEW g,
           LeftOf(g, [by |-> by, pattern |-> pattern, path |-> path])
    PROVE  g.by \in {by, None} /\ <<g.pattern, g.path>> \in {<<pattern, path>>, <<None, None>>}
<1> DEFINE f == [by |-> by, pattern |-> pattern, path |-> path]
<1>1. CASE g = f
  BY <1>1
<1>2. CASE \E lost \in SUBSET Strings : g = Without(f, lost)
  <2>1. PICK lost \in SUBSET Strings : g = Without(f, lost)
    BY <1>2
  <2>2. /\ g.by = IF "by" \in UNION lost THEN None ELSE by
        /\ g.pattern = IF "pattern" \in UNION lost THEN None ELSE pattern
        /\ g.path = IF "path" \in UNION lost THEN None ELSE path
    BY <2>1 DEF Without
  <2> QED BY <2>2, LostTogether
<1> QED BY <1>1, <1>2 DEF LeftOf

LEMMA ComponentLeft ==
    ASSUME NEW component, NEW version, NEW path, NEW g,
           LeftOf(g, [component |-> component, version |-> version, path |-> path])
    PROVE  g.component = component /\ g.version = version /\ g.path \in {path, None}
<1> DEFINE f == [component |-> component, version |-> version, path |-> path]
<1>1. CASE g = f
  BY <1>1
<1>2. CASE \E lost \in SUBSET Strings : g = Without(f, lost)
  <2>1. PICK lost \in SUBSET Strings : g = Without(f, lost)
    BY <1>2
  <2>2. "component" \notin UNION lost /\ "version" \notin UNION lost
    BY <2>1 DEF Strings
  <2>3. /\ g.component = IF "component" \in UNION lost THEN None ELSE component
        /\ g.version = IF "version" \in UNION lost THEN None ELSE version
        /\ g.path = IF "path" \in UNION lost THEN None ELSE path
    BY <2>1 DEF Without
  <2> QED BY <2>2, <2>3
<1> QED BY <1>1, <1>2 DEF LeftOf

\* A CVE's finding has no pattern, and none is added to it.
LEMMA CvesHaveNoPattern ==
    ASSUME NEW f \in Cves.findings, NEW g, LeftOf(g, f)
    PROVE  "pattern" \notin DOMAIN g
<1>1. \A x, comp : "pattern" \notin DOMAIN Finding(x, comp)
  BY DEF Finding
<1>2. \A c : \A h \in match_component_entry(c, components) : "pattern" \notin DOMAIN h
  BY <1>1 DEF match_component_entry, match_cve_entry
<1>3. "pattern" \notin DOMAIN f
  BY <1>2 DEF Cves, crimp_cve_match_components
<1>4. DOMAIN g = DOMAIN f
  BY DEF LeftOf, Without
<1> QED BY <1>3, <1>4

\* The match adds what is left of the findings of the data set.
LEMMA MatchAdds ==
    ASSUME MatchCves
    PROVE  \A g \in findings' : g \in findings \/ \E f \in Cves.findings : LeftOf(g, f)
<1>1. CASE findings' = findings \cup Cves.findings
  BY <1>1 DEF LeftOf
<1>2. CASE \E some \in SUBSET Cves.findings : Add(findings, findings', some)
  <2> DEFINE all == Cves.findings
             list == findings
             next == findings'
  <2>1. \E some \in SUBSET all : Add(list, next, some)
    BY <1>2
  <2> HIDE DEF all, list, next
  <2>2. PICK some \in SUBSET all : Add(list, next, some)
    BY <2>1
  <2>3. PICK lost \in [some -> SUBSET Strings] :
           next = list \cup {Without(f, lost[f]) : f \in some}
    BY <2>2 DEF Add
  <2>4. \A f \in some : LeftOf(Without(f, lost[f]), f) /\ f \in all
    BY <2>2, <2>3 DEF LeftOf
  <2>5. \A g \in next : g \in list \/ \E f \in all : LeftOf(g, f)
    BY <2>3, <2>4
  <2> QED BY <2>5 DEF all, list, next
<1> QED BY <1>1, <1>2 DEF MatchCves

\* What a walk looks for is a pattern of a detector or of a sound rule.
LEMMA MarkersAre ==
    ASSUME RulesInv, PassInv, tree # None, pass # ComponentPass
    PROVE  Markers \subseteq AllMarkers
<1>1. CASE pass = RulePass
  <2>1. Loaded \subseteq SoundRules
    BY DEF RulesInv, Loaded, Range
  <2> QED BY <1>1, <2>1 DEF Markers, AllMarkers
<1>2. CASE pass # RulePass
  <2>1. pass \in DOMAIN Detectors
    BY <1>2, ScanAssumption DEF PassInv, ComponentPass, RulePass
  <2> QED BY <1>2, <2>1 DEF Markers, AllMarkers
<1> QED BY <1>1, <1>2

\* The pattern of a finding is in the file, and so is what a component says.
FoundIn(f, m, x) ==
    /\ Hit(tree.content[x.node], m.pattern)
    /\ f.by \in {m.by, None}
    /\ <<f.pattern, f.path>> \in {<<m.pattern, x.names>>, <<None, None>>}

SpokenOf(comp, x) ==
    /\ comp.path \in {x.names, None}
    /\ \E s \in identify(tree.content[x.node]) :
        comp.component = s.component /\ comp.version = s.version

ReportedInv ==
    /\ tree \in Trees \/ (findings = {} /\ components = {})
    /\ \A f \in findings : "pattern" \in DOMAIN f =>
        \E x \in Readable(tree) : \E m \in AllMarkers : FoundIn(f, m, x)
    /\ \A comp \in components : \E x \in Readable(tree) : SpokenOf(comp, x)

\* The invariant speaks of the tree, the rules and the lists.
LEMMA ReportedKept ==
    ASSUME ReportedInv, UNCHANGED <<tree, rules_dir, components>>,
           \A f \in findings' : "pattern" \in DOMAIN f => f \in findings,
           tree \in Trees \/ findings' = {}
    PROVE  ReportedInv'
<1>1. AllMarkers' = AllMarkers /\ Readable(tree)' = Readable(tree)
  BY DEF AllMarkers, SoundRules, Readable, Files, All
<1>2. \A f, m, x : FoundIn(f, m, x)' <=> FoundIn(f, m, x)
  BY DEF FoundIn
<1>3. \A comp, x : SpokenOf(comp, x)' <=> SpokenOf(comp, x)
  BY DEF SpokenOf
<1> QED BY <1>1, <1>2, <1>3 DEF ReportedInv

\* What a visit adds is in the file that is visited.
LEMMA ReportedVisit ==
    ASSUME OpenDirs, RulesInv, PassInv, ReportedInv, NEW e, NEW p, VisitFile(e, p)
    PROVE  ReportedInv'
<1>1. tree' = tree /\ rules_dir' = rules_dir
  BY DEF VisitFile, cli
<1> DEFINE x == Place(p)
<1>2. x.names = p.names /\ x.node = p.node
  BY DEF Place
<1>3. /\ tree \in Trees /\ tree # None /\ x \in Files(tree)
      /\ Openable(p.node) => x \in Readable(tree)
  BY VisitedIsThere, TreesAssumption
<1> HIDE DEF x
<1>4. AllMarkers' = AllMarkers /\ Readable(tree)' = Readable(tree)
  BY <1>1 DEF AllMarkers, SoundRules, Readable, Files, All
<1>5. \A f, m, z : FoundIn(f, m, z)' <=> FoundIn(f, m, z)
  BY <1>1 DEF FoundIn
<1>6. \A comp, z : SpokenOf(comp, z)' <=> SpokenOf(comp, z)
  BY <1>1 DEF SpokenOf
<1>7. CASE pass = ComponentPass
  <2>1. findings' = findings
    BY <1>7 DEF VisitFile
  <2>2. Keep(components, components', InFile(Seen(p), p.names))
    BY <1>7 DEF VisitFile, Seen
  <2>3. ASSUME NEW f \in InFile(Seen(p), p.names), NEW g, LeftOf(g, f)
        PROVE  x \in Readable(tree) /\ SpokenOf(g, x)
    <3>1. Openable(p.node)
      BY <2>3, NothingInNothing DEF Seen
    <3>2. p.node \in DOMAIN tree.content
      BY <1>2, <1>3 DEF Files
    <3>3. tree.content[p.node] \in Contents
      BY <1>3, <3>2 DEF Contents
    <3>4. PICK s \in identify(tree.content[p.node]) :
             f = [component |-> s.component, version |-> s.version, path |-> p.names]
      BY <2>3, <3>1, <3>3, InFileIs DEF Seen
    <3>5. g.component = s.component /\ g.version = s.version /\ g.path \in {p.names, None}
      BY <2>3, <3>4, ComponentLeft
    <3> QED BY <1>2, <1>3, <3>1, <3>4, <3>5 DEF SpokenOf
  <2>4. \A g \in components' : g \in components \/ \E f \in InFile(Seen(p), p.names) : LeftOf(g, f)
    BY <2>2, KeepAdds
  <2>5. \A g \in components' : \E z \in Readable(tree) : SpokenOf(g, z)
    BY <2>3, <2>4 DEF ReportedInv
  <2> QED BY <1>1, <1>3, <1>4, <1>5, <1>6, <2>1, <2>5 DEF ReportedInv
<1>8. CASE pass # ComponentPass
  <2>1. components' = components
    BY <1>8 DEF VisitFile
  <2>2. Keep(findings, findings', scan_file(Seen(p), p.names, Markers))
    BY <1>8 DEF VisitFile, Seen
  <2>3. ASSUME NEW f \in scan_file(Seen(p), p.names, Markers), NEW g, LeftOf(g, f)
        PROVE  x \in Readable(tree) /\ \E m \in AllMarkers : FoundIn(g, m, x)
    <3>1. Openable(p.node)
      BY <2>3, NothingInNothing DEF Seen
    <3>2. PICK m \in Markers : /\ Hit(tree.content[p.node], m.pattern)
                               /\ f = [by |-> m.by, pattern |-> m.pattern, path |-> p.names]
      BY <2>3, <3>1 DEF Seen, scan_file
    <3>3. g.by \in {m.by, None} /\ <<g.pattern, g.path>> \in {<<m.pattern, p.names>>, <<None, None>>}
      BY <2>3, <3>2, FindingLeft
    <3>4. m \in AllMarkers
      BY <1>3, <1>8, <3>2, MarkersAre
    <3> QED BY <1>2, <1>3, <3>1, <3>2, <3>3, <3>4 DEF FoundIn
  <2>4. \A g \in findings' :
          g \in findings \/ \E f \in scan_file(Seen(p), p.names, Markers) : LeftOf(g, f)
    BY <2>2, KeepAdds
  <2>5. \A g \in findings' : "pattern" \in DOMAIN g =>
          \E z \in Readable(tree) : \E m \in AllMarkers : FoundIn(g, m, z)
    BY <2>3, <2>4 DEF ReportedInv
  <2> QED BY <1>1, <1>3, <1>4, <1>5, <1>6, <2>1, <2>5 DEF ReportedInv
<1> QED BY <1>7, <1>8

\* Every step keeps what the lists say true of the tree.
LEMMA ReportedStep ==
    ASSUME OpenDirs, RulesInv, PassInv, ReportedInv, [Next]_vars
    PROVE  ReportedInv'
<1>1. CASE pc = "args"
  <2>1. UNCHANGED <<findings, components>>
    BY <1>1 DEF Next, vars, ParseOption, ParseTarget, Usage, ScanTarget, Extracted, NotExtracted,
                SkipEntry, EnterDirectory, VisitFile, ReadEntry, CloseDirectory, NextPass,
                LoadRules, LoadFile, ScanRules, WalksDone, MatchCves, Report
  <2>2. findings = {} /\ components = {}
    BY <1>1, TreesAssumption DEF OpenDirs, ReportedInv
  <2> QED BY <2>1, <2>2 DEF ReportedInv
<1>2. CASE pc # "args"
  <2>1. CASE UNCHANGED <<tree, rules_dir, findings, components>>
    BY <2>1, ReportedKept DEF ReportedInv
  <2>2. ASSUME NEW e, NEW p, VisitFile(e, p) PROVE ReportedInv'
    BY <2>2, ReportedVisit
  <2>3. CASE MatchCves
    <3>1. UNCHANGED <<tree, rules_dir, components>>
      BY <2>3 DEF MatchCves, walk, cli
    <3>2. \A f \in findings' : "pattern" \in DOMAIN f => f \in findings
      BY <2>3, MatchAdds, CvesHaveNoPattern
    <3>3. tree \in Trees
      BY <2>3 DEF MatchCves, OpenDirs
    <3> QED BY <3>1, <3>2, <3>3, ReportedKept
  <2>4. \/ UNCHANGED <<tree, rules_dir, findings, components>>
        \/ MatchCves
        \/ \E e, p : VisitFile(e, p)
    <3>1. CASE UNCHANGED vars
      BY <3>1 DEF vars, walk, cli
    <3>2. CASE \E e, p : SkipEntry(e, p) \/ EnterDirectory(e, p)
      BY <3>2 DEF SkipEntry, EnterDirectory, cli
    <3>3. CASE CloseDirectory \/ NextPass \/ LoadRules \/ ScanRules
      BY <3>3 DEF CloseDirectory, NextPass, LoadRules, ScanRules, walk, cli
    <3>4. CASE WalksDone \/ Report \/ \E f \in to_load : LoadFile(f)
      BY <3>4 DEF WalksDone, Report, LoadFile, walk, cli
    <3> QED BY <1>2, <3>1, <3>2, <3>3, <3>4
        DEF Next, ParseOption, ParseTarget, Usage, ScanTarget, Extracted, NotExtracted
  <2> QED BY <2>1, <2>2, <2>3, <2>4
<1> QED BY <1>1, <1>2

-----------------------------------------------------------------------------
(* Where the items of a file are.                                          *)

\* The items of a file lie behind each other, in order.
LEMMA StartsAre ==
    ASSUME NEW c, ContentOK(c)
    PROVE  /\ \A k \in 1 .. Len(c) + 1 : Start(c, k) \in Nat
           /\ \A k \in 1 .. Len(c) : Start(c, k + 1) = End(c, k) /\ c[k].len \in Nat \ {0}
           /\ \A j, k \in 1 .. Len(c) + 1 : j <= k => Start(c, j) <= Start(c, k)
           /\ Scanned(c) \in Nat /\ Scanned(c) <= Start(c, Len(c) + 1)
<1> DEFINE m == Len(c)
           w == [j \in DOMAIN c |-> c[j].len]
<1>1. m \in Nat /\ DOMAIN c = 1 .. m /\ \A k \in 1 .. m : c[k].len \in Nat \ {0}
  BY DEF ContentOK, ItemOK
<1>2. w \in [1 .. m -> Nat] /\ \A k \in 1 .. m : w[k] = c[k].len
  BY <1>1
<1>3. \A k : Start(c, k) = Sums(w)[k - 1]
  BY DEF Start
<1> HIDE DEF w
<1>4. /\ Sums(w) \in [0 .. m -> Nat]
      /\ \A n \in 1 .. m : Sums(w)[n] = Sums(w)[n - 1] + w[n]
  BY <1>1, <1>2, SumsAre
<1>5. \A k \in 1 .. m + 1 : Start(c, k) \in Nat
  <2>1. \A k \in 1 .. m + 1 : k - 1 \in 0 .. m
    BY <1>1
  <2> QED BY <1>3, <1>4, <2>1
<1>6. ASSUME NEW k \in 1 .. m PROVE Start(c, k + 1) = End(c, k)
  <2>1. (k + 1) - 1 = k
    BY <1>1
  <2> QED BY <1>2, <1>3, <1>4, <2>1 DEF End
<1>7. ASSUME NEW j \in 1 .. m + 1, NEW k \in 1 .. m + 1, j <= k
      PROVE  Start(c, j) <= Start(c, k)
  <2>1. j - 1 \in 0 .. m /\ k - 1 \in 0 .. m /\ j - 1 <= k - 1
    BY <1>1, <1>7
  <2> DEFINE a == j - 1
             b == k - 1
  <2>2. a \in 0 .. m /\ b \in 0 .. m /\ a <= b
    BY <2>1
  <2> HIDE DEF a, b
  <2>3. Sums(w)[a] <= Sums(w)[b]
    BY <1>1, <1>2, <2>2, SumsGrow
  <2> QED BY <1>3, <2>3 DEF a, b
<1>8. Scanned(c) \in Nat /\ Scanned(c) <= Start(c, m + 1)
  <2>1. Size(c) \in Nat /\ Size(c) = Start(c, m + 1)
    BY <1>1, <1>5 DEF Size
  <2> QED BY <2>1, IdentifyAssumption DEF Scanned
<1> QED BY <1>1, <1>5, <1>6, <1>7, <1>8

-----------------------------------------------------------------------------
(* The first characters of a version.                                      *)

PieceLen(p) == p.digits + Letters(p)

\* So do the segments of a version.
LEMMA PiecesAre ==
    ASSUME NEW v \in Version
    PROVE  /\ \A k \in 1 .. Len(v) + 1 : PieceStart(v, k) \in Nat
           /\ \A k \in 1 .. Len(v) : /\ PieceStart(v, k + 1) = PieceStart(v, k) + PieceLen(v[k]) + 1
                                     /\ PieceLen(v[k]) \in Nat
           /\ \A j, k \in 1 .. Len(v) + 1 : j <= k => PieceStart(v, j) <= PieceStart(v, k)
<1> DEFINE m == Len(v)
           w == [j \in DOMAIN v |-> v[j].digits + Letters(v[j]) + 1]
<1>1. m \in Nat /\ DOMAIN v = 1 .. m
  BY DEF Version
<1>2. ASSUME NEW k \in 1 .. m PROVE PieceLen(v[k]) \in Nat
  <2>1. v[k] \in Piece
    BY DEF Version
  <2>2. v[k].digits \in Nat /\ Letters(v[k]) \in Nat
    BY <2>1 DEF Piece, Letters
  <2> QED BY <2>2 DEF PieceLen
<1>3. w \in [1 .. m -> Nat] /\ \A k \in 1 .. m : w[k] = PieceLen(v[k]) + 1
  BY <1>1, <1>2 DEF PieceLen
<1>4. \A k : PieceStart(v, k) = Sums(w)[k - 1]
  BY DEF PieceStart
<1> HIDE DEF w
<1>5. /\ Sums(w) \in [0 .. m -> Nat]
      /\ \A n \in 1 .. m : Sums(w)[n] = Sums(w)[n - 1] + w[n]
  BY <1>1, <1>3, SumsAre
<1>6. \A k \in 1 .. m + 1 : PieceStart(v, k) \in Nat
  <2>1. \A k \in 1 .. m + 1 : k - 1 \in 0 .. m
    BY <1>1
  <2> QED BY <1>4, <1>5, <2>1
<1>7. ASSUME NEW k \in 1 .. m PROVE PieceStart(v, k + 1) = PieceStart(v, k) + PieceLen(v[k]) + 1
  <2>1. (k + 1) - 1 = k /\ k \in 1 .. m + 1
    BY <1>1
  <2>2. PieceStart(v, k + 1) = PieceStart(v, k) + (PieceLen(v[k]) + 1)
    BY <1>3, <1>4, <1>5, <2>1
  <2> QED BY <1>2, <1>6, <2>1, <2>2
<1>8. ASSUME NEW j \in 1 .. m + 1, NEW k \in 1 .. m + 1, j <= k
      PROVE  PieceStart(v, j) <= PieceStart(v, k)
  <2> DEFINE a == j - 1
             b == k - 1
  <2>1. a \in 0 .. m /\ b \in 0 .. m /\ a <= b
    BY <1>1, <1>8
  <2> HIDE DEF a, b
  <2>2. Sums(w)[a] <= Sums(w)[b]
    BY <1>1, <1>3, <2>1, SumsGrow
  <2> QED BY <1>4, <2>2 DEF a, b
<1> QED BY <1>2, <1>6, <1>7, <1>8

\* A version is as long as its pieces and what stands between them.
LEMMA VersionIsLong ==
    ASSUME NEW v \in Version, VersionLen(v) \in Nat \ {0}
    PROVE  Len(v) \in Nat \ {0} /\ VersionLen(v) = PieceStart(v, Len(v) + 1) - 1
<1>1. v # <<>>
  BY DEF VersionLen
<1>2. Len(v) \in Nat /\ Len(v) # 0
  BY <1>1 DEF Version
<1> QED BY <1>1, <1>2 DEF VersionLen

\* No piece is left out, and the last one ends with the version.
LEMMA FirstCharsWhole ==
    ASSUME NEW v \in Version, VersionLen(v) \in Nat \ {0},
           NEW n \in Int, n >= VersionLen(v)
    PROVE  FirstChars(v, n) = v
<1> DEFINE m == Len(v)
<1>1. m \in Nat \ {0} /\ DOMAIN v = 1 .. m
  BY VersionIsLong DEF Version
<1>2. /\ \A k \in 1 .. m + 1 : PieceStart(v, k) \in Nat
      /\ \A k \in 1 .. m : /\ PieceStart(v, k + 1) = PieceStart(v, k) + PieceLen(v[k]) + 1
                           /\ PieceLen(v[k]) \in Nat
      /\ \A j, k \in 1 .. m + 1 : j <= k => PieceStart(v, j) <= PieceStart(v, k)
  BY PiecesAre
<1>3. VersionLen(v) = PieceStart(v, m + 1) - 1 /\ ~(n <= 0)
  BY VersionIsLong
<1> HIDE DEF m
<1>4. ASSUME NEW k \in 1 .. m
      PROVE  n - PieceStart(v, k) >= PieceLen(v[k]) /\ PieceStart(v, k) <= n
  <2>1. k \in 1 .. m + 1 /\ k + 1 \in 1 .. m + 1 /\ m + 1 \in 1 .. m + 1 /\ k + 1 <= m + 1
    BY <1>1
  <2>2. PieceStart(v, k + 1) <= PieceStart(v, m + 1)
    BY <1>2, <2>1
  <2>3. PieceStart(v, k + 1) = PieceStart(v, k) + PieceLen(v[k]) + 1 /\ PieceLen(v[k]) \in Nat
    BY <1>2
  <2>4. PieceStart(v, k) \in Nat /\ PieceStart(v, k + 1) \in Nat /\ PieceStart(v, m + 1) \in Nat
    BY <1>2, <2>1
  <2> DEFINE a == PieceStart(v, k)
             b == PieceStart(v, k + 1)
             y == PieceStart(v, m + 1)
             g == PieceLen(v[k])
  <2>5. b <= y /\ b = a + g + 1 /\ g \in Nat /\ a \in Nat /\ b \in Nat /\ y \in Nat
    BY <2>2, <2>3, <2>4
  <2>6. n >= y - 1
    BY <1>3
  <2> HIDE DEF a, b, y, g
  <2>7. n - a >= g /\ a <= n
    BY <2>5, <2>6
  <2> QED BY <2>7 DEF a, g
<1>5. {k \in DOMAIN v : PieceStart(v, k) <= n} = 1 .. m
  BY <1>1, <1>4
<1>6. Cardinality(1 .. m) = m
  BY <1>1, FS_Interval
<1>7. ASSUME NEW k \in 1 .. m
      PROVE  (LET room == n - PieceStart(v, k)
                  p == v[k]
              IN IF room >= p.digits + Letters(p) THEN p
                 ELSE IF room >= p.digits THEN [p EXCEPT !.suffix = 0]
                 ELSE [digits |-> room, value |-> p.value \div 10 ^ (p.digits - room), suffix |-> 0])
              = v[k]
  BY <1>4 DEF PieceLen
<1>8. FirstChars(v, n) = [k \in 1 .. m |-> v[k]]
  BY <1>3, <1>5, <1>6, <1>7 DEF FirstChars
<1>9. v = [k \in 1 .. m |-> v[k]]
  BY <1>1 DEF Version
<1> QED BY <1>8, <1>9

\* Nothing is shown of a version that has no room.
LEMMA FirstCharsNone ==
    ASSUME NEW v \in Version, NEW n \in Int, n <= 0
    PROVE  FirstChars(v, n) = <<>> /\ BeforeLetters(FirstChars(v, n)) = <<>>
<1>1. FirstChars(v, n) = <<>>
  <2> DEFINE Shown(k) ==
               LET room == n - PieceStart(v, k)
                   p == v[k]
               IN IF room >= p.digits + Letters(p) THEN p
                  ELSE IF room >= p.digits THEN [p EXCEPT !.suffix = 0]
                  ELSE [digits |-> room, value |-> p.value \div 10 ^ (p.digits - room), suffix |-> 0]
  <2>1. FirstChars(v, n) = [k \in 1 .. 0 |-> Shown(k)]
    BY DEF FirstChars
  <2> HIDE DEF Shown
  <2>2. [k \in 1 .. 0 |-> Shown(k)] = <<>>
    OBVIOUS
  <2> QED BY <2>1, <2>2
<1>2. BeforeLetters(<<>>) = <<>>
  <2>1. DOMAIN <<>> = {}
    OBVIOUS
  <2> QED BY <2>1 DEF BeforeLetters
<1> QED BY <1>1, <1>2

-----------------------------------------------------------------------------
(* The version that is reported stands in the file.                        *)

\* A version cut by the buffer or before its letters is reported as such.
LEMMA ShownAs ==
    ASSUME NEW c, ContentOK(c), NEW k \in 1 .. Len(c), c[k].kind = "version",
           NEW N \in Int,
           VersionLen(c[k].version) < VERSION_SIZE /\ End(c, k) <= Scanned(c)
               => N >= VersionLen(c[k].version),
           NEW version \in {FirstChars(c[k].version, N), BeforeLetters(FirstChars(c[k].version, N))},
           version # <<>>
    PROVE  ReportedAs(c, k, version)
<1> DEFINE v == c[k].version
           l == VersionLen(v)
           n == IF N <= l THEN N ELSE l
<1>1. v \in Version /\ l \in Nat \ {0}
  <2>1. ItemOK(c[k])
    BY DEF ContentOK
  <2> QED BY <2>1 DEF ItemOK
<1>2. N > 0
  <2>1. ~(N <= 0)
    BY <1>1, FirstCharsNone
  <2> QED BY <2>1
<1>3. n \in 1 .. l /\ (N >= l => n = l)
  BY <1>1, <1>2
<1>4. FirstChars(v, n) = FirstChars(v, N)
  <2>1. CASE N <= l
    BY <2>1
  <2>2. CASE ~(N <= l)
    <3>1. n = l /\ l \in Int /\ l >= VersionLen(v) /\ N >= VersionLen(v)
      BY <1>1, <2>2
    <3>2. FirstChars(v, l) = v
      BY <1>1, <3>1, FirstCharsWhole
    <3>3. FirstChars(v, N) = v
      BY <1>1, <3>1, FirstCharsWhole
    <3> QED BY <3>1, <3>2, <3>3
  <2> QED BY <2>1, <2>2
<1> HIDE DEF n
<1> QED BY <1>3, <1>4 DEF ReportedAs

\* A place in a file where a version of a component stands, as it is reported.
Shows(c, name, version) ==
    \E k \in DOMAIN c : /\ c[k].kind = "version"
                        /\ VersionStands(c, k, name)
                        /\ ReportedAs(c, k, version)

\* The version behind a marker stands in the file, right behind that marker.
LEMMA BehindTheMarker ==
    ASSUME NEW c, ContentOK(c), NEW name, Matches(c, name) # {}
    PROVE  Shows(c, name, VersionOf(c, name))
<1> DEFINE M == Matches(c, name)
           k == CHOOSE k \in M : \A j \in M : k <= j
<1>1. k \in M
  <2>1. M \subseteq Nat /\ M # {}
    BY DEF Matches, Occurrences, ContentOK
  <2> HIDE DEF M
  <2>2. \E q \in M : \A j \in M : q <= j
    BY <2>1, LeastIndex
  <2> QED BY <2>2
<1>2. VersionOf(c, name) = VersionBehind(c, k, name)
  BY DEF VersionOf
<1> HIDE DEF k
<1>3. /\ k \in DOMAIN c /\ c[k].kind = "marker" /\ c[k].name = name
      /\ VersionBehind(c, k, name) # <<>>
  BY <1>1 DEF Matches, Occurrences
<1>4. k + 1 \in DOMAIN c /\ c[k + 1].kind = "version"
  BY <1>3 DEF VersionBehind
<1>5. k \in 1 .. Len(c) /\ k + 1 \in 1 .. Len(c) /\ k + 1 > 1 /\ (k + 1) - 1 = k
  BY <1>3, <1>4 DEF ContentOK
<1> DEFINE m == k + 1
           v == c[m].version
           room == Scanned(c) - End(c, k)
           N == IF room < VERSION_SIZE - 1 THEN room ELSE VERSION_SIZE - 1
<1>6. VersionOf(c, name) \in {FirstChars(v, N), BeforeLetters(FirstChars(v, N))}
  BY <1>2, <1>4 DEF VersionBehind, extract_version
<1>7. /\ Start(c, m) = End(c, k) /\ Scanned(c) \in Nat /\ Start(c, m) \in Nat
      /\ c[m].len \in Nat /\ c[m].len = VersionLen(v)
  <2>1. m \in 1 .. Len(c) + 1
    BY <1>5
  <2>2. ItemOK(c[m])
    BY <1>5 DEF ContentOK
  <2> QED BY <1>4, <1>5, <2>1, <2>2, StartsAre DEF ItemOK
<1>8. N \in Int /\ (VersionLen(v) < VERSION_SIZE /\ End(c, m) <= Scanned(c) => N >= VersionLen(v))
  BY <1>7, IdentifyAssumption DEF End
<1>9. VersionStands(c, m, name)
  BY <1>3, <1>5 DEF VersionStands
<1> HIDE DEF N
<1>10. ReportedAs(c, m, VersionOf(c, name))
  BY <1>2, <1>3, <1>4, <1>5, <1>6, <1>8, ShownAs
<1> QED BY <1>4, <1>9, <1>10 DEF Shows

-----------------------------------------------------------------------------
(* The version that is a string of its own.                                *)

\* Of two items of a file one ends before the other begins.
LEMMA ItemsApart ==
    ASSUME NEW c, ContentOK(c), NEW j \in 1 .. Len(c), NEW k \in 1 .. Len(c) + 1, j < k
    PROVE  /\ Start(c, j) \in Nat /\ End(c, j) \in Nat /\ Start(c, k) \in Nat
           /\ Start(c, j) < End(c, j) /\ End(c, j) <= Start(c, k)
<1>1. Len(c) \in Nat
  BY DEF ContentOK
<1>2. j \in 1 .. Len(c) + 1 /\ j + 1 \in 1 .. Len(c) + 1 /\ j + 1 <= k
  BY <1>1
<1>3. Start(c, j) \in Nat /\ Start(c, k) \in Nat /\ c[j].len \in Nat \ {0}
  BY <1>2, StartsAre
<1>4. Start(c, j + 1) = End(c, j) /\ Start(c, j + 1) <= Start(c, k)
  BY <1>2, StartsAre
<1>5. Start(c, j) < End(c, j) /\ End(c, j) \in Nat
  BY <1>3 DEF End
<1> QED BY <1>3, <1>4, <1>5

\* A token that looks like a version begins in what was read.
LEMMA VersionToken ==
    ASSUME NEW c, ContentOK(c), NEW token, token \subseteq DOMAIN c,
           looks_like_dropbear_version(c, token)
    PROVE  \E k \in 1 .. Len(c) :
             /\ token = {k} /\ c[k].kind = "version" /\ 2 \notin c[k].dashes
             /\ Only(c, token) = FirstChars(c[k].version, Scanned(c) - Start(c, k))
             /\ Only(c, token) # <<>>
             /\ Start(c, k) < Scanned(c)
<1>1. PICK k \in token : /\ token = {k} /\ c[k].kind = "version" /\ 2 \notin c[k].dashes
                         /\ Len(FirstChars(c[k].version, Scanned(c) - Start(c, k))) = 2
  BY DEF looks_like_dropbear_version
<1>2. k \in 1 .. Len(c)
  BY DEF ContentOK
<1> DEFINE v == c[k].version
           n == Scanned(c) - Start(c, k)
<1>3. Only(c, token) = FirstChars(v, n)
  <2>1. (CHOOSE q \in token : TRUE) = k
    BY <1>1
  <2> QED BY <2>1 DEF Only
<1>4. FirstChars(v, n) # <<>>
  <2>1. Len(<<>>) = 0
    OBVIOUS
  <2> QED BY <1>1, <2>1
<1>5. Scanned(c) \in Nat /\ Start(c, k) \in Nat
  <2>1. k \in 1 .. Len(c) + 1
    BY <1>2 DEF ContentOK
  <2> QED BY <2>1, StartsAre
<1>6. v \in Version
  <2>1. ItemOK(c[k])
    BY <1>2 DEF ContentOK
  <2> QED BY <1>1, <2>1 DEF ItemOK
<1>7. n \in Int /\ ~(n <= 0)
  BY <1>4, <1>5, <1>6, FirstCharsNone
<1>8. Start(c, k) < Scanned(c)
  BY <1>5, <1>7
<1> QED BY <1>1, <1>2, <1>3, <1>4, <1>8

\* One that mentions Dropbear, too, but for its last byte.
Mentions(item) == item.kind = "mention" \/ (item.kind = "marker" /\ item.name = "Dropbear")

\* A token that mentions dropbear has such an item in it.
LEMMA MentionToken ==
    ASSUME NEW c, ContentOK(c), NEW token, token \subseteq DOMAIN c,
           token_mentions_dropbear(c, token)
    PROVE  \E m \in token :
             /\ m \in 1 .. Len(c)
             /\ Mentions(c[m])
             /\ Start(c, m) <= Scanned(c)
<1>1. PICK m \in token : \/ c[m].kind = "mention" /\ End(c, m) <= Scanned(c)
                         \/ c[m].kind = "marker" /\ c[m].name = "Dropbear" /\ End(c, m) - 1 <= Scanned(c)
  BY DEF token_mentions_dropbear
<1>2. m \in 1 .. Len(c) /\ m \in 1 .. Len(c) + 1
  BY DEF ContentOK
<1>3. Start(c, m) \in Nat /\ c[m].len \in Nat \ {0} /\ Scanned(c) \in Nat
  BY <1>2, StartsAre
<1>4. Start(c, m) <= Scanned(c)
  BY <1>1, <1>3 DEF End
<1>5. Mentions(c[m])
  BY <1>1 DEF Mentions
<1> QED BY <1>2, <1>4, <1>5

\* The borders of tokens: the ends of the file and of what is scanned, and each NUL.
LEMMA BordersAre ==
    ASSUME NEW c, ContentOK(c)
    PROVE  /\ Borders(c) \subseteq 0 .. Len(c) + 1
           /\ \A z \in 1 .. Len(c) : c[z].kind = "nul" /\ End(c, z) <= Scanned(c) => z \in Borders(c)
           /\ \A z \in Borders(c) : z # 0 /\ ~(Start(c, z) >= Scanned(c)) =>
                z \in 1 .. Len(c) /\ c[z].kind = "nul"
BY DEF Borders, ContentOK

\* The version stands before the border.
LEMMA VersionBefore ==
    ASSUME NEW c, ContentOK(c), NEW b \in Borders(c), Neighbours(c, Before(c, b), Behind(c, b))
    PROVE  \E k \in 1 .. Len(c) :
             /\ c[k].kind = "version" /\ VersionStands(c, k, "Dropbear")
             /\ Only(c, Before(c, b)) = FirstChars(c[k].version, Scanned(c) - Start(c, k))
             /\ Only(c, Before(c, b)) # <<>>
<1>0. Len(c) \in Nat /\ DOMAIN c = 1 .. Len(c) /\ b \in 0 .. Len(c) + 1 /\ Scanned(c) \in Nat
  BY BordersAre, StartsAre DEF ContentOK
<1>1. PICK k \in 1 .. Len(c) :
         /\ Before(c, b) = {k} /\ c[k].kind = "version" /\ 2 \notin c[k].dashes
         /\ Only(c, Before(c, b)) = FirstChars(c[k].version, Scanned(c) - Start(c, k))
         /\ Only(c, Before(c, b)) # <<>>
         /\ Start(c, k) < Scanned(c)
  <2>1. Before(c, b) \subseteq DOMAIN c
    BY DEF Before
  <2> QED BY <2>1, VersionToken DEF Neighbours
<1>2. PICK m \in 1 .. Len(c) :
         /\ m \in Behind(c, b)
         /\ Mentions(c[m])
         /\ Start(c, m) <= Scanned(c)
  <2>1. Behind(c, b) \subseteq DOMAIN c
    BY DEF Behind
  <2> QED BY <2>1, MentionToken DEF Neighbours
<1>3. k < b /\ \A z \in Borders(c) : z < b => z < k
  BY <1>1 DEF Before
<1>4. b < m /\ \A z \in Borders(c) : b < z => m < z
  BY <1>2 DEF Behind
<1>5. \A j \in 1 .. Len(c) : j < b /\ j # k => \E z \in Borders(c) : z < b /\ ~(z < j)
  BY <1>0, <1>1 DEF Before
<1>6. b \in 1 .. Len(c) /\ c[b].kind = "nul"
  <2>1. b \in 1 .. Len(c) /\ m \in 1 .. Len(c) + 1
    BY <1>0, <1>3, <1>4
  <2>2. Start(c, b) < Scanned(c)
    BY <1>0, <1>2, <1>4, <2>1, ItemsApart
  <2>3. Start(c, b) \in Nat
    BY <1>4, <2>1, ItemsApart
  <2>4. b # 0 /\ ~(Start(c, b) >= Scanned(c))
    BY <1>0, <2>1, <2>2, <2>3
  <2> QED BY <2>1, <2>4, BordersAre
<1>7. b = k + 1
  <2>1. ASSUME b # k + 1 PROVE FALSE
    <3>1. k + 1 \in 1 .. Len(c) /\ k + 1 < b /\ k + 1 # k
      BY <1>3, <1>6, <2>1
    <3>2. PICK z \in Borders(c) : z < b /\ ~(z < k + 1)
      BY <1>5, <3>1
    <3>3. z < k /\ z \in Int
      BY <1>3, <3>2, BordersAre
    <3> QED BY <3>2, <3>3
  <2> QED BY <2>1
<1>8. k = 1 \/ c[k - 1].kind = "nul"
  <2>1. ASSUME k # 1 PROVE c[k - 1].kind = "nul"
    <3>1. k - 1 \in 1 .. Len(c) /\ k - 1 < b /\ k - 1 # k /\ k - 1 < k /\ k \in 1 .. Len(c) + 1
      BY <1>0, <1>7, <2>1
    <3>2. PICK z \in Borders(c) : z < b /\ ~(z < k - 1)
      BY <1>5, <3>1
    <3>3. z < k /\ z \in Int
      BY <1>3, <3>2, BordersAre
    <3>4. z = k - 1
      BY <3>2, <3>3
    <3>5. Start(c, z) \in Nat /\ Start(c, z) < Scanned(c)
      <4>1. Start(c, k - 1) < End(c, k - 1) /\ End(c, k - 1) <= Start(c, k)
        BY <3>1, ItemsApart
      <4>2. Start(c, k - 1) \in Nat /\ End(c, k - 1) \in Nat /\ Start(c, k) \in Nat
        BY <3>1, ItemsApart
      <4> QED BY <1>0, <1>1, <3>4, <4>1, <4>2
    <3>6. z # 0 /\ ~(Start(c, z) >= Scanned(c))
      BY <1>0, <3>1, <3>4, <3>5
    <3> QED BY <3>4, <3>6, BordersAre
  <2> QED BY <2>1
<1>9. Separated(c, k, m)
  <2>1. b \in k .. m
    BY <1>2, <1>3, <1>4, <1>6
  <2>2. ASSUME NEW z \in k .. m, c[z].kind = "nul" PROVE z = b
    <3>1. z # k /\ z # m
      BY <1>1, <1>2, <2>2 DEF Mentions
    <3>2. z \in 1 .. Len(c) /\ m \in 1 .. Len(c) + 1 /\ z < m /\ ~(z < b)
      BY <1>0, <1>7, <3>1
    <3>3. End(c, z) <= Scanned(c)
      <4>1. End(c, z) <= Start(c, m) /\ End(c, z) \in Nat /\ Start(c, m) \in Nat
        BY <3>2, ItemsApart
      <4> QED BY <1>0, <1>2, <4>1
    <3>4. z \in Borders(c)
      BY <2>2, <3>2, <3>3, BordersAre
    <3>5. ~(b < z)
      BY <1>4, <3>2, <3>4
    <3> QED BY <1>6, <3>2, <3>5
  <2>3. {z \in k .. m : c[z].kind = "nul"} = {b}
    BY <1>6, <2>1, <2>2
  <2> QED BY <2>1, <2>3 DEF Separated
<1>10. VersionStands(c, k, "Dropbear")
  BY <1>0, <1>1, <1>2, <1>6, <1>7, <1>8, <1>9 DEF VersionStands, Mentions
<1> QED BY <1>1, <1>10

\* The version stands behind the border.
LEMMA VersionAfter ==
    ASSUME NEW c, ContentOK(c), NEW b \in Borders(c), Neighbours(c, Behind(c, b), Before(c, b))
    PROVE  \E k \in 1 .. Len(c) :
             /\ c[k].kind = "version" /\ VersionStands(c, k, "Dropbear")
             /\ Only(c, Behind(c, b)) = FirstChars(c[k].version, Scanned(c) - Start(c, k))
             /\ Only(c, Behind(c, b)) # <<>>
<1>0. Len(c) \in Nat /\ DOMAIN c = 1 .. Len(c) /\ b \in 0 .. Len(c) + 1 /\ Scanned(c) \in Nat
  BY BordersAre, StartsAre DEF ContentOK
<1>1. PICK k \in 1 .. Len(c) :
         /\ Behind(c, b) = {k} /\ c[k].kind = "version" /\ 2 \notin c[k].dashes
         /\ Only(c, Behind(c, b)) = FirstChars(c[k].version, Scanned(c) - Start(c, k))
         /\ Only(c, Behind(c, b)) # <<>>
         /\ Start(c, k) < Scanned(c)
  <2>1. Behind(c, b) \subseteq DOMAIN c
    BY DEF Behind
  <2> QED BY <2>1, VersionToken DEF Neighbours
<1>2. PICK m \in 1 .. Len(c) :
         /\ m \in Before(c, b)
         /\ Mentions(c[m])
  <2>1. Before(c, b) \subseteq DOMAIN c
    BY DEF Before
  <2> QED BY <2>1, MentionToken DEF Neighbours
<1>3. b < k /\ \A z \in Borders(c) : b < z => k < z
  BY <1>1 DEF Behind
<1>4. m < b /\ \A z \in Borders(c) : z < b => z < m
  BY <1>2 DEF Before
<1>5. \A j \in 1 .. Len(c) : b < j /\ j # k => \E z \in Borders(c) : b < z /\ ~(j < z)
  BY <1>0, <1>1 DEF Behind
<1>6. b \in 1 .. Len(c) /\ c[b].kind = "nul"
  <2>1. b \in 1 .. Len(c) /\ k \in 1 .. Len(c) + 1
    BY <1>0, <1>3, <1>4
  <2>2. /\ Start(c, b) < End(c, b) /\ End(c, b) <= Start(c, k)
        /\ Start(c, b) \in Nat /\ End(c, b) \in Nat /\ Start(c, k) \in Nat
    BY <1>3, <2>1, ItemsApart
  <2>3. b # 0 /\ ~(Start(c, b) >= Scanned(c))
    BY <1>0, <1>1, <2>1, <2>2
  <2> QED BY <2>1, <2>3, BordersAre
<1>7. b = k - 1
  <2>1. ASSUME b # k - 1 PROVE FALSE
    <3>1. k - 1 \in 1 .. Len(c) /\ b < k - 1 /\ k - 1 # k
      BY <1>0, <1>3, <1>6, <2>1
    <3>2. PICK z \in Borders(c) : b < z /\ ~(k - 1 < z)
      BY <1>5, <3>1
    <3>3. k < z /\ z \in Int
      BY <1>3, <3>2, BordersAre
    <3> QED BY <3>2, <3>3
  <2> QED BY <2>1
<1>8. k = Len(c) \/ c[k + 1].kind = "nul" \/ End(c, k) >= Scanned(c)
  <2>1. ASSUME k # Len(c), ~(End(c, k) >= Scanned(c)) PROVE c[k + 1].kind = "nul"
    <3>1. k + 1 \in 1 .. Len(c) /\ b < k + 1 /\ k + 1 # k
      <4>1. k # Len(c)
        BY <2>1
      <4>2. Len(c) \in Nat
        BY <1>0
      <4>3. k + 1 \in 1 .. Len(c) /\ k + 1 # k
        BY <4>1, <4>2
      <4> QED BY <1>7, <4>3
    <3>2. PICK z \in Borders(c) : b < z /\ ~(k + 1 < z)
      BY <1>5, <3>1
    <3>3. k < z /\ z \in Int
      BY <1>3, <3>2, BordersAre
    <3>4. z = k + 1 /\ z # 0
      BY <3>2, <3>3
    <3>5. ~(Start(c, z) >= Scanned(c))
      BY <2>1, <3>4, StartsAre
    <3> QED BY <3>4, <3>5, BordersAre
  <2> QED BY <2>1
<1>9. Separated(c, m, k)
  <2>1. b \in m .. k
    BY <1>2, <1>3, <1>4, <1>6
  <2>2. ASSUME NEW z \in m .. k, c[z].kind = "nul" PROVE z = b
    <3>1. z # k /\ z # m
      BY <1>1, <1>2, <2>2 DEF Mentions
    <3>2. z \in 1 .. Len(c) /\ k \in 1 .. Len(c) + 1 /\ z < k /\ ~(b < z) /\ ~(z < m)
      BY <1>0, <1>7, <3>1
    <3>3. End(c, z) <= Scanned(c)
      <4>1. End(c, z) <= Start(c, k) /\ End(c, z) \in Nat /\ Start(c, k) \in Nat
        BY <3>2, ItemsApart
      <4> QED BY <1>0, <1>1, <4>1
    <3>4. z \in Borders(c)
      BY <2>2, <3>2, <3>3, BordersAre
    <3>5. ~(z < b)
      BY <1>4, <3>2, <3>4
    <3> QED BY <1>6, <3>2, <3>5
  <2>3. {z \in m .. k : c[z].kind = "nul"} = {b}
    BY <1>6, <2>1, <2>2
  <2> QED BY <2>1, <2>3 DEF Separated
<1>10. VersionStands(c, k, "Dropbear")
  BY <1>0, <1>1, <1>2, <1>6, <1>7, <1>8, <1>9 DEF VersionStands, Mentions
<1> QED BY <1>1, <1>10

\* The version that is a string of its own stands in the file.
LEMMA StringOfItsOwn ==
    ASSUME NEW c, ContentOK(c), find_isolated_dropbear_version(c) # <<>>
    PROVE  Shows(c, "Dropbear", find_isolated_dropbear_version(c))
<1> DEFINE Between == {b \in Borders(c) : \/ Neighbours(c, Before(c, b), Behind(c, b))
                                          \/ Neighbours(c, Behind(c, b), Before(c, b))}
           b == CHOOSE b \in Between : \A z \in Between : b <= z
           token == IF Neighbours(c, Before(c, b), Behind(c, b)) THEN Before(c, b) ELSE Behind(c, b)
<1>1. Between # {} /\ find_isolated_dropbear_version(c) = Only(c, token)
  BY DEF find_isolated_dropbear_version
<1>2. b \in Between
  <2>1. Between \subseteq Nat
    <3>1. Borders(c) \subseteq Nat
      BY BordersAre
    <3> QED BY <3>1
  <2> HIDE DEF Between
  <2>2. \E q \in Between : \A z \in Between : q <= z
    BY <1>1, <2>1, LeastIndex
  <2> QED BY <2>2
<1>3. /\ b \in Borders(c)
      /\ \/ Neighbours(c, Before(c, b), Behind(c, b))
         \/ Neighbours(c, Behind(c, b), Before(c, b))
  BY <1>2
<1> HIDE DEF b, Between
<1>4. PICK k \in 1 .. Len(c) :
         /\ c[k].kind = "version" /\ VersionStands(c, k, "Dropbear")
         /\ Only(c, token) = FirstChars(c[k].version, Scanned(c) - Start(c, k))
         /\ Only(c, token) # <<>>
  BY <1>3, VersionBefore, VersionAfter
<1> DEFINE N == Scanned(c) - Start(c, k)
           v == c[k].version
<1>5. N \in Int /\ (VersionLen(v) < VERSION_SIZE /\ End(c, k) <= Scanned(c) => N >= VersionLen(v))
  <2>1. Scanned(c) \in Nat /\ Start(c, k) \in Nat
    <3>1. k \in 1 .. Len(c) + 1
      BY DEF ContentOK
    <3> QED BY <3>1, StartsAre
  <2>2. c[k].len \in Nat /\ c[k].len = VersionLen(v)
    <3>1. ItemOK(c[k])
      BY DEF ContentOK
    <3> QED BY <1>4, <3>1 DEF ItemOK
  <2> QED BY <2>1, <2>2 DEF End
<1>6. ReportedAs(c, k, Only(c, token))
  <2>1. Only(c, token) \in {FirstChars(v, N), BeforeLetters(FirstChars(v, N))}
    BY <1>4
  <2> HIDE DEF N, token
  <2> QED BY <1>4, <1>5, <2>1, ShownAs
<1>7. k \in DOMAIN c
  BY DEF ContentOK
<1> QED BY <1>1, <1>4, <1>6, <1>7 DEF Shows

\* What scan_file says of a file.
LEMMA VersionsStand ==
    ASSUME NEW c, ContentOK(c), NEW s \in identify(c)
    PROVE  /\ Occurrences(c, s.component) # {}
           /\ s.version # <<>> => Shows(c, s.component, s.version)
<1>1. PICK name \in ComponentNames :
         /\ Occurrences(c, name) # {}
         /\ s = [component |-> name, version |-> VersionOf(c, name)]
  BY DEF identify
<1>2. s.component = name /\ s.version = VersionOf(c, name)
  BY <1>1
<1>3. ASSUME VersionOf(c, name) # <<>> PROVE Shows(c, name, VersionOf(c, name))
  <2>1. CASE Matches(c, name) # {}
    BY <2>1, BehindTheMarker
  <2>2. CASE Matches(c, name) = {}
    <3>1. name = "Dropbear" /\ VersionOf(c, name) = find_isolated_dropbear_version(c)
      BY <1>3, <2>2 DEF VersionOf, HasFallback
    <3> QED BY <1>3, <3>1, StringOfItsOwn
  <2> QED BY <2>1, <2>2
<1> QED BY <1>1, <1>2, <1>3

\* The readable files of a tree, as the two definitions name them.
LEMMA ReadableAre == ASSUME NEW t \in Trees PROVE ReadableOf(t) = Readable(t)
<1> DEFINE f == CHOOSE f \in TreeFiles : f.tree = t
<1>1. f \in TreeFiles /\ f.tree = t
  <2>1. [tree |-> t, readable |-> Readable(t)] \in TreeFiles
    BY DEF TreeFiles
  <2>2. [tree |-> t, readable |-> Readable(t)].tree = t
    OBVIOUS
  <2>3. \E q \in TreeFiles : q.tree = t
    BY <2>1, <2>2
  <2> QED BY <2>3
<1> HIDE DEF f
<1>2. PICK u \in Trees : f = [tree |-> u, readable |-> Readable(u)]
  BY <1>1 DEF TreeFiles
<1>3. f.readable = Readable(t)
  BY <1>1, <1>2
<1> QED BY <1>3 DEF ReadableOf, f

\* What is in the lists is what FindingsAreTrue says.
LEMMA ReportedIsTrue == ASSUME ReportedInv PROVE FindingsAreTrue
<1>1. ASSUME NEW f \in findings, "pattern" \in DOMAIN f
      PROVE  \E x \in ReadableOf(tree) : \E m \in AllMarkers : FoundIn(f, m, x)
  BY <1>1, ReadableAre DEF ReportedInv
<1>2. ASSUME NEW comp \in components
      PROVE  \E x \in ReadableOf(tree) :
                /\ comp.path \in {x.names, None}
                /\ Occurrences(tree.content[x.node], comp.component) # {}
                /\ comp.version # <<>> =>
                     Shows(tree.content[x.node], comp.component, comp.version)
  <2>1. tree \in Trees
    BY DEF ReportedInv
  <2>2. PICK x \in Readable(tree) : SpokenOf(comp, x)
    BY DEF ReportedInv
  <2>3. x.node \in DOMAIN tree.content
    BY DEF Readable, Files
  <2> DEFINE c == tree.content[x.node]
  <2>4. ContentOK(c)
    BY <2>1, <2>3, TreesAssumption DEF TreeOK
  <2> HIDE DEF c
  <2>5. PICK s \in identify(c) : comp.component = s.component /\ comp.version = s.version
    BY <2>2 DEF c, SpokenOf
  <2>6. /\ comp.path \in {x.names, None}
        /\ Occurrences(c, comp.component) # {}
        /\ comp.version # <<>> => Shows(c, comp.component, comp.version)
    BY <2>2, <2>4, <2>5, VersionsStand DEF SpokenOf
  <2>7. x \in ReadableOf(tree)
    BY <2>1, ReadableAre
  <2> QED BY <2>6, <2>7 DEF c
<1> QED BY <1>1, <1>2 DEF FindingsAreTrue, FoundIn, Shows

\* For any trees, contents, links and cut names, and also when there is no memory
\* for a file, a rule, a list or a copy of a string: a finding is a detector's or a
\* sound rule's, whose pattern is in the file its path names; a component's marker
\* is in that file and, if a version is reported, that version, behind the marker
\* or as a string of its own next to "Dropbear".  An entry that has lost a string
\* says what is left of this.  (walk.c, pattern_scan.c, component_identify.c,
\* finding.c and inventory.c.)
THEOREM FindingsAreTrueHolds == Spec => []FindingsAreTrue
<1> DEFINE Inv == OpenDirs /\ RulesInv /\ PassInv /\ ReportedInv
<1>1. Init => RulesInv
  BY DEF Init, RulesInv, RulesLoaded
<1>2. Init => Inv
  BY <1>1, OpenDirsInit, PassInit DEF Init, ReportedInv
<1>3. Inv /\ [Next]_vars => Inv'
  BY OpenDirsStep, RulesStep, PassStep, ReportedStep
<1>4. Inv => FindingsAreTrue
  BY ReportedIsTrue
<1> QED BY <1>2, <1>3, <1>4, PTL DEF Spec

-----------------------------------------------------------------------------
(* What a walk has before it.                                              *)

\* Names lead to one entry only.
LEMMA SameNames ==
    ASSUME NEW t, NEW k \in 0 .. MaxDepth, NEW y \in Levels(t)[k], NEW z \in Levels(t)[k],
           \A n \in 1 .. k : y.names[n] = z.names[n]
    PROVE  y = z
<1>1. /\ y.names \in Seq(NamesOf(t)) /\ Len(y.names) = k
      /\ z.names \in Seq(NamesOf(t)) /\ Len(z.names) = k
  BY LevelsArePlaces DEF IsPlace
<1> DEFINE p == y.names
           q == z.names
<1>2. /\ p \in Seq(NamesOf(t)) /\ q \in Seq(NamesOf(t)) /\ Len(p) = Len(q)
      /\ \A n \in 1 .. Len(p) : p[n] = q[n]
  BY <1>1
<1> HIDE DEF p, q
<1>3. p = q
  BY ONLY <1>2, SeqEqual
<1> QED BY <1>3, NamesLead DEF p, q

\* A file is under one path.
LEMMA FilesNamed ==
    ASSUME NEW t, NEW x \in Files(t), NEW y \in Files(t), x.names = y.names
    PROVE  x = y
<1>1. PICK k \in 0 .. MaxDepth : x \in Levels(t)[k]
  BY DEF Files, All
<1>2. PICK l \in 0 .. MaxDepth : y \in Levels(t)[l]
  BY DEF Files, All
<1>3. k = l
  BY <1>1, <1>2, LevelsArePlaces DEF IsPlace
<1> QED BY <1>1, <1>2, <1>3, NamesLead

\* The path x goes on from z, k levels down, through the entry e.
Leads(x, z, k, e) ==
    /\ Len(x.names) > k
    /\ \A n \in 1 .. k : x.names[n] = z.names[n]
    /\ x.names[k + 1] = e.name

\* A file under an entry is what the entry leads to, or is under an entry of it.
LEMMA Under ==
    ASSUME NEW t, TreeOK(t), NEW k \in Nat, k < MaxDepth, NEW z \in Levels(t)[k],
           z.node \in DOMAIN t.entries, NEW e \in t.entries[z.node],
           NEW x \in Files(t), Leads(x, z, k, e)
    PROVE  LET y == Child(t, z, e.name)
           IN /\ y \in Levels(t)[k + 1]
              /\ \/ x = y
                 \/ /\ y.node \in DOMAIN t.entries /\ y.node \notin t.unreadable
                    /\ \E d \in t.entries[y.node] : Leads(x, y, k + 1, d)
<1> DEFINE y == Child(t, z, e.name)
<1>1. PICK l \in 0 .. MaxDepth : x \in Levels(t)[l]
  BY DEF Files, All
<1>2. Len(x.names) = l /\ k < l /\ k \in 0 .. MaxDepth /\ k + 1 \in 0 .. MaxDepth
  <2>1. Len(x.names) = l
    BY <1>1, LevelsArePlaces DEF IsPlace
  <2>2. l > k
    BY <2>1 DEF Leads
  <2> QED BY <2>1, <2>2, DepthAssumption
<1>3. PICK u \in Levels(t)[k] :
        /\ \A n \in 1 .. k : u.names[n] = x.names[n]
        /\ \E d \in t.entries[u.node] :
             /\ d.name = x.names[k + 1]
             /\ Child(t, u, d.name) \in Levels(t)[k + 1]
             /\ k + 1 = l => x = Child(t, u, d.name)
  BY <1>1, <1>2, Ancestor
<1>4. u = z
  <2>1. \A n \in 1 .. k : u.names[n] = z.names[n]
    BY <1>3 DEF Leads
  <2> QED BY <1>2, <2>1, SameNames
<1>5. /\ x.names[k + 1] = e.name
      /\ y \in Levels(t)[k + 1]
      /\ k + 1 = l => x = y
  BY <1>3, <1>4 DEF Leads
<1>6. \A n \in 1 .. k + 1 : x.names[n] = y.names[n]
  <2>1. IsPlace(t, k, z)
    BY <1>2, LevelsArePlaces
  <2>2. e.name \in NamesOf(t)
    BY DEF NamesOf
  <2>3. y.names[k + 1] = e.name /\ \A n \in 1 .. k : y.names[n] = z.names[n]
    BY <2>1, <2>2, ChildIs
  <2> HIDE DEF y
  <2>4. \A n \in 1 .. k + 1 : n \in 1 .. k \/ n = k + 1
    OBVIOUS
  <2> QED BY <1>5, <2>3, <2>4 DEF Leads
<1> HIDE DEF y
<1>7. CASE k + 1 = l
  BY <1>5, <1>7 DEF y
<1>8. CASE k + 1 # l
  <2>1. k + 1 < l /\ k + 1 \in Nat
    BY <1>2, <1>8
  <2>2. PICK v \in Levels(t)[k + 1] :
          /\ \A n \in 1 .. k + 1 : v.names[n] = x.names[n]
          /\ v.node \in DOMAIN t.entries /\ v.node \notin t.unreadable
          /\ \E d \in t.entries[v.node] : d.name = x.names[(k + 1) + 1]
    BY <1>1, <2>1, Ancestor
  <2>3. v = y
    <3>1. \A n \in 1 .. k + 1 : v.names[n] = y.names[n]
      BY <1>6, <2>2
    <3> QED BY <1>2, <1>5, <3>1, SameNames
  <2>4. PICK d \in t.entries[y.node] : d.name = x.names[(k + 1) + 1]
    BY <2>2, <2>3
  <2>5. Leads(x, y, k + 1, d)
    BY <1>2, <1>6, <2>1, <2>4 DEF Leads
  <2> QED BY <1>5, <2>2, <2>3, <2>5 DEF y
<1> QED BY <1>7, <1>8

\* What is under an entry of what an entry leads to, is under the entry.
LEMMA Above ==
    ASSUME NEW t, NEW k \in Nat, k < MaxDepth, NEW z \in Levels(t)[k],
           NEW n \in NamesOf(t), NEW y, y.names = Child(t, z, n).names,
           NEW x, NEW d, Len(x.names) \in Nat, Leads(x, y, k + 1, d) \/ x.names = y.names,
           NEW e, e.name = n
    PROVE  Leads(x, z, k, e)
<1>1. k \in 0 .. MaxDepth
  BY DepthAssumption
<1>2. IsPlace(t, k, z)
  BY <1>1, LevelsArePlaces
<1>3. y.names[k + 1] = n /\ (\A h \in 1 .. k : y.names[h] = z.names[h]) /\ Len(y.names) = k + 1
  <2> DEFINE c == Child(t, z, n)
  <2>1. /\ c.names[k + 1] = n /\ \A h \in 1 .. k : c.names[h] = z.names[h]
        /\ Len(c.names) = k + 1
    BY <1>2, ChildIs DEF IsPlace
  <2> HIDE DEF c
  <2>2. y.names = c.names
    BY DEF c
  <2> QED BY <2>1, <2>2
<1>4. Len(x.names) > k
  BY <1>3 DEF Leads
<1>5. x.names[k + 1] = y.names[k + 1] /\ \A h \in 1 .. k : x.names[h] = y.names[h]
  <2>1. k + 1 \in 1 .. k + 1 /\ \A h \in 1 .. k : h \in 1 .. k + 1
    OBVIOUS
  <2> QED BY <2>1 DEF Leads
<1> QED BY <1>3, <1>4, <1>5 DEF Leads

-----------------------------------------------------------------------------
(* The open directories of a walk of a tree that fits.                     *)

\* The directory k levels down is open under its own path.
Opened(t, k, f) ==
    /\ IsFrame(f) /\ OpenAt(t, k, f) /\ f.left \subseteq t.entries[f.node]
    /\ f.len = t.len + PathLen(f.names)

\* The inner directories are reached through entries that were taken.
Nested(t, s) ==
    /\ \A j \in 1 .. Len(s) : Opened(t, Len(s) - j, s[j])
    /\ \A j \in 1 .. Len(s) : \A a \in 1 .. j - 1 :
        \E e \in t.entries[s[j].node] : e \notin s[j].left /\ Leads(s[a], s[j], Len(s) - j, e)

Ahead(s, x) ==
    \E j \in 1 .. Len(s) : \E e \in s[j].left : Leads(x, s[j], Len(s) - j, e)

\* A walk that is over has nothing before it.
LEMMA NoneAhead == \A x : ~Ahead(<<>>, x)
<1>1. Len(<<>>) = 0
  OBVIOUS
<1> QED BY <1>1 DEF Ahead

\* An entry that is taken is ahead no more, nor what is under it.
LEMMA AheadMoved ==
    ASSUME NEW t, TreeOK(t), NEW s, IsStack(s), s # <<>>, Nested(t, s), NEW e \in s[1].left,
           NEW u, NEW g, Moved(s, u, g), g.names = s[1].names, g.left = s[1].left \ {e}
    PROVE  \A x : Ahead(u, x) <=> Ahead(s, x) /\ ~Leads(x, s[1], Len(s) - 1, e)
<1> DEFINE m == Len(s)
<1>1. m \in Nat \ {0} /\ 1 \in 1 .. m
  BY StackLen
<1>2. Len(u) = m /\ u[1] = g /\ \A j \in 2 .. m : u[j] = s[j]
  BY DEF Moved
<1>3. \A j \in 1 .. m : /\ s[j].left \subseteq t.entries[s[j].node]
                        /\ s[j].node \in DOMAIN t.entries
  BY DEF Nested, Opened, OpenAt
<1>4. \A j \in 1 .. m : \A a, b \in t.entries[s[j].node] : a.name = b.name => a = b
  BY <1>3 DEF TreeOK
<1>5. \A j \in 1 .. m : \A x, d : Leads(x, u[j], m - j, d) <=> Leads(x, s[j], m - j, d)
  <2>1. \A j \in 1 .. m : u[j].names = s[j].names
    <3>1. \A j \in 1 .. m : j = 1 \/ j \in 2 .. m
      BY <1>1
    <3> QED BY <1>2, <3>1
  <2> QED BY <2>1 DEF Leads
<1>6. ASSUME NEW x, Ahead(u, x) PROVE Ahead(s, x) /\ ~Leads(x, s[1], m - 1, e)
  <2>1. PICK j \in 1 .. m : \E d \in u[j].left : Leads(x, u[j], m - j, d)
    BY <1>2, <1>6 DEF Ahead
  <2>2. PICK d \in u[j].left : Leads(x, u[j], m - j, d)
    BY <2>1
  <2>3. Leads(x, s[j], m - j, d)
    BY <1>5, <2>2
  <2>4. CASE j = 1
    <3>1. d \in s[1].left /\ d # e
      BY <1>2, <2>2, <2>4
    <3>2. d.name # e.name
      BY <1>1, <1>3, <1>4, <3>1
    <3>3. Leads(x, s[1], m - 1, d)
      BY <2>3, <2>4
    <3>4. ~Leads(x, s[1], m - 1, e)
      BY <3>2, <3>3 DEF Leads
    <3> QED BY <1>1, <3>1, <3>3, <3>4 DEF Ahead
  <2>5. CASE j # 1
    <3>1. j \in 2 .. m /\ 1 \in 1 .. j - 1
      BY <1>1, <2>5
    <3>2. d \in s[j].left
      BY <1>2, <2>2, <3>1
    <3>3. PICK b \in t.entries[s[j].node] : b \notin s[j].left /\ Leads(s[1], s[j], m - j, b)
      BY <3>1 DEF Nested
    <3>4. b.name # d.name
      BY <1>3, <1>4, <3>2, <3>3
    <3>5. ASSUME Leads(x, s[1], m - 1, e) PROVE FALSE
      <4>1. (m - j) + 1 \in 1 .. m - 1
        BY <1>1, <3>1
      <4>2. x.names[(m - j) + 1] = s[1].names[(m - j) + 1]
        BY <3>5, <4>1 DEF Leads
      <4>3. x.names[(m - j) + 1] = d.name /\ s[1].names[(m - j) + 1] = b.name
        BY <2>3, <3>3 DEF Leads
      <4> QED BY <3>4, <4>2, <4>3
    <3> QED BY <2>3, <3>2, <3>5 DEF Ahead
  <2> QED BY <2>4, <2>5
<1>7. ASSUME NEW x, Ahead(s, x), ~Leads(x, s[1], m - 1, e) PROVE Ahead(u, x)
  <2>1. PICK j \in 1 .. m : \E d \in s[j].left : Leads(x, s[j], m - j, d)
    BY <1>7 DEF Ahead
  <2>2. PICK d \in s[j].left : Leads(x, s[j], m - j, d)
    BY <2>1
  <2>3. Leads(x, u[j], m - j, d)
    BY <1>5, <2>2
  <2>4. d \in u[j].left
    <3>1. CASE j = 1
      BY <1>2, <1>7, <2>2, <3>1
    <3>2. CASE j # 1
      <4>1. j \in 2 .. m
        BY <1>1, <3>2
      <4> QED BY <1>2, <2>2, <4>1
    <3> QED BY <3>1, <3>2
  <2> QED BY <1>2, <2>3, <2>4 DEF Ahead
<1> QED BY <1>6, <1>7 DEF m

\* Opening a directory replaces its entry by those in it.
LEMMA AheadPushed ==
    ASSUME NEW t, TreeOK(t), NEW s, IsStack(s), s # <<>>, Nested(t, s), NEW e \in s[1].left,
           NEW u, NEW g, NEW b, Pushed(s, u, b, g), g.names = s[1].names, g.left = s[1].left \ {e}
    PROVE  \A x : Ahead(u, x) <=> \/ Ahead(s, x) /\ ~Leads(x, s[1], Len(s) - 1, e)
                                  \/ \E d \in b.left : Leads(x, b, Len(s), d)
<1> DEFINE m == Len(s)
           v == [j \in 1 .. m |-> u[j + 1]]
<1>1. m \in Nat \ {0}
  BY StackLen
<1>2. /\ IsStack(u) /\ Len(u) = m + 1 /\ u[1] = b /\ u[2] = g
      /\ \A j \in 3 .. m + 1 : u[j] = s[j - 1]
  BY DEF Pushed
<1>3. Moved(s, v, g)
  <2>1. PICK S : u \in Seq(S)
    BY <1>2 DEF IsStack
  <2>2. v \in Seq(S) /\ Len(v) = m
    <3>1. \A j \in 1 .. m : u[j + 1] \in S
      BY <1>1, <1>2, <2>1
    <3> QED BY <1>1, <3>1
  <2>3. v[1] = g
    BY <1>1, <1>2
  <2>4. \A j \in 2 .. m : v[j] = s[j]
    <3>1. ASSUME NEW j \in 2 .. m PROVE v[j] = s[j]
      <4>1. j + 1 \in 3 .. m + 1 /\ (j + 1) - 1 = j /\ j \in 1 .. m
        BY <1>1
      <4> QED BY <1>2, <4>1
    <3> QED BY <3>1
  <2> QED BY <2>2, <2>3, <2>4 DEF Moved, IsStack
<1>4. \A j \in 1 .. m : v[j] = u[j + 1]
  OBVIOUS
<1>5. Len(v) = m
  BY <1>3 DEF Moved
<1> HIDE DEF v, m
<1>6. \A x : Ahead(v, x) <=> Ahead(s, x) /\ ~Leads(x, s[1], m - 1, e)
  BY <1>3, AheadMoved DEF m
<1>7. \A x : Ahead(u, x) <=> Ahead(v, x) \/ \E d \in b.left : Leads(x, b, m, d)
  <2> TAKE x
  <2>1. ASSUME Ahead(u, x) PROVE Ahead(v, x) \/ \E d \in b.left : Leads(x, b, m, d)
    <3>1. PICK j \in 1 .. m + 1 : \E d \in u[j].left : Leads(x, u[j], (m + 1) - j, d)
      BY <1>2, <2>1 DEF Ahead
    <3>2. CASE j = 1
      <4>1. (m + 1) - j = m
        BY <1>1, <3>2
      <4> QED BY <1>2, <3>1, <3>2, <4>1
    <3>3. CASE j # 1
      <4> DEFINE h == j - 1
      <4>1. h \in 1 .. m /\ h + 1 = j /\ (m + 1) - j = m - h
        BY <1>1, <3>3
      <4> HIDE DEF h
      <4>2. \E d \in v[h].left : Leads(x, v[h], m - h, d)
        BY <1>4, <3>1, <4>1
      <4> QED BY <1>5, <4>1, <4>2 DEF Ahead
    <3> QED BY <3>2, <3>3
  <2>2. ASSUME Ahead(v, x) PROVE Ahead(u, x)
    <3>1. PICK j \in 1 .. m : \E d \in v[j].left : Leads(x, v[j], m - j, d)
      BY <1>5, <2>2 DEF Ahead
    <3> DEFINE h == j + 1
    <3>2. h \in 1 .. m + 1 /\ (m + 1) - h = m - j /\ v[j] = u[h]
      BY <1>1, <1>4
    <3> HIDE DEF h
    <3> QED BY <1>2, <3>1, <3>2 DEF Ahead
  <2>3. ASSUME NEW d \in b.left, Leads(x, b, m, d) PROVE Ahead(u, x)
    <3>1. 1 \in 1 .. m + 1 /\ (m + 1) - 1 = m
      BY <1>1
    <3> QED BY <1>2, <2>3, <3>1 DEF Ahead
  <2> QED BY <2>1, <2>2, <2>3
<1> QED BY <1>6, <1>7 DEF m

\* Closing a directory with nothing left in it changes nothing.
LEMMA AheadPopped ==
    ASSUME NEW s, IsStack(s), s # <<>>, s[1].left = {}, NEW u, Popped(s, u)
    PROVE  \A x : Ahead(u, x) <=> Ahead(s, x)
<1> DEFINE m == Len(s)
<1>1. m \in Nat \ {0}
  BY StackLen
<1>2. Len(u) = m - 1 /\ \A j \in 1 .. m - 1 : u[j] = s[j + 1]
  BY DEF Popped
<1>3. Len(s) = m
  OBVIOUS
<1> HIDE DEF m
<1> TAKE x
<1>4. ASSUME Ahead(u, x) PROVE Ahead(s, x)
  <2>1. PICK j \in 1 .. m - 1 : \E d \in u[j].left : Leads(x, u[j], (m - 1) - j, d)
    BY <1>2, <1>4 DEF Ahead
  <2> DEFINE h == j + 1
  <2>2. h \in 1 .. m /\ (m - 1) - j = m - h /\ u[j] = s[h]
    BY <1>1, <1>2
  <2> HIDE DEF h
  <2> QED BY <1>3, <2>1, <2>2 DEF Ahead
<1>5. ASSUME Ahead(s, x) PROVE Ahead(u, x)
  <2>1. PICK j \in 1 .. m : \E d \in s[j].left : Leads(x, s[j], m - j, d)
    BY <1>3, <1>5 DEF Ahead
  <2> DEFINE h == j - 1
  <2>2. j # 1
    BY <2>1
  <2>3. h \in 1 .. m - 1 /\ m - j = (m - 1) - h /\ h + 1 = j
    BY <1>1, <2>2
  <2> HIDE DEF h
  <2>4. u[h] = s[j]
    BY <1>2, <2>3
  <2> QED BY <1>2, <2>1, <2>3, <2>4 DEF Ahead
<1> QED BY <1>4, <1>5

-----------------------------------------------------------------------------
(* The directories of a walk stay nested.                                  *)

\* A tree whose paths fit is one of the trees.
LEMMA FittingIs ==
    ASSUME NEW t \in FittingTrees
    PROVE  t \in Trees /\ TreeOK(t) /\ Fits(t) /\ t # None
BY TreesAssumption DEF FittingTrees

\* The directories stay nested when an entry is taken,
LEMMA NestedMoved ==
    ASSUME NEW t, NEW s, IsStack(s), s # <<>>, Nested(t, s), NEW u, NEW g, Moved(s, u, g),
           Opened(t, Len(s) - 1, g), g.names = s[1].names, g.node = s[1].node,
           g.left \subseteq s[1].left
    PROVE  Nested(t, u)
<1> DEFINE m == Len(s)
<1>1. m \in Nat \ {0}
  BY StackLen
<1>2. Len(u) = m /\ u[1] = g /\ \A j \in 2 .. m : u[j] = s[j]
  BY DEF Moved
<1>3. \A j \in 1 .. m : /\ u[j].names = s[j].names /\ u[j].node = s[j].node
                        /\ u[j].left \subseteq s[j].left
  <2>1. \A j \in 1 .. m : j = 1 \/ j \in 2 .. m
    BY <1>1
  <2> QED BY <1>2, <2>1
<1>4. ASSUME NEW j \in 1 .. m PROVE Opened(t, m - j, u[j])
  <2>1. CASE j = 1
    BY <1>2, <2>1
  <2>2. CASE j # 1
    <3>1. j \in 2 .. m
      BY <1>1, <2>2
    <3> QED BY <1>2, <3>1 DEF Nested
  <2> QED BY <2>1, <2>2
<1>5. ASSUME NEW j \in 1 .. m, NEW a \in 1 .. j - 1
      PROVE  \E e \in t.entries[u[j].node] : e \notin u[j].left /\ Leads(u[a], u[j], m - j, e)
  <2>1. PICK e \in t.entries[s[j].node] : e \notin s[j].left /\ Leads(s[a], s[j], m - j, e)
    BY DEF Nested
  <2>2. a \in 1 .. m
    BY <1>1
  <2>3. Leads(u[a], u[j], m - j, e)
    BY <1>3, <2>1, <2>2 DEF Leads
  <2> QED BY <1>3, <2>1, <2>3
<1> HIDE DEF m
<1> QED BY <1>2, <1>4, <1>5 DEF Nested

\* when the directory it is gets opened,
LEMMA NestedPushed ==
    ASSUME NEW t, NEW s, IsStack(s), s # <<>>, Nested(t, s),
           NEW u, NEW b, NEW g, Pushed(s, u, b, g),
           Opened(t, Len(s) - 1, g), g.names = s[1].names, g.node = s[1].node,
           g.left \subseteq s[1].left,
           Len(s) <= MaxDepth, Opened(t, Len(s), b), NEW e \in t.entries[g.node], e \notin g.left,
           Leads(b, g, Len(s) - 1, e)
    PROVE  Nested(t, u)
<1> DEFINE m == Len(s)
<1>1. m \in Nat \ {0}
  BY StackLen
<1>2. Len(u) = m + 1 /\ u[1] = b /\ u[2] = g /\ \A j \in 3 .. m + 1 : u[j] = s[j - 1]
  BY DEF Pushed
<1>3. ASSUME NEW j \in 2 .. m + 1
      PROVE  /\ j - 1 \in 1 .. m /\ (m + 1) - j = m - (j - 1)
             /\ u[j].names = s[j - 1].names /\ u[j].node = s[j - 1].node
             /\ u[j].left \subseteq s[j - 1].left /\ Opened(t, (m + 1) - j, u[j])
  <2>1. j - 1 \in 1 .. m /\ (m + 1) - j = m - (j - 1)
    BY <1>1
  <2>2. CASE j = 2
    <3>1. j - 1 = 1 /\ (m + 1) - j = m - 1
      BY <1>1, <2>2
    <3> QED BY <1>2, <2>1, <2>2, <3>1
  <2>3. CASE j # 2
    <3>1. u[j] = s[j - 1]
      <4>1. j \in 3 .. m + 1
        BY <1>1, <2>3
      <4> QED BY <1>2, <4>1
    <3>2. Opened(t, m - (j - 1), s[j - 1])
      BY <2>1 DEF Nested
    <3> QED BY <2>1, <3>1, <3>2
  <2> QED BY <2>2, <2>3
<1>4. ASSUME NEW j \in 1 .. m + 1 PROVE Opened(t, (m + 1) - j, u[j])
  <2>1. CASE j = 1
    <3>1. (m + 1) - j = m
      BY <1>1, <2>1
    <3> QED BY <1>2, <2>1, <3>1
  <2>2. CASE j # 1
    <3>1. j \in 2 .. m + 1
      BY <1>1, <2>2
    <3> QED BY <1>3, <3>1
  <2> QED BY <2>1, <2>2
<1>5. ASSUME NEW j \in 1 .. m + 1, NEW a \in 1 .. j - 1
      PROVE  \E d \in t.entries[u[j].node] : d \notin u[j].left /\ Leads(u[a], u[j], (m + 1) - j, d)
  <2>1. j \in 2 .. m + 1
    BY <1>1
  <2>2. CASE a # 1
    <3> DEFINE h == a - 1
               k == j - 1
    <3>1. h \in 1 .. k - 1 /\ k \in 1 .. m /\ a \in 2 .. m + 1
      BY <1>1, <2>1, <2>2
    <3>2. PICK d \in t.entries[s[k].node] : d \notin s[k].left /\ Leads(s[h], s[k], m - k, d)
      <4> HIDE DEF h, k
      <4> QED BY <3>1 DEF Nested
    <3>3. u[a].names = s[h].names /\ u[j].names = s[k].names /\ u[j].node = s[k].node
          /\ u[j].left \subseteq s[k].left /\ (m + 1) - j = m - k
      BY <1>3, <2>1, <3>1
    <3> HIDE DEF h, k
    <3>4. Leads(u[a], u[j], (m + 1) - j, d)
      BY <3>2, <3>3 DEF Leads
    <3> QED BY <3>2, <3>3, <3>4
  <2>3. CASE a = 1 /\ j = 2
    <3>1. (m + 1) - j = m - 1
      BY <1>1, <2>3
    <3> QED BY <1>2, <2>3, <3>1
  <2>4. CASE a = 1 /\ j # 2
    <3> DEFINE k == j - 1
    <3>1. k \in 1 .. m /\ 1 \in 1 .. k - 1 /\ m - k \in Nat /\ (m - k) + 1 <= m - 1
      BY <1>1, <2>1, <2>4
    <3>2. PICK d \in t.entries[s[k].node] : d \notin s[k].left /\ Leads(s[1], s[k], m - k, d)
      <4> HIDE DEF k
      <4> QED BY <3>1 DEF Nested
    <3>3. u[j].names = s[k].names /\ u[j].node = s[k].node
          /\ u[j].left \subseteq s[k].left /\ (m + 1) - j = m - k
      BY <1>3, <2>1
    <3> HIDE DEF k
    <3>4. Leads(b, s[k], m - k, d)
      <4>1. Len(b.names) = m
        <5>1. m \in 0 .. MaxDepth
          BY <1>1, DepthAssumption
        <5> QED BY <5>1, LevelsArePlaces DEF Opened, OpenAt, IsPlace, Place
      <4>2. \A n \in 1 .. (m - k) + 1 : b.names[n] = s[1].names[n]
        <5>1. \A n \in 1 .. (m - k) + 1 : n \in 1 .. m - 1
          BY <1>1, <3>1
        <5> QED BY <5>1 DEF Leads
      <4>3. (m - k) + 1 \in 1 .. (m - k) + 1 /\ m > m - k /\ \A n \in 1 .. m - k : n \in 1 .. (m - k) + 1
        BY <1>1, <3>1
      <4> QED BY <3>2, <4>1, <4>2, <4>3 DEF Leads
    <3>5. Leads(u[a], u[j], (m + 1) - j, d)
      BY <1>2, <2>4, <3>3, <3>4 DEF Leads
    <3> QED BY <3>2, <3>3, <3>5
  <2> QED BY <2>2, <2>3, <2>4
<1> HIDE DEF m
<1> QED BY <1>2, <1>4, <1>5 DEF Nested

\* and when one is closed.
LEMMA NestedPopped ==
    ASSUME NEW t, NEW s, IsStack(s), s # <<>>, Nested(t, s), NEW u, Popped(s, u)
    PROVE  Nested(t, u)
<1> DEFINE m == Len(s)
<1>1. m \in Nat \ {0}
  BY StackLen
<1>2. Len(u) = m - 1 /\ \A j \in 1 .. m - 1 : u[j] = s[j + 1]
  BY DEF Popped
<1>3. ASSUME NEW j \in 1 .. m - 1 PROVE j + 1 \in 1 .. m /\ (m - 1) - j = m - (j + 1)
  BY <1>1
<1>4. \A j \in 1 .. m - 1 : Opened(t, (m - 1) - j, u[j])
  BY <1>2, <1>3 DEF Nested
<1>5. ASSUME NEW j \in 1 .. m - 1, NEW a \in 1 .. j - 1
      PROVE  \E e \in t.entries[u[j].node] : e \notin u[j].left /\ Leads(u[a], u[j], (m - 1) - j, e)
  <2>1. a \in 1 .. m - 1 /\ a + 1 \in 1 .. (j + 1) - 1
    BY <1>1
  <2> DEFINE k == j + 1
             h == a + 1
  <2>2. /\ k \in 1 .. m /\ h \in 1 .. k - 1 /\ u[j] = s[k] /\ u[a] = s[h]
        /\ (m - 1) - j = m - k
    BY <1>2, <1>3, <2>1
  <2> HIDE DEF k, h
  <2> QED BY <2>2 DEF Nested
<1> HIDE DEF m
<1> QED BY <1>2, <1>4, <1>5 DEF Nested

-----------------------------------------------------------------------------
(* Every file is visited once.                                             *)

\* Each file that is not ahead of the walk has been visited.
SweepInv ==
    tree \in FittingTrees =>
        /\ Nested(tree, stack)
        /\ ~again
        /\ \A x \in Files(tree) : x.names \in seen <=> ~Ahead(stack, x)

\* All files of a tree are ahead of a walk that begins.
LEMMA RootFiles ==
    ASSUME NEW t, TreeOK(t), NEW x \in Files(t)
    PROVE  t.root \notin t.unreadable /\ \E e \in t.entries[t.root] : Leads(x, Root(t), 0, e)
<1>1. PICK l \in 0 .. MaxDepth : x \in Levels(t)[l]
  BY DEF Files, All
<1>2. Levels(t)[0] = {Root(t)} /\ Root(t).node = t.root
  BY LevelsAre DEF Root
<1>3. l # 0
  BY <1>1, <1>2 DEF Files, TreeOK
<1>4. 0 \in Nat /\ 0 < l /\ 0 + 1 = 1
  BY <1>3
<1>5. PICK y \in Levels(t)[0] :
        /\ y.node \in DOMAIN t.entries /\ y.node \notin t.unreadable
        /\ \E e \in t.entries[y.node] : e.name = x.names[0 + 1]
  BY <1>1, <1>4, Ancestor
<1>6. Len(x.names) = l
  BY <1>1, LevelsArePlaces DEF IsPlace
<1>7. \A e : e.name = x.names[0 + 1] => Leads(x, Root(t), 0, e)
  BY <1>4, <1>6 DEF Leads
<1> QED BY <1>2, <1>5, <1>7

\* A pass begins with every file before it and none seen.
LEMMA SweepBegins ==
    ASSUME NEW t \in FittingTrees, NEW n, StartWalk(t, n)
    PROVE  /\ Nested(t, stack')
           /\ \A x \in Files(t) : x.names \in seen' <=> ~Ahead(stack', x)
<1>1. t \in Trees /\ TreeOK(t) /\ seen' = {}
  BY FittingIs DEF StartWalk
<1> DEFINE f == [node |-> t.root, names |-> <<>>, len |-> t.len, links |-> 0,
                 left |-> t.entries[t.root]]
<1>2. \/ stack' = <<>> /\ t.root \in t.unreadable
      \/ stack' = <<f>> /\ t.root \notin t.unreadable
  BY <1>1, WalkBegins
<1>3. CASE t.root \in t.unreadable
  <2>1. stack' = <<>> /\ Len(<<>>) = 0
    BY <1>2, <1>3
  <2>2. Files(t) = {}
    BY <1>1, <1>3, RootFiles
  <2>3. Nested(t, <<>>)
    BY <2>1 DEF Nested
  <2> QED BY <2>1, <2>2, <2>3
<1>4. CASE t.root \notin t.unreadable
  <2>1. stack' = <<f>>
    BY <1>2, <1>4
  <2>2. /\ f.node = t.root /\ f.names = <<>> /\ f.len = t.len /\ f.left = t.entries[t.root]
        /\ IsFrame(f) /\ Place(f) = Root(t)
    BY DEF IsFrame, Place, Root
  <2> HIDE DEF f
  <2>3. Len(<<f>>) = 1 /\ <<f>>[1] = f
    OBVIOUS
  <2>4. PathLen(<<>>) = 0
    <3> DEFINE w == [j \in DOMAIN <<>> |-> 1 + NameLen[<<>>[j]]]
    <3>1. w \in [1 .. 0 -> Nat] /\ Len(<<>>) = 0
      OBVIOUS
    <3>2. PathLen(<<>>) = Sums(w)[Len(<<>>)]
      BY DEF PathLen
    <3> HIDE DEF w
    <3>3. Sums(w)[0] = 0
      <4>1. 0 \in Nat
        OBVIOUS
      <4> QED BY <3>1, <4>1, SumsAre
    <3> QED BY <3>1, <3>2, <3>3
  <2>5. Opened(t, 0, f)
    <3>1. Root(t) \in Levels(t)[0]
      BY LevelsAre
    <3>2. t.root \in DOMAIN t.entries /\ t.len \in Nat
      BY <1>1 DEF TreeOK
    <3>3. OpenAt(t, 0, f)
      BY <1>4, <2>2, <3>1, <3>2 DEF OpenAt
    <3>4. f.len = t.len + PathLen(f.names)
      BY <2>2, <2>4, <3>2
    <3> QED BY <2>2, <3>3, <3>4 DEF Opened
  <2>6. Nested(t, <<f>>)
    <3>1. \A j \in 1 .. 1 : j = 1 /\ 1 - j = 0 /\ 1 .. j - 1 = {}
      OBVIOUS
    <3> QED BY <2>3, <2>5, <3>1 DEF Nested
  <2>7. ASSUME NEW x \in Files(t) PROVE Ahead(<<f>>, x)
    <3>1. PICK e \in t.entries[t.root] : Leads(x, Root(t), 0, e)
      BY <1>1, RootFiles
    <3>2. Leads(x, f, 0, e)
      BY <2>2, <3>1 DEF Leads, Root
    <3>3. 1 \in 1 .. 1 /\ 1 - 1 = 0
      OBVIOUS
    <3> QED BY <2>2, <2>3, <3>1, <3>2, <3>3 DEF Ahead
  <2> QED BY <1>1, <2>1, <2>6, <2>7
<1> QED BY <1>3, <1>4

-----------------------------------------------------------------------------
(* One entry of a directory.                                               *)

\* The entry the walk looks at, and what its path names.
LEMMA EntryOf ==
    ASSUME OpenDirs, SweepInv, tree \in FittingTrees, NEW e, NEW p, ReadEntry(e, p)
    PROVE  LET f == stack[1]
               k == Len(stack) - 1
               y == Child(tree, Place(f), e.name)
           IN /\ stack # <<>> /\ k \in Nat /\ k < MaxDepth /\ k + 1 = Len(stack)
              /\ e \in f.left /\ e \in tree.entries[f.node]
              /\ Opened(tree, k, f) /\ e.name \in NamesOf(tree)
              /\ IF y.links <= MAX_LINKS THEN Place(p) = y ELSE p.node = None
              /\ p.len = tree.len + PathLen(p.names)
<1>1. /\ stack # <<>> /\ e \in Head(stack).left
      /\ p = Join(tree, Head(stack), e.name)
  BY DEF ReadEntry
<1>2. Len(stack) \in Nat \ {0} /\ Head(stack) = stack[1] /\ Len(stack) <= MAX_OPEN
  BY <1>1, StackLen DEF OpenDirs
<1>3. TreeOK(tree) /\ Fits(tree) /\ Nested(tree, stack)
  BY FittingIs DEF SweepInv
<1> DEFINE f == stack[1]
           k == Len(stack) - 1
<1>4. k \in Nat /\ k < MaxDepth /\ k + 1 = Len(stack) /\ 1 \in 1 .. Len(stack)
  BY <1>2, DepthAssumption, ScanAssumption
<1>5. Opened(tree, k, f)
  BY <1>3, <1>4 DEF Nested
<1>6. e \in f.left /\ p = Join(tree, f, e.name)
  BY <1>1, <1>2
<1> HIDE DEF f, k
<1>7. /\ e \in tree.entries[f.node] /\ OpenAt(tree, k, f)
      /\ f.len = tree.len + PathLen(f.names) /\ f.node \in DOMAIN tree.entries
  BY <1>5, <1>6 DEF Opened, OpenAt
<1>8. /\ IF Child(tree, Place(f), e.name).links <= MAX_LINKS
         THEN Place(p) = Child(tree, Place(f), e.name) ELSE p.node = None
      /\ p.len = tree.len + PathLen(p.names)
  BY <1>3, <1>4, <1>6, <1>7, JoinFits
<1>9. e.name \in NamesOf(tree)
  BY <1>7 DEF NamesOf
<1> QED BY <1>1, <1>4, <1>5, <1>6, <1>7, <1>8, <1>9 DEF f, k

\* The files it stands for are the one it names, or those below it.
LEMMA EntryCovers ==
    ASSUME OpenDirs, SweepInv, tree \in FittingTrees, NEW e, NEW p, ReadEntry(e, p)
    PROVE  /\ \A x \in Files(tree) : Leads(x, stack[1], Len(stack) - 1, e) =>
                \/ x = Place(p)
                \/ /\ p.node \in DOMAIN tree.entries /\ p.node \notin tree.unreadable
                   /\ \E d \in tree.entries[p.node] : Leads(x, p, Len(stack), d)
           /\ p.node # None =>
                /\ Place(p) \in Levels(tree)[Len(stack)] /\ Len(stack) \in 0 .. MaxDepth
                /\ Openable(p.node) <=> p.node \notin tree.unreadable
                /\ \A x : /\ Len(x.names) \in Nat
                          /\ \/ x.names = p.names
                             \/ \E d \in tree.entries[p.node] : Leads(x, p, Len(stack), d)
                          => Leads(x, stack[1], Len(stack) - 1, e)
<1> DEFINE f == stack[1]
           k == Len(stack) - 1
           y == Child(tree, Place(f), e.name)
<1>1. /\ k \in Nat /\ k < MaxDepth /\ k + 1 = Len(stack)
      /\ e \in tree.entries[f.node]
      /\ Opened(tree, k, f) /\ e.name \in NamesOf(tree)
      /\ IF y.links <= MAX_LINKS THEN Place(p) = y ELSE p.node = None
  BY EntryOf
<1>2. TreeOK(tree) /\ Fits(tree)
  BY FittingIs
<1>3. Place(f) \in Levels(tree)[k] /\ Place(f).node = f.node /\ Place(f).names = f.names
      /\ f.node \in DOMAIN tree.entries /\ f.node \notin tree.unreadable
  BY <1>1 DEF Opened, OpenAt, Place
<1>4. Place(p).node = p.node /\ Place(p).names = p.names
  BY DEF Place
<1> HIDE DEF f, k
<1>5. k + 1 \in 1 .. MaxDepth /\ (k + 1) - 1 = k /\ k + 1 \in 0 .. MaxDepth
  BY <1>1, DepthAssumption
<1>6. y \in Levels(tree)[k + 1] <=> y.links <= MAX_LINKS
  <2> DEFINE c == Child(tree, Place(f), e.name)
  <2>1. c = Child(tree, Place(f), e.name)
    OBVIOUS
  <2> HIDE DEF c
  <2>2. c \in Levels(tree)[k + 1] <=>
             \E x \in Levels(tree)[(k + 1) - 1] :
                /\ x.node \in DOMAIN tree.entries /\ x.node \notin tree.unreadable
                /\ \E d \in tree.entries[x.node] : c = Child(tree, x, d.name)
                /\ c.links <= MAX_LINKS
    BY <1>5, LevelBelow
  <2>3. c \in Levels(tree)[k + 1] <=> c.links <= MAX_LINKS
    BY <1>1, <1>3, <1>5, <2>1, <2>2
  <2> QED BY <2>3 DEF c
<1>7. ASSUME NEW x \in Files(tree), Leads(x, f, k, e)
      PROVE  \/ x = Place(p)
             \/ /\ p.node \in DOMAIN tree.entries /\ p.node \notin tree.unreadable
                /\ \E d \in tree.entries[p.node] : Leads(x, p, k + 1, d)
  <2>1. Leads(x, Place(f), k, e)
    BY <1>3, <1>7 DEF Leads
  <2>2. /\ y \in Levels(tree)[k + 1]
        /\ \/ x = y
           \/ /\ y.node \in DOMAIN tree.entries /\ y.node \notin tree.unreadable
              /\ \E d \in tree.entries[y.node] : Leads(x, y, k + 1, d)
    BY <1>1, <1>2, <1>3, <2>1, Under
  <2>3. Place(p) = y
    BY <1>1, <1>6, <2>2
  <2> HIDE DEF y
  <2>4. y.node = p.node /\ y.names = p.names
    BY <1>4, <2>3
  <2>5. \A d : Leads(x, y, k + 1, d) => Leads(x, p, k + 1, d)
    BY <2>4 DEF Leads
  <2> QED BY <2>2, <2>3, <2>4, <2>5
<1>8. ASSUME p.node # None
      PROVE  /\ Place(p) = y /\ Place(p) \in Levels(tree)[k + 1]
             /\ Openable(p.node) <=> p.node \notin tree.unreadable
  <2>1. Place(p) = y /\ Place(p) \in Levels(tree)[k + 1]
    BY <1>1, <1>6, <1>8
  <2>2. Len(p.names) = k + 1 /\ Place(p) \in All(tree)
    BY <1>4, <1>5, <2>1, LevelsArePlaces DEF IsPlace, All
  <2>3. Len(stack) < MAX_OPEN
    BY <1>1, <1>2, <1>4, <2>2 DEF Fits
  <2> QED BY <2>1, <2>3 DEF Openable
<1>9. ASSUME p.node # None, NEW x, Len(x.names) \in Nat,
             x.names = p.names \/ \E d \in tree.entries[p.node] : Leads(x, p, k + 1, d)
      PROVE  Leads(x, f, k, e)
  <2>1. p.names = Child(tree, Place(f), e.name).names
    BY <1>4, <1>8, <1>9
  <2>2. PICK d : Leads(x, p, k + 1, d) \/ x.names = p.names
    BY <1>9
  <2>3. Leads(x, Place(f), k, e)
    BY <1>1, <1>3, <1>9, <2>1, <2>2, Above
  <2> QED BY <1>3, <2>3 DEF Leads
<1> HIDE DEF y
<1>10. k + 1 = Len(stack) /\ Len(stack) \in 0 .. MaxDepth
  BY <1>1, <1>5
<1> QED BY <1>7, <1>8, <1>9, <1>10 DEF f, k

\* What is left of the directory an entry is taken from.
LEMMA TakenIs ==
    ASSUME OpenDirs, SweepInv, tree \in FittingTrees, NEW e, NEW p, ReadEntry(e, p)
    PROVE  /\ Take(e).names = stack[1].names /\ Take(e).node = stack[1].node
           /\ Take(e).left = stack[1].left \ {e}
           /\ Opened(tree, Len(stack) - 1, Take(e))
<1> DEFINE f == stack[1]
           g == [node |-> f.node, names |-> f.names, len |-> f.len, links |-> f.links,
                 left |-> f.left \ {e}]
<1>1. stack # <<>> /\ Opened(tree, Len(stack) - 1, f)
  BY EntryOf
<1>2. Take(e) = g
  BY <1>1, TakeIs DEF Opened, OpenDirs
<1>3. /\ g.names = f.names /\ g.node = f.node /\ g.left = f.left \ {e} /\ g.len = f.len
      /\ IsFrame(g) /\ Place(g) = Place(f)
  BY DEF IsFrame, Place
<1> HIDE DEF f, g
<1>4. Opened(tree, Len(stack) - 1, g)
  BY <1>1, <1>3 DEF Opened, OpenAt
<1> QED BY <1>2, <1>3, <1>4 DEF f

\* An entry under which no file lies is passed over.
LEMMA SweepPasses ==
    ASSUME OpenDirs, SweepInv, tree \in FittingTrees, NEW e, NEW p, ReadEntry(e, p),
           Moved(stack, stack', Take(e)), seen' = seen, again' = again, tree' = tree,
           p.node \notin DOMAIN tree.content,
           p.node \in DOMAIN tree.entries => p.node \in tree.unreadable
    PROVE  SweepInv'
<1>1. /\ stack # <<>> /\ IsStack(stack) /\ Nested(tree, stack) /\ TreeOK(tree)
      /\ e \in stack[1].left
  BY EntryOf, FittingIs DEF OpenDirs, SweepInv
<1>2. /\ Take(e).names = stack[1].names /\ Take(e).node = stack[1].node
      /\ Take(e).left = stack[1].left \ {e}
      /\ Opened(tree, Len(stack) - 1, Take(e))
  BY TakenIs
<1>3. \A x : Ahead(stack', x) <=> Ahead(stack, x) /\ ~Leads(x, stack[1], Len(stack) - 1, e)
  BY <1>1, <1>2, AheadMoved
<1>4. Nested(tree, stack')
  <2>1. Take(e).left \subseteq stack[1].left
    BY <1>2
  <2> QED BY <1>1, <1>2, <2>1, NestedMoved
<1>5. ASSUME NEW x \in Files(tree) PROVE ~Leads(x, stack[1], Len(stack) - 1, e)
  <2>1. x.node \in DOMAIN tree.content
    BY DEF Files
  <2>2. x # Place(p)
    BY <2>1 DEF Place
  <2> QED BY <2>2, EntryCovers
<1> QED BY <1>1, <1>3, <1>4, <1>5 DEF SweepInv

\* A directory that is opened moves what is in it, and only that, before the walk.
LEMMA SweepEnters ==
    ASSUME OpenDirs, SweepInv, tree \in FittingTrees, NEW e, NEW p, ReadEntry(e, p),
           p.node \in DOMAIN tree.entries, Openable(p.node),
           Pushed(stack, stack', Entered(p), Take(e)), seen' = seen, again' = again, tree' = tree
    PROVE  SweepInv'
<1> DEFINE b == Entered(p)
           g == Take(e)
           m == Len(stack)
<1>1. /\ stack # <<>> /\ IsStack(stack) /\ Nested(tree, stack) /\ TreeOK(tree)
      /\ e \in stack[1].left /\ e \in tree.entries[stack[1].node]
      /\ p.len = tree.len + PathLen(p.names)
      /\ m \in Nat \ {0} /\ (m - 1) + 1 = m /\ m - 1 < MaxDepth
  <2>1. m \in Nat \ {0}
    BY EntryOf, StackLen DEF OpenDirs
  <2> QED BY <2>1, EntryOf, FittingIs DEF OpenDirs, SweepInv
<1>2. /\ g.names = stack[1].names /\ g.node = stack[1].node
      /\ g.left = stack[1].left \ {e} /\ Opened(tree, m - 1, g)
  BY TakenIs
<1>3. p.node # None
  BY <1>1 DEF TreeOK
<1>4. /\ Place(p) \in Levels(tree)[m] /\ m \in 0 .. MaxDepth /\ p.node \notin tree.unreadable
      /\ \A x : /\ Len(x.names) \in Nat
                /\ \/ x.names = p.names
                   \/ \E d \in tree.entries[p.node] : Leads(x, p, m, d)
                => Leads(x, stack[1], m - 1, e)
  BY <1>3, EntryCovers
<1>5. /\ b.node = p.node /\ b.names = p.names /\ b.left = tree.entries[p.node]
      /\ Opened(tree, m, b)
  <2>1. /\ b.node = p.node /\ b.names = p.names /\ b.left = tree.entries[p.node]
        /\ IsFrame(b) /\ Place(b) = Place(p) /\ b.len = p.len
    BY DEF Entered, IsFrame, Place
  <2> HIDE DEF b
  <2>2. OpenAt(tree, m, b)
    BY <1>4, <2>1 DEF OpenAt
  <2> QED BY <1>1, <2>1, <2>2 DEF Opened
<1>6. Len(b.names) = m
  BY <1>4, <1>5, LevelsArePlaces DEF IsPlace, Place
<1> HIDE DEF b, g, m
<1>7. \A d : (\A x : Leads(x, b, m, d) <=> Leads(x, p, m, d))
  BY <1>5 DEF Leads
<1>8. \A x : Ahead(stack', x) <=> \/ Ahead(stack, x) /\ ~Leads(x, stack[1], m - 1, e)
                                  \/ \E d \in b.left : Leads(x, b, m, d)
  <2>1. Pushed(stack, stack', b, g)
    BY DEF b, g
  <2> QED BY <1>1, <1>2, <2>1, AheadPushed DEF m
<1>9. Nested(tree, stack')
  <2>1. Pushed(stack, stack', b, g) /\ g.left \subseteq stack[1].left
        /\ e \in tree.entries[g.node] /\ e \notin g.left
    BY <1>1, <1>2 DEF b, g
  <2>2. Leads(b, g, m - 1, e)
    <3>1. Leads(b, stack[1], m - 1, e)
      BY <1>1, <1>4, <1>5, <1>6
    <3> QED BY <1>2, <3>1 DEF Leads
  <2>3. m <= MaxDepth
    BY <1>4
  <2>4. IsStack(stack) /\ stack # <<>> /\ Nested(tree, stack)
        /\ Opened(tree, Len(stack) - 1, g) /\ g.names = stack[1].names /\ g.node = stack[1].node
        /\ Len(stack) <= MaxDepth /\ Opened(tree, Len(stack), b) /\ Leads(b, g, Len(stack) - 1, e)
    BY <1>1, <1>2, <1>5, <2>2, <2>3 DEF m
  <2> QED BY <2>1, <2>4, NestedPushed
<1>10. ASSUME NEW x \in Files(tree) PROVE Ahead(stack', x) <=> Ahead(stack, x)
  <2>1. Leads(x, stack[1], m - 1, e) <=> \E d \in b.left : Leads(x, b, m, d)
    <3>1. x # Place(p)
      <4>1. x.node \in DOMAIN tree.content /\ Place(p).node = p.node
        BY DEF Files, Place
      <4> QED BY <1>1, <4>1 DEF TreeOK
    <3>2. Len(x.names) \in Nat
      <4>1. PICK l \in 0 .. MaxDepth : x \in Levels(tree)[l]
        BY DEF Files, All
      <4> QED BY <4>1, LevelsArePlaces DEF IsPlace
    <3>3. ASSUME Leads(x, stack[1], m - 1, e) PROVE \E d \in b.left : Leads(x, b, m, d)
      BY <1>5, <1>7, <3>1, <3>3, EntryCovers DEF m
    <3>4. ASSUME NEW d \in b.left, Leads(x, b, m, d) PROVE Leads(x, stack[1], m - 1, e)
      BY <1>4, <1>5, <1>7, <3>2, <3>4
    <3> QED BY <3>3, <3>4
  <2>2. Leads(x, stack[1], m - 1, e) => Ahead(stack, x)
    <3>1. 1 \in 1 .. m
      BY <1>1
    <3> QED BY <1>1, <3>1 DEF Ahead, m
  <2> QED BY <1>8, <2>1, <2>2
<1> QED BY <1>9, <1>10 DEF SweepInv

\* A file that is visited was before the walk, once, and is not any more.
LEMMA SweepVisits ==
    ASSUME OpenDirs, SweepInv, tree \in FittingTrees, NEW e, NEW p, VisitFile(e, p)
    PROVE  /\ SweepInv'
           /\ p.names \notin seen
           /\ Place(p) \in Files(tree)
           /\ Openable(p.node) <=> Place(p) \in Readable(tree)
<1>1. /\ ReadEntry(e, p) /\ p.node \in DOMAIN tree.content
      /\ seen' = seen \cup {p.names} /\ again' = (again \/ p.names \in seen) /\ tree' = tree
  BY DEF VisitFile
<1>2. /\ stack # <<>> /\ IsStack(stack) /\ Nested(tree, stack) /\ TreeOK(tree)
      /\ e \in stack[1].left
  BY <1>1, EntryOf, FittingIs DEF OpenDirs, SweepInv
<1>3. /\ Take(e).names = stack[1].names /\ Take(e).node = stack[1].node
      /\ Take(e).left = stack[1].left \ {e}
      /\ Opened(tree, Len(stack) - 1, Take(e))
  BY <1>1, TakenIs
<1>4. Moved(stack, stack', Take(e))
  BY WalkSteps DEF OpenDirs
<1>5. \A x : Ahead(stack', x) <=> Ahead(stack, x) /\ ~Leads(x, stack[1], Len(stack) - 1, e)
  BY <1>2, <1>3, <1>4, AheadMoved
<1>6. Nested(tree, stack')
  <2>1. Take(e).left \subseteq stack[1].left
    BY <1>3
  <2> QED BY <1>2, <1>3, <1>4, <2>1, NestedMoved
<1>7. p.node # None /\ p.node \notin DOMAIN tree.entries
  BY <1>1, <1>2 DEF TreeOK
<1>8. /\ Place(p) \in Levels(tree)[Len(stack)] /\ Len(stack) \in 0 .. MaxDepth
      /\ Openable(p.node) <=> p.node \notin tree.unreadable
      /\ \A x : Len(x.names) \in Nat /\ x.names = p.names => Leads(x, stack[1], Len(stack) - 1, e)
  BY <1>1, <1>7, EntryCovers
<1>9. Place(p).node = p.node /\ Place(p).names = p.names
  BY DEF Place
<1>10. Place(p) \in Files(tree)
  BY <1>1, <1>8, <1>9 DEF Files, All
<1>11. Openable(p.node) <=> Place(p) \in Readable(tree)
  BY <1>8, <1>9, <1>10 DEF Readable
<1>12. ASSUME NEW x \in Files(tree)
       PROVE  Leads(x, stack[1], Len(stack) - 1, e) <=> x.names = p.names
  <2>1. Len(x.names) \in Nat
    <3>1. PICK l \in 0 .. MaxDepth : x \in Levels(tree)[l]
      BY DEF Files, All
    <3> QED BY <3>1, LevelsArePlaces DEF IsPlace
  <2>2. Leads(x, stack[1], Len(stack) - 1, e) => x = Place(p)
    BY <1>1, <1>7, EntryCovers
  <2> QED BY <1>8, <1>9, <2>1, <2>2
<1>13. p.names \notin seen
  <2>1. Leads(Place(p), stack[1], Len(stack) - 1, e)
    BY <1>9, <1>10, <1>12
  <2>2. 1 \in 1 .. Len(stack)
    BY <1>2, StackLen
  <2>3. Ahead(stack, Place(p))
    BY <1>2, <2>1, <2>2 DEF Ahead
  <2> QED BY <1>9, <1>10, <2>3 DEF SweepInv
<1>14. \A x \in Files(tree) : x.names \in seen' <=> ~Ahead(stack', x)
  BY <1>1, <1>5, <1>12 DEF SweepInv
<1>15. ~again'
  BY <1>1, <1>13 DEF SweepInv
<1>16. SweepInv'
  BY <1>1, <1>6, <1>14, <1>15 DEF SweepInv
<1> QED BY <1>10, <1>11, <1>13, <1>16

\* A directory that is closed had nothing left.
LEMMA SweepCloses ==
    ASSUME OpenDirs, SweepInv, tree \in FittingTrees, CloseDirectory
    PROVE  SweepInv'
<1>1. stack # <<>> /\ Popped(stack, stack') /\ IsStack(stack) /\ Nested(tree, stack)
  BY WalkSteps DEF OpenDirs, SweepInv
<1>2. stack[1].left = {} /\ seen' = seen /\ again' = again /\ tree' = tree
  BY <1>1, StackLen DEF CloseDirectory
<1>3. \A x : Ahead(stack', x) <=> Ahead(stack, x)
  BY <1>1, <1>2, AheadPopped
<1>4. Nested(tree, stack')
  BY <1>1, NestedPopped
<1> QED BY <1>2, <1>3, <1>4 DEF SweepInv

NothingAgain == tree = None => ~again

\* No walk has begun at first.
LEMMA SweepInit == Init => SweepInv /\ NothingAgain
<1>1. Init => tree \notin FittingTrees
  BY FittingIs DEF Init
<1> QED BY <1>1 DEF SweepInv, Init, NothingAgain

\* Without a tree, nothing has been visited twice.
LEMMA NothingAgainStep == ASSUME OpenDirs, NothingAgain, [Next]_vars PROVE NothingAgain'
<1>1. CASE again' = again /\ (tree' = tree \/ tree' \in Trees)
  BY <1>1, TreesAssumption DEF NothingAgain
<1>2. ASSUME NEW e, NEW p, VisitFile(e, p) PROVE NothingAgain'
  BY <1>2, TreesAssumption DEF VisitFile, ReadEntry, OpenDirs, NothingAgain
<1>3. \/ again' = again /\ (tree' = tree \/ tree' \in Trees)
      \/ \E e, p : VisitFile(e, p)
  BY DEF Next, vars, walk, ParseOption, ParseTarget, Usage, ScanTarget, Extracted, NotExtracted,
         SkipEntry, EnterDirectory, CloseDirectory, NextPass, LoadRules, LoadFile,
         ScanRules, WalksDone, MatchCves, Report, Trees
<1> QED BY <1>1, <1>2, <1>3

\* Every step keeps the files split into those seen and those ahead.
LEMMA SweepStep == ASSUME OpenDirs, NothingAgain, SweepInv, [Next]_vars PROVE SweepInv'
<1>0. SUFFICES ASSUME tree' \in FittingTrees PROVE SweepInv'
  BY DEF SweepInv
<1>1. CASE tree \notin FittingTrees
  <2>1. tree' # tree
    BY <1>0, <1>1
  <2>2. CASE ScanTarget \/ Extracted
    <3>1. StartWalk(tree', 1) /\ again' = again /\ pc = "args"
      BY <2>2 DEF ScanTarget, Extracted
    <3> DEFINE t == tree'
    <3>2. Nested(t, stack') /\ \A x \in Files(t) : x.names \in seen' <=> ~Ahead(stack', x)
      <4>1. t \in FittingTrees /\ StartWalk(t, 1)
        BY <1>0, <3>1
      <4> HIDE DEF t
      <4> QED BY <4>1, SweepBegins
    <3>3. ~again
      BY <3>1 DEF OpenDirs, NothingAgain
    <3> QED BY <3>1, <3>2, <3>3 DEF SweepInv
  <2>3. ScanTarget \/ Extracted
    BY <2>1 DEF Next, vars, walk, ParseOption, ParseTarget, Usage, NotExtracted, SkipEntry,
                EnterDirectory, VisitFile, CloseDirectory, NextPass, LoadRules, LoadFile,
                ScanRules, WalksDone, MatchCves, Report
  <2> QED BY <2>2, <2>3
<1>2. CASE tree \in FittingTrees
  <2>1. ASSUME UNCHANGED walk PROVE SweepInv'
    BY <2>1 DEF walk, SweepInv
  <2>2. ASSUME NEW e, NEW p, SkipEntry(e, p) PROVE SweepInv'
    <3>1. Moved(stack, stack', Take(e))
      BY <2>2, WalkSteps DEF OpenDirs
    <3>2. /\ ReadEntry(e, p)
          /\ p.node \notin DOMAIN tree.entries /\ p.node \notin DOMAIN tree.content
          /\ seen' = seen /\ again' = again /\ tree' = tree
      BY <2>2 DEF SkipEntry
    <3> QED BY <1>2, <3>1, <3>2, SweepPasses
  <2>3. ASSUME NEW e, NEW p, EnterDirectory(e, p) PROVE SweepInv'
    <3>1. /\ ReadEntry(e, p) /\ p.node \in DOMAIN tree.entries
          /\ seen' = seen /\ again' = again /\ tree' = tree
      BY <2>3 DEF EnterDirectory
    <3>2. IF Openable(p.node) THEN Pushed(stack, stack', Entered(p), Take(e))
                              ELSE Moved(stack, stack', Take(e))
      BY <2>3, WalkSteps DEF OpenDirs
    <3>3. p.node # None /\ p.node \notin DOMAIN tree.content
      BY <1>2, <3>1, FittingIs DEF TreeOK
    <3>4. Openable(p.node) <=> p.node \notin tree.unreadable
      BY <1>2, <3>1, <3>3, EntryCovers
    <3>5. CASE Openable(p.node)
      BY <1>2, <3>1, <3>2, <3>5, SweepEnters
    <3>6. CASE ~Openable(p.node)
      BY <1>2, <3>1, <3>2, <3>3, <3>4, <3>6, SweepPasses
    <3> QED BY <3>5, <3>6
  <2>4. ASSUME NEW e, NEW p, VisitFile(e, p) PROVE SweepInv'
    BY <1>2, <2>4, SweepVisits
  <2>5. CASE CloseDirectory
    BY <1>2, <2>5, SweepCloses
  <2>6. ASSUME NEW n, StartWalk(tree, n), tree' = tree, again' = again PROVE SweepInv'
    BY <1>2, <2>6, SweepBegins DEF SweepInv
  <2>7. CASE NextPass
    BY <2>6, <2>7 DEF NextPass
  <2>8. CASE ScanRules
    BY <2>1, <2>6, <2>8 DEF ScanRules, walk
  <2>9. CASE ScanTarget \/ Extracted
    <3>1. tree = None
      BY <2>9 DEF ScanTarget, Extracted, OpenDirs
    <3> QED BY <1>2, <3>1, FittingIs
  <2>10. CASE \/ UNCHANGED vars \/ ParseOption \/ ParseTarget \/ Usage \/ NotExtracted
              \/ LoadRules \/ WalksDone \/ MatchCves \/ Report \/ \E f \in to_load : LoadFile(f)
    BY <2>1, <2>10 DEF vars, ParseOption, ParseTarget, Usage, NotExtracted, LoadRules, WalksDone,
                       MatchCves, Report, LoadFile
  <2> QED BY <2>2, <2>3, <2>4, <2>5, <2>7, <2>8, <2>9, <2>10 DEF Next
<1> QED BY <1>1, <1>2

-----------------------------------------------------------------------------
(* The report is that of the whole tree.                                   *)

MarkersOf(q) == IF q = RulePass THEN Loaded ELSE Detectors[q]

\* The walk q has been to the file x.
Swept(x, q) == q < pass \/ (q = pass /\ x.names \in seen)

Found(f) ==
    \E x \in Readable(tree) : \E q \in ScanPasses :
        Swept(x, q) /\ f \in scan_file(tree.content[x.node], x.names, MarkersOf(q))
Spotted(comp) ==
    \E x \in Readable(tree) :
        Swept(x, ComponentPass) /\ comp \in InFile(tree.content[x.node], x.names)

\* What ReportIsComplete says of the lists and of rc.
WholeReport ==
    /\ components = UNION {InFile(tree.content[x.node], x.names) : x \in ReadableOf(tree)}
    /\ findings = (UNION {scan_file(tree.content[x.node], x.names, AllMarkers) :
                             x \in ReadableOf(tree)})
                  \cup (IF cve_dataset = None THEN {} ELSE Cves.findings)
    /\ "rules" \in rc <=> rules_dir # None /\ rules_dir \notin DOMAIN RuleDirs
    /\ "cve" \in rc <=> cve_dataset # None /\ Cves.rc # 0

\* So far the report says what the files visited so far say.
WholeInv ==
    tree \in FittingTrees /\ ~ran_out =>
        /\ pc \in {"walk", "rules", "cve"} =>
            /\ \A f : f \in findings <=> Found(f)
            /\ \A comp : comp \in components <=> Spotted(comp)
        /\ pc = "report" \/ (pc = "done" /\ exit = 0) => WholeReport

\* When the stack is empty the walk has been everywhere.
LEMMA AllSeen ==
    ASSUME SweepInv, tree \in FittingTrees, stack = <<>>
    PROVE  \A x \in Readable(tree) : x.names \in seen
BY NoneAhead DEF SweepInv, Readable

\* Behind the last walk.
LEMMA AllFound ==
    ASSUME OpenDirs, RulesInv, SweepInv, PassInv, WholeInv, tree \in FittingTrees, ~ran_out,
           pc = "cve"
    PROVE  /\ components = UNION {InFile(tree.content[x.node], x.names) : x \in ReadableOf(tree)}
           /\ findings = UNION {scan_file(tree.content[x.node], x.names, AllMarkers) :
                                   x \in ReadableOf(tree)}
<1>1. tree \in Trees /\ tree # None /\ ReadableOf(tree) = Readable(tree)
  BY FittingIs, ReadableAre
<1>2. \A x \in Readable(tree) : x.names \in seen
  BY AllSeen DEF PassInv
<1>3. pass = RulePass \/ (pass = ComponentPass /\ rules = <<>>)
  BY DEF PassInv
<1>4. \A x \in Readable(tree) : \A q \in DOMAIN Detectors \cup {ComponentPass} : Swept(x, q)
  BY <1>2, <1>3, PassNumbers DEF Swept
<1>5. Loaded = SoundRules
  <2>1. Loaded \subseteq SoundRules
    BY DEF RulesInv, Loaded, Range
  <2>2. CASE rules_dir = None
    BY <2>1, <2>2, ScanAssumption DEF SoundRules
  <2>3. CASE rules_dir # None
    BY <2>1, <2>3 DEF RulesInv, RulesLoaded
  <2> QED BY <2>2, <2>3
<1>6. components = UNION {InFile(tree.content[x.node], x.names) : x \in ReadableOf(tree)}
  <2>1. \A comp : comp \in components <=>
            \E x \in Readable(tree) : comp \in InFile(tree.content[x.node], x.names)
    BY <1>4 DEF WholeInv, Spotted
  <2> QED BY <1>1, <2>1
<1>7. \A f : f \in findings <=>
         \E x \in Readable(tree) : f \in scan_file(tree.content[x.node], x.names, AllMarkers)
  <2> TAKE f
  <2>1. ASSUME f \in findings
        PROVE  \E x \in Readable(tree) : f \in scan_file(tree.content[x.node], x.names, AllMarkers)
    <3>1. PICK x \in Readable(tree) : \E q \in ScanPasses :
              Swept(x, q) /\ f \in scan_file(tree.content[x.node], x.names, MarkersOf(q))
      BY <2>1 DEF WholeInv, Found
    <3>2. PICK q \in ScanPasses : f \in scan_file(tree.content[x.node], x.names, MarkersOf(q))
      BY <3>1
    <3>3. MarkersOf(q) \subseteq AllMarkers
      BY <1>5 DEF MarkersOf, AllMarkers, ScanPasses
    <3>4. f \in scan_file(tree.content[x.node], x.names, AllMarkers)
      BY <3>2, <3>3 DEF scan_file
    <3> QED BY <3>4
  <2>2. ASSUME NEW x \in Readable(tree), f \in scan_file(tree.content[x.node], x.names, AllMarkers)
        PROVE  f \in findings
    <3>1. PICK m \in AllMarkers : f \in scan_file(tree.content[x.node], x.names, {m})
      BY <2>2 DEF scan_file
    <3>2. ASSUME NEW q \in ScanPasses, m \in MarkersOf(q), Swept(x, q) PROVE f \in findings
      <4>1. f \in scan_file(tree.content[x.node], x.names, MarkersOf(q))
        BY <3>1, <3>2 DEF scan_file
      <4>2. Found(f)
        BY <3>2, <4>1 DEF Found
      <4> QED BY <4>2 DEF WholeInv
    <3>3. CASE m \in UNION {Detectors[d] : d \in DOMAIN Detectors}
      <4>1. PICK q \in DOMAIN Detectors : m \in Detectors[q]
        BY <3>3
      <4>2. q \in ScanPasses /\ m \in MarkersOf(q)
        BY <4>1, PassNumbers DEF ScanPasses, MarkersOf
      <4> QED BY <1>4, <3>2, <4>2
    <3>4. CASE m \in SoundRules
      <4>1. m \in Loaded
        BY <1>5, <3>4
      <4>2. rules # <<>>
        <5>1. DOMAIN <<>> = {}
          OBVIOUS
        <5> QED BY <4>1, <5>1 DEF Loaded, Range
      <4>3. pass = RulePass
        BY <1>3, <4>2
      <4>4. RulePass \in ScanPasses /\ m \in MarkersOf(RulePass) /\ Swept(x, RulePass)
        BY <1>2, <4>1, <4>3 DEF ScanPasses, MarkersOf, Swept
      <4> QED BY <3>2, <4>4
    <3> QED BY <3>3, <3>4 DEF AllMarkers
  <2> QED BY <2>1, <2>2
<1>8. findings = UNION {scan_file(tree.content[x.node], x.names, AllMarkers) :
                           x \in ReadableOf(tree)}
  BY <1>1, <1>7
<1> QED BY <1>6, <1>8

AllPasses == ScanPasses \cup {ComponentPass}

\* What should be found depends on the files swept and the rules loaded only.
LEMMA FoundAlike ==
    ASSUME tree' = tree, rules' = rules,
           \A x \in Readable(tree) : \A q \in AllPasses : Swept(x, q)' <=> Swept(x, q)
    PROVE  /\ \A f : Found(f)' <=> Found(f)
           /\ \A comp : Spotted(comp)' <=> Spotted(comp)
BY DEF Found, Spotted, MarkersOf, Loaded, Readable, Files, All, AllPasses

\* Nothing should be found before the first pass.
LEMMA WholeBegins ==
    ASSUME findings = {}, components = {}, UNCHANGED <<findings, components>>,
           StartWalk(tree', 1)
    PROVE  /\ \A f : f \in findings' <=> Found(f)'
           /\ \A comp : comp \in components' <=> Spotted(comp)'
<1>1. pass' = 1 /\ seen' = {} /\ findings' = {} /\ components' = {}
  BY DEF StartWalk
<1>2. ComponentPass \in Nat \ {0}
  BY ScanAssumption DEF ComponentPass
<1>3. \A x, q : q \in AllPasses => ~Swept(x, q)'
  BY <1>1, <1>2, PassNumbers DEF Swept, AllPasses
<1> QED BY <1>1, <1>3 DEF Found, Spotted, AllPasses

\* The next walk has been nowhere yet.
LEMMA WholeGoesOn ==
    ASSUME SweepInv, tree \in FittingTrees, stack = <<>>, pass \in Nat, StartWalk(tree, pass + 1),
           tree' = tree, rules' = rules
    PROVE  /\ \A f : Found(f)' <=> Found(f)
           /\ \A comp : Spotted(comp)' <=> Spotted(comp)
<1>1. pass' = pass + 1 /\ seen' = {}
  BY DEF StartWalk
<1>2. \A x \in Readable(tree) : x.names \in seen
  BY AllSeen
<1>3. \A q \in AllPasses : q \in Nat
  BY PassNumbers DEF AllPasses
<1>4. ASSUME NEW x \in Readable(tree), NEW q \in AllPasses PROVE Swept(x, q)' <=> Swept(x, q)
  <2>1. Swept(x, q) <=> q <= pass
    BY <1>2, <1>3 DEF Swept
  <2>2. Swept(x, q)' <=> q < pass + 1
    BY <1>1, <1>3 DEF Swept
  <2> QED BY <1>3, <2>1, <2>2
<1> QED BY <1>4, FoundAlike

\* A visit adds what is in the file, and nothing of one that cannot be opened.
LEMMA WholeVisits ==
    ASSUME OpenDirs, SweepInv, PassInv, tree \in FittingTrees, pc = "walk",
           \A f : f \in findings <=> Found(f),
           \A comp : comp \in components <=> Spotted(comp),
           NEW e, NEW p, VisitFile(e, p), ~ran_out'
    PROVE  /\ \A f : f \in findings' <=> Found(f)'
           /\ \A comp : comp \in components' <=> Spotted(comp)'
           /\ pc' = "walk"
<1>1. /\ tree' = tree /\ pass' = pass /\ rules' = rules /\ seen' = seen \cup {p.names}
      /\ pc' = pc
      /\ IF pass = ComponentPass
         THEN components' = components \cup InFile(Seen(p), p.names) /\ findings' = findings
         ELSE findings' = findings \cup scan_file(Seen(p), p.names, Markers) /\ components' = components
  BY DEF VisitFile, Keep, Seen
<1> DEFINE y == Place(p)
<1>2. /\ p.names \notin seen /\ y \in Files(tree) /\ (Openable(p.node) <=> y \in Readable(tree))
      /\ y.names = p.names /\ y.node = p.node
  BY SweepVisits DEF Place
<1> HIDE DEF y
<1>3. \A x \in Readable(tree) : x.names = p.names <=> x = y
  <2>1. \A x \in Readable(tree) : x \in Files(tree)
    BY DEF Readable
  <2> QED BY <1>2, <2>1, FilesNamed
<1>4. \A x \in Readable(tree) : \A q : Swept(x, q)' <=> Swept(x, q) \/ (q = pass /\ x = y)
  BY <1>1, <1>3 DEF Swept
<1>5. tree # None /\ pass \in 1 .. RulePass
  BY FittingIs DEF PassInv
<1>6. \A f : f \in scan_file(Seen(p), p.names, Markers) <=>
            y \in Readable(tree) /\ f \in scan_file(tree.content[y.node], y.names, Markers)
  BY <1>2, NothingInNothing DEF Seen
<1>7. \A comp : comp \in InFile(Seen(p), p.names) <=>
            y \in Readable(tree) /\ comp \in InFile(tree.content[y.node], y.names)
  BY <1>2, NothingInNothing DEF Seen
<1>8. /\ \A q : MarkersOf(q)' = MarkersOf(q)
      /\ pass # ComponentPass => pass \in ScanPasses /\ MarkersOf(pass) = Markers
  <2>1. \A q : MarkersOf(q)' = MarkersOf(q)
    BY <1>1 DEF MarkersOf, Loaded
  <2>2. pass # ComponentPass => pass \in DOMAIN Detectors \cup {RulePass}
    BY <1>5, ScanAssumption DEF ComponentPass, RulePass
  <2> QED BY <2>1, <2>2 DEF ScanPasses, MarkersOf, Markers
<1>9. \A f : Found(f)' <=>
        \E x \in Readable(tree) : \E q \in ScanPasses :
            /\ Swept(x, q) \/ (q = pass /\ x = y)
            /\ f \in scan_file(tree.content[x.node], x.names, MarkersOf(q))
  <2>1. \A f : Found(f)' <=>
          \E x \in Readable(tree) : \E q \in ScanPasses :
              Swept(x, q)' /\ f \in scan_file(tree.content[x.node], x.names, MarkersOf(q))
    BY <1>1, <1>8 DEF Found, Readable, Files, All
  <2> QED BY <1>4, <2>1
<1>10. \A comp : Spotted(comp)' <=>
        \E x \in Readable(tree) :
            /\ Swept(x, ComponentPass) \/ (ComponentPass = pass /\ x = y)
            /\ comp \in InFile(tree.content[x.node], x.names)
  <2>1. \A comp : Spotted(comp)' <=>
          \E x \in Readable(tree) :
              Swept(x, ComponentPass)' /\ comp \in InFile(tree.content[x.node], x.names)
    BY <1>1 DEF Spotted, Readable, Files, All
  <2> QED BY <1>4, <2>1
<1>11. CASE pass = ComponentPass
  <2>1. \A q \in ScanPasses : q # pass
    BY <1>11, PassNumbers
  <2>2. \A f : Found(f)' <=> Found(f)
    BY <1>9, <2>1 DEF Found
  <2>3. \A comp : Spotted(comp)' <=>
          Spotted(comp) \/ (y \in Readable(tree) /\ comp \in InFile(tree.content[y.node], y.names))
    BY <1>10, <1>11 DEF Spotted
  <2> QED BY <1>1, <1>7, <1>11, <2>2, <2>3
<1>12. CASE pass # ComponentPass
  <2>1. \A comp : Spotted(comp)' <=> Spotted(comp)
    BY <1>10, <1>12 DEF Spotted
  <2>2. \A f : Found(f)' <=>
          Found(f) \/ (y \in Readable(tree) /\ f \in scan_file(tree.content[y.node], y.names, Markers))
    BY <1>8, <1>9, <1>12 DEF Found
  <2> QED BY <1>1, <1>6, <1>12, <2>1, <2>2
<1> QED BY <1>1, <1>11, <1>12

\* The lists are empty at first.
LEMMA WholeInit == Init => WholeInv
<1>1. Init => tree \notin FittingTrees
  BY FittingIs DEF Init
<1> QED BY <1>1 DEF WholeInv

\* Every step keeps the lists what the files swept so far say.
LEMMA WholeStep ==
    ASSUME OpenDirs, RulesInv, SweepInv, PassInv, ReportedInv, WholeInv, [Next]_vars
    PROVE  WholeInv'
<1>0. SUFFICES ASSUME tree' \in FittingTrees, ~ran_out' PROVE WholeInv'
  BY DEF WholeInv
<1>1. ~ran_out
  BY <1>0 DEF Next, vars, lists, ParseOption, ParseTarget, Usage, ScanTarget, Extracted,
              NotExtracted, SkipEntry, EnterDirectory, VisitFile, Keep, CloseDirectory, NextPass,
              LoadRules, LoadFile, ScanRules, WalksDone, MatchCves, Report
<1>2. CASE ScanTarget \/ Extracted
  <2>1. findings = {} /\ components = {}
    BY <1>2, TreesAssumption DEF ScanTarget, Extracted, OpenDirs, ReportedInv
  <2>2. pc' = "walk" /\ StartWalk(tree', 1) /\ UNCHANGED <<findings, components>>
    BY <1>2 DEF ScanTarget, Extracted, StartWalk
  <2>3. /\ \A f : f \in findings' <=> Found(f)'
        /\ \A comp : comp \in components' <=> Spotted(comp)'
    BY <2>1, <2>2, WholeBegins
  <2> QED BY <2>2, <2>3 DEF WholeInv
<1>3. CASE ~(ScanTarget \/ Extracted)
  <2>0. tree' = tree /\ tree \in FittingTrees
    BY <1>0, <1>3 DEF Next, vars, walk, ParseOption, ParseTarget, Usage, NotExtracted, SkipEntry,
                      EnterDirectory, VisitFile, CloseDirectory, NextPass, LoadRules, LoadFile,
                      ScanRules, WalksDone, MatchCves, Report
  <2>1. pc # "args" /\ tree # None
    BY <2>0, FittingIs DEF OpenDirs
  <2>2. pc \in {"walk", "rules", "cve"} =>
          /\ \A f : f \in findings <=> Found(f)
          /\ \A comp : comp \in components <=> Spotted(comp)
    BY <1>1, <2>0 DEF WholeInv
  <2>3. ASSUME pc \in {"walk", "rules", "cve"}, pc' \in {"walk", "rules", "cve"},
               UNCHANGED <<findings, components>>,
               \A f : Found(f)' <=> Found(f), \A comp : Spotted(comp)' <=> Spotted(comp)
        PROVE  WholeInv'
    BY <2>2, <2>3 DEF WholeInv
  <2>4. ASSUME pc \in {"walk", "rules", "cve"}, pc' \in {"walk", "rules", "cve"},
               UNCHANGED <<pass, seen, rules, findings, components>>
        PROVE  WholeInv'
    <3>1. \A x \in Readable(tree) : \A q \in AllPasses : Swept(x, q)' <=> Swept(x, q)
      BY <2>4 DEF Swept
    <3> QED BY <2>0, <2>3, <2>4, <3>1, FoundAlike
  <2>5. ASSUME UNCHANGED vars PROVE WholeInv'
    <3>1. CASE pc \in {"walk", "rules", "cve"}
      BY <2>4, <2>5, <3>1 DEF vars, walk, lists
    <3>2. CASE pc \notin {"walk", "rules", "cve"}
      BY <1>1, <2>0, <2>5, <3>2 DEF vars, cli, walk, lists, WholeInv, WholeReport, SoundRules,
            AllMarkers, Cves
    <3> QED BY <3>1, <3>2
  <2>6. ASSUME NEW e, NEW p, SkipEntry(e, p) \/ EnterDirectory(e, p) PROVE WholeInv'
    BY <2>4, <2>6 DEF SkipEntry, EnterDirectory, ReadEntry, lists
  <2>7. ASSUME NEW e, NEW p, VisitFile(e, p) PROVE WholeInv'
    <3>1. pc = "walk"
      BY <2>7 DEF VisitFile, ReadEntry
    <3>2. /\ \A f : f \in findings' <=> Found(f)'
          /\ \A comp : comp \in components' <=> Spotted(comp)'
          /\ pc' = "walk"
      BY <1>0, <2>0, <2>2, <2>7, <3>1, WholeVisits
    <3> QED BY <3>2 DEF WholeInv
  <2>8. CASE CloseDirectory
    BY <2>4, <2>8 DEF CloseDirectory, lists
  <2>9. ASSUME pc \in {"walk", "rules"}, stack = <<>>, StartWalk(tree, pass + 1), rules' = rules,
               UNCHANGED <<findings, components>>
        PROVE  WholeInv'
    <3>1. pass \in Nat /\ pc' = "walk"
      BY <2>9 DEF RulesInv, StartWalk
    <3>2. /\ \A f : Found(f)' <=> Found(f)
          /\ \A comp : Spotted(comp)' <=> Spotted(comp)
      BY <2>0, <2>9, <3>1, WholeGoesOn
    <3> QED BY <2>3, <2>9, <3>1, <3>2
  <2>10. CASE NextPass
    BY <2>9, <2>10 DEF NextPass, lists
  <2>11. CASE LoadRules
    BY <2>4, <2>11 DEF LoadRules, walk
  <2>12. ASSUME NEW f \in to_load, LoadFile(f) PROVE WholeInv'
    <3>1. pc = "rules" /\ pc' = pc /\ UNCHANGED <<walk, findings, components>>
      BY <2>12 DEF LoadFile
    <3>2. pass = ComponentPass /\ RulePass = ComponentPass + 1 /\ ComponentPass \in Nat
      BY <3>1, PassNumbers DEF PassInv
    <3>3. \A x, q : (Swept(x, q)' <=> Swept(x, q)) /\ ~Swept(x, RulePass)
      BY <3>1, <3>2 DEF Swept, walk
    <3>4. \A q : q # RulePass => MarkersOf(q)' = MarkersOf(q)
      BY DEF MarkersOf
    <3>5. \A f_1 : Found(f_1)' <=> Found(f_1)
      <4>1. \A g : Found(g)' <=>
              \E x \in Readable(tree) : \E q \in ScanPasses :
                  Swept(x, q)' /\ g \in scan_file(tree.content[x.node], x.names, MarkersOf(q)')
        BY <2>0 DEF Found, Readable, Files, All
      <4> QED BY <3>3, <3>4, <4>1 DEF Found
    <3>6. \A comp : Spotted(comp)' <=> Spotted(comp)
      BY <2>0, <3>3 DEF Spotted, Readable, Files, All
    <3> QED BY <2>3, <3>1, <3>5, <3>6
  <2>13. CASE ScanRules
    <3>1. /\ pc = "rules" /\ StartWalk(tree, RulePass) /\ UNCHANGED <<rules, findings, components>>
      BY <1>0, <2>13 DEF ScanRules
    <3>2. stack = <<>> /\ RulePass = pass + 1
      BY <3>1, PassNumbers DEF PassInv
    <3> QED BY <2>9, <3>1, <3>2
  <2>14. CASE WalksDone
    <3>1. /\ pc \in {"walk", "rules"} /\ pc' = "cve" /\ UNCHANGED <<walk, lists, findings, components>>
      BY <2>14 DEF WalksDone
    <3> QED BY <2>4, <3>1 DEF walk, lists
  <2>15. CASE MatchCves
    <3>1. /\ pc = "cve" /\ cve_dataset # None
          /\ rc' = (IF Cves.rc = 0 THEN rc ELSE rc \cup {"cve"})
          /\ findings' = findings \cup Cves.findings /\ pc' = "report"
          /\ UNCHANGED <<cli, walk, components>>
      BY <1>0, <2>15 DEF MatchCves
    <3>2. /\ components = UNION {InFile(tree.content[x.node], x.names) : x \in ReadableOf(tree)}
          /\ findings = UNION {scan_file(tree.content[x.node], x.names, AllMarkers) :
                                  x \in ReadableOf(tree)}
      BY <1>1, <2>0, <3>1, AllFound
    <3>3. "cve" \notin rc /\ ("rules" \in rc <=> NoRuleDir)
      BY <3>1 DEF PassInv
    <3>4. Cves' = Cves /\ AllMarkers' = AllMarkers /\ NoRuleDir' = NoRuleDir
          /\ ReadableOf(tree') = ReadableOf(tree) /\ cve_dataset' = cve_dataset
      BY <3>1 DEF Cves, AllMarkers, SoundRules, NoRuleDir, cli, walk
    <3>5. WholeReport'
      <4>1. components' = UNION {InFile(tree'.content[x.node], x.names) : x \in ReadableOf(tree')}
        BY <2>0, <3>1, <3>2
      <4>2. findings' = (UNION {scan_file(tree'.content[x.node], x.names, AllMarkers') :
                                   x \in ReadableOf(tree')})
                        \cup (IF cve_dataset' = None THEN {} ELSE Cves'.findings)
        BY <2>0, <3>1, <3>2, <3>4
      <4>3. "rules" \in rc' <=> NoRuleDir'
        BY <3>1, <3>3, <3>4
      <4>4. "cve" \in rc' <=> cve_dataset' # None /\ Cves'.rc # 0
        BY <3>1, <3>3, <3>4
      <4> QED BY <4>1, <4>2, <4>3, <4>4 DEF WholeReport, NoRuleDir
    <3> QED BY <3>1, <3>5 DEF WholeInv
  <2>16. CASE Report
    <3>1. pc' = "done" /\ UNCHANGED <<cli, walk, lists, findings, components, rc>>
      BY <2>16 DEF Report
    <3>2. WholeReport
      <4>1. CASE pc = "report"
        BY <1>1, <2>0, <4>1 DEF WholeInv
      <4>2. CASE pc = "cve" /\ cve_dataset = None
        <5>1. /\ components = UNION {InFile(tree.content[x.node], x.names) : x \in ReadableOf(tree)}
              /\ findings = UNION {scan_file(tree.content[x.node], x.names, AllMarkers) :
                                      x \in ReadableOf(tree)}
          BY <1>1, <2>0, <4>2, AllFound
        <5>2. "cve" \notin rc /\ ("rules" \in rc <=> NoRuleDir)
          BY <4>2 DEF PassInv
        <5> QED BY <4>2, <5>1, <5>2 DEF WholeReport, NoRuleDir
      <4> QED BY <2>16, <4>1, <4>2 DEF Report
    <3>3. WholeReport'
      BY <2>0, <3>1, <3>2 DEF cli, WholeReport, SoundRules, AllMarkers, Cves
    <3> QED BY <3>1, <3>3 DEF WholeInv
  <2>17. CASE Usage \/ NotExtracted \/ ParseOption \/ ParseTarget
    BY <2>1, <2>17 DEF Usage, NotExtracted, ParseOption, ParseTarget
  <2> QED BY <1>3, <2>5, <2>6, <2>7, <2>8, <2>10, <2>11, <2>12, <2>13, <2>14, <2>15, <2>16, <2>17
      DEF Next
<1> QED BY <1>2, <1>3

\* For any tree whose paths fit and whose directories can be open at once, any
\* order of its entries, any links and any files that cannot be read: a run in
\* which memory lasts reports every pattern, component and CVE there is, and
\* nothing else, warns of what it could not use, and visits no file twice in a
\* walk.  (scan.c, walk.c, pattern_scan.c, component_identify.c, cve_match.c.)
THEOREM ReportIsCompleteHolds == Spec => []ReportIsComplete
<1> DEFINE Inv == OpenDirs /\ RulesInv /\ NothingAgain /\ SweepInv /\ PassInv
                  /\ ReportedInv /\ WholeInv
<1>0. Init => RulesInv
  BY DEF Init, RulesInv, RulesLoaded
<1>1. Init => Inv
  BY <1>0, OpenDirsInit, SweepInit, PassInit, WholeInit DEF Init, ReportedInv
<1>2. Inv /\ [Next]_vars => Inv'
  BY OpenDirsStep, RulesStep, NothingAgainStep, SweepStep, PassStep, ReportedStep, WholeStep
<1>3. Inv => ReportIsComplete
  BY DEF SweepInv, WholeInv, WholeReport, ReportIsComplete
<1> QED BY <1>1, <1>2, <1>3, PTL DEF Spec
=============================================================================

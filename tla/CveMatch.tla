------------------------------ MODULE CveMatch -------------------------------
(***************************************************************************)
(* crimp_cve_match_components (src/src/core/cve_match.c): which of the     *)
(* components found in a tree a data set of vulnerable version ranges      *)
(* speaks of.                                                              *)
(*                                                                         *)
(* A version is the sequence of the pieces between its '.' and '-'.  Of a  *)
(* piece, parse_segment sees the digits it begins with (their number and   *)
(* their value) and the letters behind them; `suffix' is the dictionary    *)
(* rank of the first seven letters in lower case, 0 if there are none, and *)
(* whatever follows in the piece is skipped.                               *)
(***************************************************************************)
EXTENDS Naturals, Integers, Sequences

CONSTANTS
    MAX_DIGITS,   \* digits that are converted, 18 in the code
    ULLONG_MAX,   \* what a longer run of digits counts for
    None          \* a field that is not there

Piece   == [digits : Nat, value : Nat, suffix : Nat]
Version == Seq(Piece)

\* The least number with more digits than are converted.
Limit == 10 ^ MAX_DIGITS

\* A piece as its author writes it, without leading zeros: as long as the run
\* is, so large is the number.
PieceOK(p) == p \in Piece /\ (p.digits <= MAX_DIGITS <=> p.value < Limit)

ASSUME CveAssumption ==
    MAX_DIGITS \in Nat /\ ULLONG_MAX \in Nat /\ Limit \in Nat \ {0} /\ Limit <= ULLONG_MAX

-----------------------------------------------------------------------------
(* parse_segment and version_compare.                                      *)

Zero == [num |-> 0, suffix |-> 0]

\* A fault: the digits behind the eighteenth are left out.
MUT_parse_segment_cuts(p) ==
    [num |-> IF p.digits <= MAX_DIGITS THEN p.value
             ELSE p.value \div 10 ^ (p.digits - MAX_DIGITS),
     suffix |-> p.suffix]

parse_segment(p) ==
    [num |-> IF p.digits <= MAX_DIGITS THEN p.value ELSE ULLONG_MAX, suffix |-> p.suffix]

\* A version that has ended goes on with zeros.
Segment(v, k) == IF k <= Len(v) THEN parse_segment(v[k]) ELSE Zero

Longer(a, b) == IF Len(a) > Len(b) THEN Len(a) ELSE Len(b)

Differ(a, b) == {k \in 1 .. Longer(a, b) : Segment(a, k) # Segment(b, k)}

segment_lt(s, t) == s.num < t.num \/ (s.num = t.num /\ s.suffix < t.suffix)

\* The first segment that differs decides.
version_compare(a, b) ==
    IF Differ(a, b) = {} THEN 0
    ELSE LET k == CHOOSE k \in Differ(a, b) : \A j \in Differ(a, b) : k <= j
         IN IF segment_lt(Segment(a, k), Segment(b, k)) THEN -1 ELSE 1

-----------------------------------------------------------------------------
(* A condition list.  Without an operator, with an empty version or one of *)
(* 64 characters or more the condition has the operator None.              *)

op_holds(op, cmp) ==
    CASE op = "<"  -> cmp < 0
      [] op = "<=" -> cmp <= 0
      [] op = ">"  -> cmp > 0
      [] op = ">=" -> cmp >= 0
      [] op = "==" -> cmp = 0
      [] OTHER     -> FALSE

Conditions == [op : {"<", "<=", ">", ">=", "==", None}, version : Version]

\* All conditions must hold, and an empty list fails closed.
version_satisfies(version, affected) ==
    /\ affected # <<>>
    /\ \A i \in DOMAIN affected :
        op_holds(affected[i].op, version_compare(version, affected[i].version))

-----------------------------------------------------------------------------
(* The data set, as far as it parses: a set of component entries, each     *)
(* with a set of CVE entries (empty if `cves' is no list), any other field  *)
(* of which may be missing.                                                *)

Severities == {"low", "medium", "high", "critical"}

Complete(e) ==
    /\ e.id # None /\ e.affected # None /\ e.severity # None /\ e.description # None
    /\ e.affected # <<>>

\* A severity the code does not know is reported as low.
Finding(e, comp) ==
    [id |-> e.id, path |-> comp.path,
     severity |-> IF e.severity \in Severities THEN e.severity ELSE "low"]

\* A component whose version is not known cannot be judged.
match_cve_entry(e, components, name) ==
    {Finding(e, comp) : comp \in {c \in components :
        /\ Complete(e)
        /\ c.version # <<>> /\ c.component = name
        /\ version_satisfies(c.version, e.affected)}}

match_component_entry(c, components) ==
    IF c.name = None THEN {}
    ELSE UNION {match_cve_entry(e, components, c.name) : e \in c.cves}

\* A file that cannot be read or parsed, or has no list of components, does not
\* count as parsed: it is an error and adds nothing.
crimp_cve_match_components(doc, components) ==
    IF ~doc.parses
    THEN [rc |-> -1, findings |-> {}]
    ELSE [rc |-> 0,
          findings |-> UNION {match_component_entry(c, components) : c \in doc.components}]

-----------------------------------------------------------------------------
(* Reference definitions.                                                  *)

\* The order of versions without a limit on the digits.  Which of two runs too
\* long to be converted is the newer one is left open.
Written(v) == \A k \in DOMAIN v : PieceOK(v[k])

TrueSegment(v, k) ==
    IF k <= Len(v) THEN v[k] ELSE [digits |-> 0, value |-> 0, suffix |-> 0]

TrulyOlder(a, b) ==
    \E k \in 1 .. Longer(a, b) :
        LET s == TrueSegment(a, k)
            t == TrueSegment(b, k)
        IN /\ \A j \in 1 .. k - 1 : /\ TrueSegment(a, j).value = TrueSegment(b, j).value
                                    /\ TrueSegment(a, j).suffix = TrueSegment(b, j).suffix
           /\ s.digits <= MAX_DIGITS \/ t.digits <= MAX_DIGITS
           /\ s.value < t.value \/ (s.value = t.value /\ s.suffix < t.suffix)

\* What a condition says of a version in this order.
Holds(op, u, v) ==
    CASE op = "<"  -> TrulyOlder(u, v)
      [] op = "<=" -> ~TrulyOlder(v, u)
      [] op = ">"  -> TrulyOlder(v, u)
      [] op = ">=" -> ~TrulyOlder(u, v)
      [] op = "==" -> ~TrulyOlder(u, v) /\ ~TrulyOlder(v, u)
      [] OTHER     -> FALSE

\* Both versions are as their authors write them, and nowhere are two runs of
\* digits both too long to be converted.
Short(s) == s.digits <= MAX_DIGITS

Judgeable(a, b) ==
    \A k \in 1 .. Longer(a, b) : Short(TrueSegment(a, k)) \/ Short(TrueSegment(b, k))

Comparable(a, b) == Written(a) /\ Written(b) /\ Judgeable(a, b)
=============================================================================

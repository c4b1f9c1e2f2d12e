---------------------------- MODULE MCSyncDataset ----------------------------
(***************************************************************************)
(* Small instances of SyncDataset: two products, pages of two CVEs, a      *)
(* handful of records of different shapes, and versions that differ in     *)
(* length, in a letter, and in the number of their digits.                 *)
(***************************************************************************)
EXTENDS SyncDataset

P(digits, value, suffix) == [digits |-> digits, value |-> value, suffix |-> suffix]

\* Digits up to MAX_DIGITS = 2 are converted, 150 and 140 are not.
v1    == <<P(1, 1, 0)>>
v1_0  == <<P(1, 1, 0), P(1, 0, 0)>>
v1_1  == <<P(1, 1, 0), P(1, 1, 0)>>
v1_1a == <<P(1, 1, 0), P(1, 1, 1)>>
v2    == <<P(1, 2, 0)>>
v99   == <<P(2, 99, 0)>>
v140  == <<P(3, 140, 0), P(1, 1, 0)>>
v150  == <<P(3, 150, 0)>>
vx    == <<P(0, 0, 5), P(1, 1, 0)>>

MCVersions == {v1, v1_0, v1_1, v1_1a, v2, v99, v140, v150, vx}

C(op, v) == [op |-> op, version |-> v]

Exact(p, op, v) == [vulnerable |-> TRUE, product |-> p, exact |-> C(op, v), range |-> <<>>]
Bounds(p, r) == [vulnerable |-> TRUE, product |-> p, exact |-> None, range |-> r]
Platform(p, r) == [vulnerable |-> FALSE, product |-> p, exact |-> None, range |-> r]

Rec(metrics, described, matches) ==
    [metrics |-> metrics, described |-> described, matches |-> matches]

MCCves == {"c1", "c2", "c3", "c4"}

\* A range of one product with a platform, and a bound that the code cannot tell
\* from a version that is found; an exact version of one, one too long to be
\* read, and a range of the other; a wildcard without bounds; no severity.
MCRecord == [c \in MCCves |->
    CASE c = "c1" -> Rec(<<None, "NONE", "high", "low">>, TRUE,
                         <<Platform(2, <<C(">=", v1)>>),
                           Bounds(1, <<C(">=", v1_1), C("<", v2)>>),
                           Bounds(1, <<C(">", v2), C("<", v140)>>)>>)
      [] c = "c2" -> Rec(<<"low", None, None, None>>, TRUE,
                         <<Exact(1, None, v1), Exact(1, "==", v1_0), Bounds(2, <<C("<=", v99)>>)>>)
      [] c = "c3" -> Rec(<<None, None, None, "medium">>, TRUE,
                         <<Bounds(1, <<>>), Bounds(1, <<C(">", v99)>>)>>)
      [] c = "c4" -> Rec(<<"NONE", None, None, None>>, TRUE,
                         <<Bounds(2, <<C(">=", v1)>>)>>)]

MCProducts == <<"OpenSSL", "BusyBox">>

MCServers == {[p \in 1 .. 2 |-> IF p = 1 THEN s ELSE t] :
                s \in {<<>>, <<"c1", "c2">>, <<"c3", "c1", "c2">>}, t \in {<<"c2">>, <<"c4", "c2">>}}

\* A data set of an earlier run.
MCOldFile == [lines |-> DatasetLines(<<Built(<<"c1">>, 1), Built(<<"c2">>, 2)>>),
              broken |-> FALSE]

Comp(name, path, version) == [component |-> name, path |-> path, version |-> version]

MCComponents == {Comp("OpenSSL", "lib/a", v1_1a), Comp("OpenSSL", "lib/b", v1),
                 Comp("OpenSSL", "lib/c", v150), Comp("OpenSSL", "lib/d", <<>>),
                 Comp("BusyBox", "bin/b", v2), Comp("Dropbear", "bin/d", v1)}

ASSUME MCVersionsOK ==
    \A v \in MCVersions : Written(v)
=============================================================================

-------------------------- MODULE ComponentIdentify --------------------------
(***************************************************************************)
(* scan_file of src/src/core/component_identify.c: which components one    *)
(* file's bytes speak of, and which version stands beside their names.     *)
(*                                                                         *)
(* The bytes of a file are a sequence of items: markers, versions, the     *)
(* word "Dropbear" (a mention), patterns of the detectors, NULs and other  *)
(* text.  `len' is the number of bytes of an item; `dashes' are the pieces *)
(* of a version that stand behind a '-' and not behind a '.'.              *)
(***************************************************************************)
EXTENDS CveMatch, SequencesExt

CONSTANTS
    COMPONENT_SCAN_MAX,   \* bytes of a file that are read, 2 MiB in the code
    VERSION_SIZE,         \* the version buffer, 64 in the code
    Calver                \* digits of a Dropbear version: four, and one to three

ASSUME IdentifyAssumption == COMPONENT_SCAN_MAX \in Nat /\ VERSION_SIZE \in Nat \ {0}

\* COMPONENT_MARKERS: the name reported, whether a letter belongs to the
\* version, and whether the version is looked for elsewhere in the file.
ComponentNames == {"BusyBox", "OpenSSL", "Dropbear", "Linux kernel"}
LetterSuffix(name) == name = "OpenSSL"
HasFallback(name)  == name = "Dropbear"

-----------------------------------------------------------------------------
(* Where the items of a file are.                                          *)

\* The sums of the first numbers of a sequence.
Sums(w) ==
    LET sum[n \in {0} \cup DOMAIN w] == IF n = 0 THEN 0 ELSE sum[n - 1] + w[n] IN sum

Start(c, k) == Sums([j \in DOMAIN c |-> c[j].len])[k - 1]
End(c, k)   == Start(c, k) + c[k].len
Size(c)     == Start(c, Len(c) + 1)

\* read_file_for_scan: the first bytes of a file, and none of an empty one.
Scanned(c) == IF Size(c) < COMPONENT_SCAN_MAX THEN Size(c) ELSE COMPONENT_SCAN_MAX

-----------------------------------------------------------------------------
(* Versions.                                                               *)

Letters(p)    == IF p.suffix = 0 THEN 0 ELSE 1
PieceStart(v, k) == Sums([j \in DOMAIN v |-> v[j].digits + Letters(v[j]) + 1])[k - 1]
VersionLen(v) == IF v = <<>> THEN 0 ELSE PieceStart(v, Len(v) + 1) - 1

\* The first n characters of a version; behind a '.' or '-' at their end there is
\* an empty piece.
FirstChars(v, n) ==
    LET begun == IF n <= 0 THEN 0 ELSE Cardinality({k \in DOMAIN v : PieceStart(v, k) <= n})
        Shown(k) ==
            LET room == n - PieceStart(v, k)
                p == v[k]
            IN IF room >= p.digits + Letters(p) THEN p
               ELSE IF room >= p.digits THEN [p EXCEPT !.suffix = 0]
               ELSE [digits |-> room, value |-> p.value \div 10 ^ (p.digits - room), suffix |-> 0]
    IN [k \in 1 .. begun |-> Shown(k)]

\* The characters before the first letter.
BeforeLetters(v) ==
    LET L == {k \in DOMAIN v : v[k].suffix # 0}
    IN IF L = {} THEN v
       ELSE LET k == CHOOSE k \in L : \A j \in L : k <= j
            IN IF k = 1 /\ v[k].digits = 0 THEN <<>>
               ELSE Append(SubSeq(v, 1, k - 1), [v[k] EXCEPT !.suffix = 0])

extract_version(v, max_len, allow_letter_suffix) ==
    LET read == FirstChars(v, IF max_len < VERSION_SIZE - 1 THEN max_len ELSE VERSION_SIZE - 1)
    IN IF allow_letter_suffix THEN read ELSE BeforeLetters(read)

-----------------------------------------------------------------------------
(* The version behind a marker.                                            *)

\* crimp_memfind finds a marker that lies within what was read.
Occurrences(c, name) ==
    {k \in DOMAIN c : c[k].kind = "marker" /\ c[k].name = name /\ End(c, k) <= Scanned(c)}

VersionBehind(c, k, name) ==
    IF k + 1 \in DOMAIN c /\ c[k + 1].kind = "version"
    THEN extract_version(c[k + 1].version, Scanned(c) - End(c, k), LetterSuffix(name))
    ELSE <<>>

\* The first occurrence that has one.
Matches(c, name) == {k \in Occurrences(c, name) : VersionBehind(c, k, name) # <<>>}

-----------------------------------------------------------------------------
(* find_isolated_dropbear_version: a version that is a string of its own   *)
(* in the table of strings, next to one that mentions Dropbear.            *)

\* The NULs, and the places before the first byte and behind the last.
Borders(c) ==
    {0} \cup {k \in DOMAIN c : c[k].kind = "nul" /\ End(c, k) <= Scanned(c)}
        \cup {k \in 1 .. Len(c) + 1 : Start(c, k) >= Scanned(c)}

\* The tokens on both sides of a border.
Before(c, b) == {k \in DOMAIN c : k < b /\ \A z \in Borders(c) : z < b => z < k}
Behind(c, b) == {k \in DOMAIN c : b < k /\ \A z \in Borders(c) : b < z => k < z}

looks_like_dropbear_version(c, token) ==
    \E k \in token :
        /\ token = {k}
        /\ c[k].kind = "version"
        /\ LET v == FirstChars(c[k].version, Scanned(c) - Start(c, k))
           IN /\ Len(v) = 2 /\ 2 \notin c[k].dashes
              /\ \A j \in 1 .. 2 : v[j].suffix = 0 /\ v[j].digits \in Calver[j]

\* "dropbear_" begins with the word.
token_mentions_dropbear(c, token) ==
    \E k \in token :
        \/ c[k].kind = "mention" /\ End(c, k) <= Scanned(c)
        \/ c[k].kind = "marker" /\ c[k].name = "Dropbear" /\ End(c, k) - 1 <= Scanned(c)

\* A fault: any token of the shape is taken.
MUT_Neighbours_alone(c, token, other) == looks_like_dropbear_version(c, token)

\* One looks like a version, and the one before or behind it mentions Dropbear.
Neighbours(c, token, other) ==
    looks_like_dropbear_version(c, token) /\ token_mentions_dropbear(c, other)

Only(c, token) ==
    LET k == CHOOSE k \in token : TRUE IN FirstChars(c[k].version, Scanned(c) - Start(c, k))

find_isolated_dropbear_version(c) ==
    LET Between == {b \in Borders(c) : \/ Neighbours(c, Before(c, b), Behind(c, b))
                                       \/ Neighbours(c, Behind(c, b), Before(c, b))}
    IN IF Between = {} THEN <<>>
       ELSE LET b == CHOOSE b \in Between : \A z \in Between : b <= z
            IN Only(c, IF Neighbours(c, Before(c, b), Behind(c, b)) THEN Before(c, b)
                                                                  ELSE Behind(c, b))

-----------------------------------------------------------------------------

\* What is reported of a marker that occurs: <<>> if no version is known.
VersionOf(c, name) ==
    IF Matches(c, name) # {}
    THEN VersionBehind(c, CHOOSE k \in Matches(c, name) : \A j \in Matches(c, name) : k <= j, name)
    ELSE IF HasFallback(name) THEN find_isolated_dropbear_version(c) ELSE <<>>

identify(c) ==
    {[component |-> name, version |-> VersionOf(c, name)] :
        name \in {n \in ComponentNames : Occurrences(c, n) # {}}}

-----------------------------------------------------------------------------

\* Items are not empty, and a version is as long as it is written; it may have no
\* digit or letter at all.
ItemOK(item) ==
    /\ item.len \in Nat \ {0}
    /\ item.kind = "version" =>
        LET v == item.version
        IN v \in Version /\ item.len = VersionLen(v) /\ item.dashes \subseteq DOMAIN v

ContentOK(c) == Len(c) \in Nat /\ DOMAIN c = 1 .. Len(c) /\ \A k \in DOMAIN c : ItemOK(c[k])
=============================================================================

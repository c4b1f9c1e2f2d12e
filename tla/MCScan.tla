------------------------------- MODULE MCScan --------------------------------
(***************************************************************************)
(* Small instances of Scan: trees of a few names with links, with entries  *)
(* that cannot be read and with paths that do not fit the buffer; files    *)
(* that speak of components in the ways of ComponentIdentify; directories  *)
(* of rules and data sets, sound and not.                                  *)
(***************************************************************************)
EXTENDS Scan

P(digits, value, suffix) == [digits |-> digits, value |-> value, suffix |-> suffix]

Text(n)      == [kind |-> "text", len |-> n]
Nul          == [kind |-> "nul", len |-> 1]
Mention      == [kind |-> "mention", len |-> 8]
Ver(v)       == [kind |-> "version", len |-> VersionLen(v), version |-> v, dashes |-> {}]
Dashed(v)    == [Ver(v) EXCEPT !.dashes = 2 .. Len(v)]
Marker(name) == [kind |-> "marker", name |-> name,
                 len |-> CASE name = "OpenSSL" -> 8 [] name = "Linux kernel" -> 14 [] OTHER -> 9]
Pat(p)       == [kind |-> "pattern", len |-> 7, pattern |-> p]

v1_36   == <<P(1, 1, 0), P(2, 36, 0)>>
v1_1k   == <<P(1, 1, 0), P(1, 1, 11)>>
v1_1    == <<P(1, 1, 0), P(1, 1, 0)>>
v5_4y   == <<P(1, 5, 0), P(1, 4, 0), P(0, 0, 25)>>
v2019   == <<P(4, 2019, 0), P(2, 78, 0)>>
v2020   == <<P(4, 2020, 0), P(1, 1, 0)>>
vLong   == <<P(3, 100, 0), P(3, 200, 0), P(3, 300, 0)>>
default == <<P(0, 0, 4)>>
dots    == <<P(0, 0, 0), P(0, 0, 0)>>

\* The second marker has the version; a pattern behind the first NUL and one in
\* the first bytes.
Busybox == <<Pat("telnetd"), Marker("BusyBox"), Nul, Marker("BusyBox"), Ver(v1_36), Nul,
             Pat("md5")>>
Libssl  == <<Text(2), Marker("OpenSSL"), Ver(v1_1k), Nul>>
\* A word behind a marker, then the version.
Libcrypto == <<Marker("OpenSSL"), Ver(default), Nul, Marker("OpenSSL"), Ver(v1_1k), Nul>>
Kernel  == <<Text(14), Marker("Linux kernel"), Ver(v5_4y)>>
\* The version stands before, or behind, a string that mentions Dropbear.
Dropbear  == <<Marker("Dropbear"), Text(3), Nul, Text(1), Nul, Ver(v2019), Nul, Mention>>
Dropbear2 == <<Ver(v2020), Nul, Text(2), Nul, Mention, Nul, Ver(v2019), Nul, Text(1), Nul,
               Marker("Dropbear")>>
\* A string of the shape that has nothing to do with it, and one that has but for
\* its '-'; the version behind a marker is a '.'.
BuildId   == <<Ver(v2020), Nul, Text(1), Nul, Marker("Dropbear"), Text(1), Nul, Dashed(v2019), Nul,
               Marker("BusyBox"), Ver(dots), Nul>>
\* The window ends in the version, or in a marker; a version longer than the buffer.
AtTheEdge == <<Text(43), Marker("OpenSSL"), Ver(v1_1k)>>
OverEdge  == <<Text(50), Marker("BusyBox"), Ver(v1_36)>>
Longest   == <<Marker("BusyBox"), Ver(vLong), Text(1)>>
Shell     == <<Pat("telnetd"), Text(2)>>
\* A pattern that ends with what is read of a file for patterns, and one behind it.
Cipher    == <<Text(8), Pat("md5"), Pat("telnetd"), Marker("OpenSSL"), Ver(v1_1k)>>

E(name, node) == [name |-> name, node |-> node]

\* A link to a file, one that leads nowhere, and a directory below.
Firmware ==
    [root |-> "/", len |-> 3,
     entries |-> [d \in {"/", "etc"} |->
        IF d = "/" THEN {E("bb", "busybox"), E("etc", "etc"), E("sh", "link")}
                   ELSE {E("key", "libssl"), E("old", "dangling")}],
     content |-> [f \in {"busybox", "libssl"} |-> IF f = "busybox" THEN Busybox ELSE Libssl],
     target |-> [l \in {"link", "dangling"} |-> IF l = "link" THEN "busybox" ELSE None],
     unreadable |-> {}]

\* Files the rules speak of.
Tools ==
    [root |-> "/", len |-> 3,
     entries |-> [d \in {"/"} |-> {E("sh", "shell"), E("x", "cipher")}],
     content |-> [f \in {"shell", "cipher"} |-> IF f = "shell" THEN Shell ELSE Cipher],
     target |-> <<>>,
     unreadable |-> {}]

\* A link to the directory it is in, and one to a directory beside it.
Loop ==
    [root |-> "/", len |-> 3,
     entries |-> [d \in {"/", "etc"} |->
        IF d = "/" THEN {E("up", "up"), E("db", "dropbear"), E("etc", "etc")} ELSE {E("x", "kernel")}],
     content |-> [f \in {"dropbear", "kernel"} |-> IF f = "dropbear" THEN Dropbear ELSE Kernel],
     target |-> [l \in {"up"} |-> "/"],
     unreadable |-> {}]

Locked ==
    [root |-> "/", len |-> 3,
     entries |-> [d \in {"/", "etc"} |->
        IF d = "/" THEN {E("bb", "dropbear"), E("etc", "etc"), E("key", "secret"), E("sh", "buildid")}
                   ELSE {E("x", "libssl")}],
     content |-> [f \in {"dropbear", "buildid", "secret", "libssl"} |->
        CASE f = "dropbear" -> Dropbear2 [] f = "buildid" -> BuildId
          [] f = "secret" -> Shell [] OTHER -> Libssl],
     target |-> <<>>,
     unreadable |-> {"etc", "secret"}]

Edges ==
    [root |-> "/", len |-> 3,
     entries |-> [d \in {"/"} |-> {E("a", "edge"), E("b", "over"), E("x", "longest"), E("key", "libcrypto")}],
     content |-> [f \in {"edge", "over", "longest", "libcrypto"} |->
        CASE f = "edge" -> AtTheEdge [] f = "over" -> OverEdge
          [] f = "libcrypto" -> Libcrypto [] OTHER -> Longest],
     target |-> <<>>,
     unreadable |-> {}]

\* What is left of "longname" names another file, of "otherdir" nothing.
Long ==
    [root |-> "/", len |-> 10,
     entries |-> [d \in {"/", "d"} |->
        IF d = "/" THEN {E("longname", "busybox"), E("long", "shell"), E("otherdir", "d")}
                   ELSE {E("x", "libssl")}],
     content |-> [f \in {"busybox", "shell", "libssl"} |->
        CASE f = "busybox" -> Busybox [] f = "shell" -> Shell [] OTHER -> Libssl],
     target |-> <<>>,
     unreadable |-> {}]

\* Of a name in "etc" not one character fits: the path names "etc" again.
Deep ==
    [root |-> "/", len |-> 11,
     entries |-> [d \in {"/", "etc"} |->
        IF d = "/" THEN {E("etc", "etc"), E("x", "libssl")} ELSE {E("key", "busybox"), E("a", "shell")}],
     content |-> [f \in {"busybox", "shell", "libssl"} |->
        CASE f = "busybox" -> Busybox [] f = "shell" -> Shell [] OTHER -> Libssl],
     target |-> <<>>,
     unreadable |-> {}]

Sealed == [Deep EXCEPT !.unreadable = {"/"}]

\* The last link does not fit, or a name behind it.
Tight == [Loop EXCEPT !.len = 4]

MCDirectories == [d \in {"fw", "tools", "loop", "tight", "locked", "edges", "long", "deep", "sealed"} |->
    CASE d = "fw" -> Firmware [] d = "tools" -> Tools [] d = "loop" -> Loop [] d = "tight" -> Tight
      [] d = "locked" -> Locked [] d = "edges" -> Edges [] d = "long" -> Long [] d = "deep" -> Deep
      [] OTHER -> Sealed]

MCImageFiles == [f \in {"img", "bad"} |-> IF f = "img" THEN [Edges EXCEPT !.len = 4] ELSE None]

MCNameLen == [name \in {"bb", "etc", "sh", "key", "old", "up", "db", "x", "a", "b", "long",
                        "longname", "otherdir", "othe"} |->
    CASE name \in {"x", "a", "b"} -> 1 [] name \in {"bb", "sh", "up", "db"} -> 2
      [] name \in {"long", "othe"} -> 4 [] name \in {"longname", "otherdir"} -> 8 [] OTHER -> 3]

\* In a buffer of 16 bytes and with a path of 10 before them.
MCCut == [c \in {<<"longname", 4>>, <<"otherdir", 4>>} |->
            IF c[1] = "longname" THEN "long" ELSE "othe"]

MCDetectors == <<{[by |-> "exposed", pattern |-> "telnetd"]}, {[by |-> "crypto", pattern |-> "md5"]}>>

Rule(by, pattern, severity) ==
    [by |-> by, pattern |-> pattern, description |-> "d", severity |-> severity]

File(yaml, fits, parses, some) == [yaml |-> yaml, fits |-> fits, parses |-> parses, rules |-> some]

RTelnet == Rule("r1", "telnetd", "low")
RMd5    == Rule("r2", "md5", "high")

MCRuleDirs == [d \in {"rules", "none"} |->
    IF d = "none" THEN {File(FALSE, TRUE, TRUE, <<RTelnet>>)}
    ELSE {File(TRUE, TRUE, TRUE, <<RTelnet, RMd5>>),
          File(TRUE, TRUE, TRUE, <<Rule("r3", "telnetd", "low")>>),
          File(TRUE, TRUE, TRUE, <<Rule("r4", "telnetd", "low"), Rule("r5", "md5", "urgent")>>),
          File(TRUE, FALSE, TRUE, <<Rule("r6", "md5", "low")>>)}]

Entry(id, op, v) ==
    [id |-> id, affected |-> <<[op |-> op, version |-> v]>>, severity |-> "high", description |-> "d"]

MCDatasets == [d \in {"cves", "broken"} |->
    IF d = "broken" THEN [parses |-> FALSE, components |-> None]
    ELSE [parses |-> TRUE,
          components |->
            {[name |-> "OpenSSL", cves |-> {Entry("c1", "<=", v1_1k), Entry("c2", "<", v1_1)}],
             [name |-> "Dropbear", cves |-> {Entry("c3", "<", v2020)}]}]]

R == "--rules"
C == "--cve-dataset"

MCArgLists ==
    {<<"tools", R, "rules", C, "cves">>, <<"fw", C, "cves">>, <<C, "cves", "loop">>,
     <<"locked", R, "none", C, "cves">>,
     <<"edges", C, "broken">>, <<R, "missing", "long">>, <<"deep">>, <<"tight">>, <<"sealed", C, "missing">>,
     <<"img", C, "cves">>, <<"bad">>, <<>>, <<"fw", R>>, <<"fw", "img">>, <<R, "none", R, "rules", "edges">>}

MCCalver == <<{4}, 1 .. 3>>
=============================================================================

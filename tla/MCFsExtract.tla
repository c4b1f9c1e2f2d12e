---------------------------- MODULE MCFsExtract -----------------------------
(* The instances of FsExtract that TLC checks.                             *)
EXTENDS FsExtract

CONSTANTS p, q,                  \* two paths
          sq, cr, be, jf, junk   \* the contents the image file can have

MCPaths  == {p, q}
MCImages == {sq, cr, be, jf, junk}

\* "hsqs", the cramfs magic in both byte orders, the jffs2 magic, and a file
\* that is none of them.
MCHeader ==
    [i \in MCImages |->
        [magic    |-> CASE i = sq   -> <<104, 115, 113, 115>>
                        [] i = cr   -> <<69, 61, 205, 40>>
                        [] i = be   -> <<40, 205, 61, 69>>
                        [] i = jf   -> <<133, 25, 3, 32>>
                        [] i = junk -> <<127, 69, 76, 70>>,
         size     |-> 4096,
         declared |-> IF i = be THEN 75 ELSE 4096]]

\* be declares less than its own superblock and is refused.
MCContent ==
    [i \in MCImages |-> CASE i = sq -> {p, q}
                          [] i = cr -> {q}
                          [] i = jf -> {p}
                          [] OTHER  -> {}]

\* Each format with a sound image or with a damaged one.
MCDamageA == [i \in MCImages |-> CASE i = cr -> {q} [] OTHER -> {}]
MCDamageB == [i \in MCImages |-> CASE i = sq -> {p} [] i = jf -> {p}
                                   [] OTHER -> {}]
MCDamageC == [i \in MCImages |-> CASE i = sq -> {Root} [] i = jf -> {p}
                                   [] OTHER -> {}]

MCFound ==
    {Absent, [kind |-> "file", files |-> NoFiles],
     [kind |-> "dir", files |-> NoFiles],
     [kind |-> "dir", files |-> [x \in Paths |-> Foreign]],
     [kind |-> "dir", files |-> [x \in Paths |-> IF x = q THEN Partial ELSE jf]],
     Full(sq)}
=============================================================================

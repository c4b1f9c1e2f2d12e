------------------------------ MODULE Jffs2Scan ------------------------------
(***************************************************************************)
(* scan_log and find_next_node (src/src/extract/jffs2.c): one pass over a  *)
(* log-structured image, from node to node, and over the filler between    *)
(* them in chunks of a fixed buffer.                                       *)
(*                                                                         *)
(* An image is its length and what begins with the magic number: node[x]   *)
(* is the common header, and what it heads, at offset x.  Everywhere else  *)
(* is filler.  Offsets and lengths are in bytes.                           *)
(***************************************************************************)
EXTENDS Integers, Sequences, SequencesExt

CONSTANTS
    Images,          \* image records, see ImageOK
    GAP_SCAN_CHUNK,  \* 65536 in the code
    IOFaults         \* whether an allocation, a seek or a read may fail

HEADER_SIZE       == 12    \* JFFS2_COMMON_HEADER_SIZE
DIRENT_FIXED_SIZE == 28
INODE_FIXED_SIZE  == 56

\* `payload' is the length of the name of a dirent (nsize), or of the data of
\* an inode node (csize).
NodeOK(n) ==
    /\ n.type \in {"dirent", "inode", "other"}
    /\ n.totlen \in Nat
    /\ n.payload \in Nat

ImageOK(m) ==
    /\ m.len \in Nat
    /\ \A x \in DOMAIN m.node : x \in Nat /\ NodeOK(m.node[x])

ASSUME Jffs2ScanAssumption ==
    /\ \A m \in Images : ImageOK(m)
    /\ GAP_SCAN_CHUNK \in Nat \ {0} /\ GAP_SCAN_CHUNK % 4 = 0
    /\ IOFaults \in BOOLEAN

VARIABLES
    im,     \* the image
    pc,     \* "scan", "gap" (inside find_next_node) or "done"
    rc,     \* what scan_log returns once pc is "done"
    pos,    \* scan_log's cursor, or find_next_node's
    found   \* offsets of the dirent and inode nodes added, in log order

vars == <<im, pc, rc, pos, found>>

IsNode(x) == x \in DOMAIN im.node

Init ==
    /\ im \in Images
    /\ pc = "scan"
    /\ rc = 0
    /\ pos = 0
    /\ found = <<>>

-----------------------------------------------------------------------------
(* scan_log.                                                               *)

MoreLog == pos + HEADER_SIZE <= im.len

Fixed(n) == CASE n.type = "dirent" -> DIRENT_FIXED_SIZE
              [] n.type = "inode"  -> INODE_FIXED_SIZE
              [] OTHER             -> 0

\* The node lies in the image, and (parse_dirent_node, parse_inode_node) its
\* fixed fields and its payload lie in the node.  A name has 1 to 255 bytes.
NodeAccepted(n) ==
    /\ n.totlen >= HEADER_SIZE
    /\ pos + n.totlen <= im.len
    /\ n.type # "other" =>
         /\ n.totlen >= HEADER_SIZE + Fixed(n)
         /\ n.payload <= n.totlen - HEADER_SIZE - Fixed(n)
    /\ n.type = "dirent" => n.payload \in 1 .. 255

\* Nodes are 4-byte aligned on flash.
Align(x) == ((x + 3) \div 4) * 4

\* A fault: only the header is stepped over.
MUT_ReadNode_into_node ==
    /\ pc = "scan" /\ MoreLog /\ IsNode(pos)
    /\ NodeAccepted(im.node[pos])
    /\ found' = IF im.node[pos].type = "other" THEN found ELSE Append(found, pos)
    /\ pos' = Align(pos + HEADER_SIZE)
    /\ UNCHANGED <<im, pc, rc>>

ReadNode ==
    /\ pc = "scan" /\ MoreLog /\ IsNode(pos)
    /\ NodeAccepted(im.node[pos])
    /\ found' = IF im.node[pos].type = "other" THEN found ELSE Append(found, pos)
    /\ pos' = Align(pos + im.node[pos].totlen)
    /\ UNCHANGED <<im, pc, rc>>

RejectNode ==
    /\ pc = "scan" /\ MoreLog
    /\ (IsNode(pos) /\ ~NodeAccepted(im.node[pos])) \/ IOFaults
    /\ pc' = "done" /\ rc' = -1
    /\ UNCHANGED <<im, pos, found>>

EnterGap ==
    /\ pc = "scan" /\ MoreLog /\ ~IsNode(pos)
    /\ pc' = "gap"
    /\ UNCHANGED <<im, rc, pos, found>>

EndOfLog ==
    /\ pc = "scan" /\ ~MoreLog
    /\ pc' = "done"
    /\ UNCHANGED <<im, rc, pos, found>>

-----------------------------------------------------------------------------
(* find_next_node: one chunk per step.                                     *)

Got == IF im.len - pos < GAP_SCAN_CHUNK THEN im.len - pos ELSE GAP_SCAN_CHUNK

\* A fault: the candidate at the end of a chunk is missed.
MUT_Candidates_short == {pos + i : i \in {j \in 0 .. Got - 5 : j % 4 = 0}}

\* The offsets in the chunk that are compared with the magic number.
Candidates == {pos + i : i \in {j \in 0 .. Got - 2 : j % 4 = 0}}

FoundNode(x) ==
    /\ pc = "gap" /\ pos + 2 <= im.len
    /\ x \in Candidates /\ IsNode(x)
    /\ \A y \in Candidates : IsNode(y) => x <= y
    /\ pos' = x
    /\ pc' = "scan"
    /\ UNCHANGED <<im, rc, found>>

\* A fault: a tail of two or three bytes is read again and again.
MUT_NextChunk_no_tail_check ==
    /\ pc = "gap" /\ pos + 2 <= im.len
    /\ \A y \in Candidates : ~IsNode(y)
    /\ pos' = pos + (Got \div 4) * 4
    /\ UNCHANGED <<im, pc, rc, found>>

\* The chunk holds no node.  Less than four bytes are the end of the image.
NextChunk ==
    /\ pc = "gap" /\ pos + 2 <= im.len
    /\ \A y \in Candidates : ~IsNode(y)
    /\ IF Got < 4 THEN pc' = "done" /\ UNCHANGED pos
                  ELSE pos' = pos + (Got \div 4) * 4 /\ UNCHANGED pc
    /\ UNCHANGED <<im, rc, found>>

\* No node before the end of the image, or a read that fails: the log ends
\* here, with success.
NoMoreNodes ==
    /\ pc = "gap"
    /\ pos + 2 > im.len \/ IOFaults
    /\ pc' = "done"
    /\ UNCHANGED <<im, rc, pos, found>>

-----------------------------------------------------------------------------
find_next_node == (\E x \in DOMAIN im.node : FoundNode(x)) \/ NextChunk \/ NoMoreNodes
scan_log == ReadNode \/ RejectNode \/ EnterGap \/ EndOfLog

Returned == pc = "done" /\ UNCHANGED vars

Next == scan_log \/ find_next_node \/ Returned

Spec     == Init /\ [][Next]_vars
FairSpec == Spec /\ WF_vars(scan_log \/ find_next_node)
-----------------------------------------------------------------------------
(* Correctness.                                                            *)

TypeOK ==
    /\ ImageOK(im)
    /\ pc \in {"scan", "gap", "done"}
    /\ rc \in {0, -1}
    /\ pos \in Nat /\ pos % 4 = 0
    /\ found \in Seq(Nat)

PayloadEnd(x) == x + HEADER_SIZE + Fixed(im.node[x]) + im.node[x].payload

\* What was recorded of a node can be read again later: its fixed fields and
\* its payload lie in the node, and the node in the image.  (file_offset and
\* csize in parse_inode_node, on which the fetch_fragment functions rely.)
PayloadsReadable ==
    \A i \in 1 .. Len(found) :
      /\ IsNode(found[i])
      /\ PayloadEnd(found[i]) <= found[i] + im.node[found[i]].totlen
      /\ found[i] + im.node[found[i]].totlen <= im.len

\* No node is recorded twice, and none that begins inside another: magic
\* numbers in names and data are never taken for nodes.  (scan_log.)
NodesApart ==
    /\ \A i \in 1 .. Len(found) : found[i] + im.node[found[i]].totlen <= pos
    /\ \A i, j \in 1 .. Len(found) :
         i < j => found[i] + im.node[found[i]].totlen <= found[j]

\* The recorded nodes are pieces of the log: each whole and in the image, and no
\* two of them overlap.
NodesInLog == PayloadsReadable /\ NodesApart

-----------------------------------------------------------------------------
(* The log of an image, without regard to the cursor and to chunks.        *)

NodeEnd(x) == Align(x + im.node[x].totlen)

WellFormed(x) ==
    LET n == im.node[x]
    IN  /\ n.totlen >= HEADER_SIZE /\ x + n.totlen <= im.len
        /\ n.type # "other" => PayloadEnd(x) <= x + n.totlen
        /\ n.type = "dirent" => n.payload \in 1 .. 255

\* Where a header may stand: 4-byte aligned, and in the image.
Headers == {x \in DOMAIN im.node : x % 4 = 0 /\ x + HEADER_SIZE <= im.len}

\* The headers that no node of the log covers.
IsLog(N) == N = {x \in Headers : \A y \in N : y < x => NodeEnd(y) <= x}

LogNodes == CHOOSE N \in SUBSET Headers : IsLog(N)

\* found are the dirent and inode nodes of the log before the cursor, in order.
FoundInOrder ==
    /\ \A i, j \in 1 .. Len(found) : i < j => found[i] < found[j]
    /\ \A x \in Headers :
         (\E i \in 1 .. Len(found) : found[i] = x)
            <=> x \in LogNodes /\ x < pos /\ im.node[x].type # "other"

\* A scan collects dirent and inode nodes of the log only, in order and none
\* left out; unless a call fails it returns 0 with all of them if no node of
\* the log is malformed, and -1 otherwise.  How the gaps fall into chunks
\* makes no difference.  ("stops (successfully) once no further valid node
\* exists before image_size", scan_log.)
ScanFindsTheLog ==
    pc = "done" =>
      /\ FoundInOrder
      /\ ~IOFaults =>
           IF \E x \in LogNodes : ~WellFormed(x)
           THEN rc = -1
           ELSE rc = 0 /\ \A x \in LogNodes : x < pos

\* The scan ends, on every image.  (find_next_node: fewer than four bytes
\* make no progress.)
Terminates == <>(pc = "done")
=============================================================================

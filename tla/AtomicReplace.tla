--------------------------- MODULE AtomicReplace ----------------------------
(***************************************************************************)
(* What crimp_fs_extract promises the users of output_dir (the comment     *)
(* above it in src/src/extract/identify.c): a call either installs the     *)
(* complete result of its image in one step, or leaves what was there      *)
(* exactly as it was.                                                      *)
(***************************************************************************)
CONSTANTS Requests,     \* images a call can be given
          Installable,  \* those among them that some extractor can finish
          States,       \* everything output_dir can show
          Result        \* Result[r] : what output_dir shows after success

VARIABLES shown,        \* what output_dir shows
          request,      \* the image of the current or last call
          status        \* "none", "running", "ok" or "fail"

avars == <<shown, request, status>>

Init == /\ shown \in States
        /\ request \in Requests
        /\ status = "none"

Begin(r) == /\ status # "running"
            /\ status' = "running"
            /\ request' = r
            /\ UNCHANGED shown

\* A call refused at once.
Refuse(r) == /\ status # "running"
             /\ status' = "fail"
             /\ request' = r
             /\ UNCHANGED shown

Install == /\ status = "running"
           /\ request \in Installable
           /\ shown' = Result[request]
           /\ status' = "ok"
           /\ UNCHANGED request

GiveUp == /\ status = "running"
          /\ status' = "fail"
          /\ UNCHANGED <<shown, request>>

Next == (\E r \in Requests : Begin(r) \/ Refuse(r)) \/ Install \/ GiveUp

Spec == Init /\ [][Next]_avars
=============================================================================

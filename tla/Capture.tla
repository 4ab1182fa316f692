------------------------------- MODULE Capture -------------------------------
(***************************************************************************)
(* What a recording promises whoever starts it, without threads, queues or *)
(* partial files.  A capture admits samples into a log, also while it is   *)
(* failing (a submit that was already past the gate), never while it is    *)
(* suspended.  The output file changes in one step, from whatever was      *)
(* there to the whole log, and nothing is admitted after that; the capture *)
(* comes to rest without an error only when the output is the log.         *)
(***************************************************************************)
EXTENDS Naturals, Sequences

CONSTANTS Sample,     \* what can be admitted
          LastCapture \* captures are numbered 1..LastCapture

VARIABLES status,  \* "idle", "running", "suspended" or "failed"
          id,      \* number of the current capture
          log,     \* the samples it has admitted
          output,  \* the file at the output path: its capture and its rows
          deaths   \* how often the process has died

vars == <<status, id, log, output, deaths>>

Published == output.cap = id

Init == /\ status = "idle" /\ id = 0 /\ log = <<>>
        /\ output = [cap |-> 0, rows |-> <<>>]
        /\ deaths = 0

Begin == /\ status \in {"idle", "failed"}
         /\ status' = "running" /\ id' = id + 1 /\ log' = <<>>
         /\ UNCHANGED <<output, deaths>>

Admit == /\ status \in {"running", "failed"} /\ ~Published
         /\ \E s \in Sample : log' = Append(log, s)
         /\ UNCHANGED <<status, id, output, deaths>>

Suspend == /\ status = "running" /\ ~Published
           /\ status' = "suspended"
           /\ UNCHANGED <<id, log, output, deaths>>

Continue == /\ status = "suspended"
            /\ status' = "running"
            /\ UNCHANGED <<id, log, output, deaths>>

Publish == /\ status \in {"running", "failed"} /\ ~Published
           /\ output' = [cap |-> id, rows |-> log]
           /\ UNCHANGED <<status, id, log, deaths>>

\* A capture ends well when it is published, or never began to admit.
Finish == /\ status = "running"
          /\ Published \/ log = <<>>
          /\ status' = "idle"
          /\ UNCHANGED <<id, log, output, deaths>>

Fail == /\ status \in {"running", "suspended"}
        /\ status' = "failed"
        /\ UNCHANGED <<id, log, output, deaths>>

\* The process dies; another program puts a file of its own at the output path.
Die == /\ status' = "idle" /\ deaths' = deaths + 1
       /\ UNCHANGED <<id, log, output>>

Intrude == /\ output.cap = 0
           /\ output' = [cap |-> LastCapture + 1, rows |-> <<>>]
           /\ UNCHANGED <<status, id, log, deaths>>

Next == \/ Begin \/ Admit \/ Suspend \/ Continue \/ Publish \/ Finish \/ Fail
        \/ Die \/ Intrude

Spec == Init /\ [][Next]_vars
=============================================================================

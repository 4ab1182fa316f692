------------------------------ MODULE MCSession ------------------------------
(* Session for TLC: small plays, each for some of the hazards. *)
EXTENDS Session

Pausing      == {"connect", "disconnect", "pause", "resume"}
AnyOperation == Pausing \cup {"bias", "start_recording", "stop_recording"}

\* Measurements against pause, resume, disconnect and a second connect.
Measuring == [operations |-> Pausing, ops |-> 4, generations |-> 2, revisions |-> 1,
              observed |-> {"sample", "plot"}, followed |-> {}]

\* The same calls against the connection snapshots they and a poll publish.
Leaving == [Measuring EXCEPT !.observed = {}, !.followed = {"connection"}]

\* The sensor's configuration changes while samples stream.
Configuring == [operations |-> {"connect", "disconnect"}, ops |-> 2,
                generations |-> 1, revisions |-> 2,
                observed |-> {"sample", "configuration"}, followed |-> {}]

\* Every operation, with a recorder that may fail at any time.
Recording == [Measuring EXCEPT !.operations = AnyOperation, !.generations = 1,
                               !.observed = {}]

\* A recorder that fails, and what is shown of it.
Failing == [Recording EXCEPT !.operations = {"connect", "disconnect", "start_recording"},
                             !.ops = 2, !.followed = {"recording"}]

\* A stopped recorder against the snapshot a poll still holds.
Stopping == [Recording EXCEPT
               !.operations = {"connect", "start_recording", "stop_recording"},
               !.ops = 3, !.followed = {"recording"}]

AllPlays    == {Measuring, Leaving, Configuring, Recording}
FailingOnly == {Failing}
StoppingOnly == {Stopping}
=============================================================================

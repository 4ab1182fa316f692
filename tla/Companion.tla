------------------------------- MODULE Companion -------------------------------
(***************************************************************************)
(* The companion process (core/companion/src/companion.cpp): the main      *)
(* thread, which reads commands, runs them on the session and answers      *)
(* them, and the thread of OutputWriter, which alone writes to stdout: the *)
(* answers and, from the sink, the session's events.  The session is what  *)
(* EventSink knows of its callers: until it is destroyed its threads push  *)
(* events and begin, revoke and purge measurements whenever they like.     *)
(*                                                                         *)
(* A critical section of OutputWriter's mutex, a call of the sink, of the  *)
(* session or of the input, and a write are a step each.  A wait on its    *)
(* condition is a guard: whatever a waiter waits for is changed under the  *)
(* mutex and notified to all of them.                                      *)
(***************************************************************************)
EXTENDS EventSink

CONSTANTS MaxCommands,  \* bound: lines of input
          MaxEvents,    \* bound: events the session pushes
          MaxLeases,    \* bound: calls of begin_measurements
          Pushed        \* the kinds of events it pushes

ASSUME CompanionConstants ==
  MaxCommands \in Nat /\ MaxEvents \in Nat /\ MaxLeases \in Nat

VARIABLES
  mpc,        \* main: next step of Impl::run
  shutdown,   \* main: it is in the branch of ShutdownCommand
  result,     \* main: what run will return
  cancelled,  \* the source's cancelled_
  session,    \* whether there is a session
  ticket,     \* next_ticket_
  pending,    \* pending_: its ticket, 0 for none
  completed,  \* completed_ticket_
  closing,    \* closing_
  failed,     \* failed_
  finished,   \* session_events_finished_
  wpc,        \* writer: next step of its run
  taken,      \* writer: the ticket of the response it writes
  ends,       \* writer: its last read said Closed
  broken,     \* nobody reads stdout any more
  lines,      \* history: lines of input so far
  made,       \* history: events pushed so far
  cut,        \* history: how many had been when a lease was last revoked
  generation, \* the session's active_generation_
  told,       \* history: the highest dropped_before that left the queue
  forgotten,  \* history: dropped_errors_ when the session last connected
  said        \* history: what has been written

main   == <<mpc, shutdown, result, session, lines>>
output == <<ticket, pending, completed, closing, failed, finished>>
thread == <<wpc, taken, ends>>
world  == <<broken, made, generation>>
seen   == <<cut, told, forgotten>>
vars   == <<sink, main, cancelled, output, thread, world, seen, said>>

Init ==
  /\ SinkInit
  /\ mpc = "next" /\ shutdown = FALSE /\ result = 0 /\ cancelled = FALSE
  /\ session = TRUE
  /\ ticket = 0 /\ pending = 0 /\ completed = 0
  /\ closing = FALSE /\ failed = FALSE /\ finished = FALSE
  /\ wpc = "response" /\ taken = 0 /\ ends = FALSE
  /\ broken = FALSE /\ lines = 0 /\ made = 0 /\ generation = 0
  /\ cut = 0 /\ told = 0 /\ forgotten = 0 /\ said = <<>>
-----------------------------------------------------------------------------
(* The main thread *)

MainOnly == <<sink, output, thread, world, seen, said>>

\* A line: a command for the session, one that needs only an answer (hello, a line
\* that is rejected), shutdown, or one whose processing throws.  A connect that finds
\* the session disconnected is the first one, or there was a disconnect before it.
ReadLine ==
  /\ mpc = "next" /\ ~cancelled /\ lines < MaxCommands
  /\ lines' = lines + 1
  /\ \/ mpc' \in {"dispatch", "submit"} /\ UNCHANGED <<shutdown, cancelled, result>>
     \/ mpc' = "connect" /\ 2 * generation <= lines /\ UNCHANGED <<shutdown, cancelled, result>>
     \/ mpc' = "disconnect" /\ shutdown' = TRUE /\ cancelled' = TRUE /\ UNCHANGED result
     \/ mpc' = "stop" /\ result' = 2 /\ UNCHANGED <<shutdown, cancelled>>
  /\ UNCHANGED <<MainOnly, session>>

\* The end of the input, or an input that cannot be read.
InputEnds ==
  /\ mpc = "next" /\ ~cancelled /\ mpc' = "stop"
  /\ result' \in IF failed THEN {3} ELSE {result, 2}
  /\ UNCHANGED <<MainOnly, shutdown, session, lines, cancelled>>

\* The writer's failure has cancelled the wait for input.
InputCancelled ==
  /\ mpc = "next" /\ cancelled /\ mpc' = "stop"
  /\ result' = IF failed THEN 3 ELSE result
  /\ UNCHANGED <<MainOnly, shutdown, session, lines, cancelled>>

\* connect makes a new generation and throws away whatever is queued of another
\* one.  What it does after that, begin_measurements included, is the session's.
Connect ==
  /\ mpc = "connect" /\ mpc' = "dispatch"
  /\ generation' = generation + 1 /\ Retain(generation + 1)
  /\ forgotten' = dropped
  /\ UNCHANGED <<lease, ended, held, shutdown, result, session, lines, cancelled,
                 output, thread, broken, made, cut, told, said>>

\* dispatch returns, with an answer of either kind.
Dispatched ==
  /\ mpc = "dispatch" /\ mpc' = "submit"
  /\ UNCHANGED <<MainOnly, shutdown, result, session, lines, cancelled>>

\* Where the loop, or the branch of shutdown, goes on.
Answered == mpc' = (IF shutdown THEN "close" ELSE "next") /\ UNCHANGED result
NotAnswered == mpc' = (IF shutdown THEN "close" ELSE "stop") /\ result' = 3

\* OutputWriter::submit, up to its second wait.  An answer that cannot be
\* serialized is not submitted.
Submit ==
  /\ mpc = "submit"
  /\ \/ NotAnswered /\ UNCHANGED <<ticket, pending>>
     \/ /\ pending = 0 /\ ~failed /\ ~closing
        /\ ticket' = ticket + 1 /\ pending' = ticket + 1
        /\ mpc' = "await" /\ UNCHANGED result
  /\ UNCHANGED <<sink, shutdown, session, lines, cancelled, completed, closing,
                 failed, finished, thread, world, seen, said>>

\* Mutant: a failure is taken for the answer's completion.
AwaitWritten_any ==
  /\ mpc = "await" /\ (completed >= ticket \/ failed \/ closing)
  /\ Answered
  /\ UNCHANGED <<MainOnly, shutdown, session, lines, cancelled>>

\* The rest of submit.
AwaitWritten ==
  /\ mpc = "await" /\ (completed >= ticket \/ failed \/ closing)
  /\ IF completed >= ticket /\ ~failed THEN Answered ELSE NotAnswered
  /\ UNCHANGED <<MainOnly, shutdown, session, lines, cancelled>>

Stop ==
  /\ mpc = "stop" /\ mpc' = "disconnect" /\ cancelled' = TRUE
  /\ UNCHANGED <<MainOnly, shutdown, result, session, lines>>

\* Mutant: shutdown is answered as soon as the session is gone.
DisconnectSession_answers ==
  /\ mpc = "disconnect" /\ session' = FALSE
  /\ mpc' = IF shutdown THEN "submit" ELSE "finish"
  /\ result' \in {result, IF shutdown \/ result # 0 THEN result ELSE 2}
  /\ UNCHANGED <<MainOnly, shutdown, lines, cancelled>>

\* disconnect, which may report a failure, and the session is destroyed.
DisconnectSession ==
  /\ mpc = "disconnect" /\ session' = FALSE
  /\ mpc' = "finish"
  /\ result' \in {result, IF shutdown \/ result # 0 THEN result ELSE 2}
  /\ UNCHANGED <<MainOnly, shutdown, lines, cancelled>>

\* finish_session_events
FinishEvents ==
  /\ mpc = "finish" /\ mpc' = "drain"
  /\ IF finishing \/ closed THEN UNCHANGED <<queued, lease, ended, cut>>
     ELSE Finish /\ cut' = made
  /\ UNCHANGED <<held, shutdown, result, session, lines, cancelled, output,
                 thread, world, told, forgotten, said>>

AwaitDrained ==
  /\ mpc = "drain" /\ (finished \/ failed)
  /\ mpc' = IF shutdown THEN "submit" ELSE "close"
  /\ result' = IF failed THEN 3 ELSE result
  /\ UNCHANGED <<MainOnly, shutdown, session, lines, cancelled>>

Close ==
  /\ mpc = "close" /\ mpc' = "join" /\ closing' = TRUE
  /\ UNCHANGED <<sink, shutdown, result, session, lines, cancelled, ticket,
                 pending, completed, failed, finished, thread, world, seen, said>>

Join ==
  /\ mpc = "join" /\ wpc = "exited" /\ mpc' = "return"
  /\ result' = IF failed THEN 3 ELSE result
  /\ UNCHANGED <<MainOnly, shutdown, session, lines, cancelled>>

\* run returns: OutputWriter's and the sink's destructors.
Return ==
  /\ mpc = "return" /\ mpc' = "ended"
  /\ CloseSink /\ cut' = made
  /\ UNCHANGED <<held, shutdown, result, session, lines, cancelled, output,
                 thread, world, told, forgotten, said>>

MainStep == \/ InputCancelled \/ Connect \/ Dispatched \/ Submit \/ AwaitWritten \/ Stop
            \/ DisconnectSession \/ FinishEvents \/ AwaitDrained \/ Close
            \/ Join \/ Return
-----------------------------------------------------------------------------
(* OutputWriter::run *)

Says(kind, n) == said' = Append(said, [kind |-> kind, n |-> n])

\* write_response takes what is pending.
TakeResponse ==
  /\ wpc = "response"
  /\ taken' = pending /\ pending' = 0
  /\ wpc' = IF pending = 0 THEN "read" ELSE "write"
  /\ UNCHANGED <<sink, main, cancelled, ticket, completed, closing, failed,
                 finished, ends, world, seen, said>>

\* commit of a response.
WriteResponse ==
  /\ wpc = "write"
  /\ IF broken
     THEN wpc' = "fail" /\ UNCHANGED said
     ELSE wpc' = "complete" /\ Says(IF shutdown THEN "goodbye" ELSE "answer", taken)
  /\ UNCHANGED <<sink, main, cancelled, output, taken, ends, world, seen>>

CompleteTicket ==
  /\ wpc = "complete" /\ wpc' = "read"
  /\ completed' = taken
  /\ UNCHANGED <<sink, main, cancelled, ticket, pending, closing, failed,
                 finished, taken, ends, world, seen, said>>

Pops == Pop /\ told' = Max({told, Head(events).lost})

\* Mutant: finishing is looked at before the queue.
ReadEvent_closed ==
  /\ wpc = "read"
  /\ \/ ~finishing /\ Pops /\ wpc' = "event" /\ ends' = FALSE
     \/ /\ events = <<>> \/ finishing
        /\ wpc' = "check" /\ ends' = (finishing \/ closed)
        /\ UNCHANGED <<sink, told>>
  /\ UNCHANGED <<main, cancelled, output, taken, world, cut, forgotten, said>>

\* wait_for_event: an event, Closed, or nothing within its 5 ms.
ReadEvent ==
  /\ wpc = "read"
  /\ \/ Pops /\ wpc' = "event" /\ ends' = FALSE
     \/ /\ closed \/ events = <<>>
        /\ wpc' = "check" /\ ends' = (finishing \/ closed)
        /\ UNCHANGED <<sink, told>>
  /\ UNCHANGED <<main, cancelled, output, taken, world, cut, forgotten, said>>

\* serialize_event and commit; after a recording snapshot comes its progress.
WriteEvent ==
  /\ wpc = "event" /\ Write
  /\ \/ /\ ~Deliverable(held) /\ wpc' = "check" /\ UNCHANGED said
     \/ /\ Deliverable(held) /\ broken /\ wpc' = "fail" /\ UNCHANGED said
     \/ /\ Deliverable(held) /\ ~broken
        /\ wpc' = IF held.kind = "recording" THEN "progress" ELSE "check"
        /\ Says("event", 0)
  /\ UNCHANGED <<main, cancelled, output, taken, ends, world, seen>>

WriteProgress ==
  /\ wpc = "progress"
  /\ IF broken THEN wpc' = "fail" /\ UNCHANGED said
               ELSE wpc' = "check" /\ Says("event", 0)
  /\ UNCHANGED <<sink, main, cancelled, output, taken, ends, world, seen>>

CheckRead ==
  /\ wpc = "check"
  /\ finished' = (finished \/ ends)
  /\ wpc' = IF ends THEN "idle" ELSE "response"
  /\ UNCHANGED <<sink, main, cancelled, ticket, pending, completed, closing,
                 failed, taken, ends, world, seen, said>>

AwaitWork ==
  /\ wpc = "idle" /\ (pending # 0 \/ closing \/ failed)
  /\ wpc' = IF closing /\ pending = 0 THEN "exited" ELSE "response"
  /\ UNCHANGED <<sink, main, cancelled, output, taken, ends, world, seen, said>>

\* fail, and the notification that ends the wait for input.
Fail ==
  /\ wpc = "fail" /\ wpc' = "notify"
  /\ failed' = TRUE
  /\ UNCHANGED <<sink, main, cancelled, ticket, pending, completed, closing,
                 finished, taken, ends, world, seen, said>>

\* Mutant: nobody is told.
NotifyFailure_none ==
  /\ wpc = "notify" /\ wpc' = "exited"
  /\ UNCHANGED <<sink, main, cancelled, output, taken, ends, world, seen, said>>

NotifyFailure ==
  /\ wpc = "notify" /\ wpc' = "exited"
  /\ cancelled' = TRUE
  /\ UNCHANGED <<sink, main, output, taken, ends, world, seen, said>>

WriterStep == \/ TakeResponse \/ WriteResponse \/ CompleteTicket \/ ReadEvent
              \/ WriteEvent \/ WriteProgress \/ CheckRead \/ AwaitWork
              \/ Fail \/ NotifyFailure
-----------------------------------------------------------------------------
(* The session, and whoever reads stdout *)

Aside == <<main, cancelled, output, thread, broken, said>>

\* The number of an event is its body, so that older and newer can be told apart.
\* Before the first connect there is nothing to measure and nothing runs: what is
\* pushed then is pushed by a command, a stop of a recording that was not started.
Produce(kind) ==
  /\ session /\ made < MaxEvents
  /\ generation > 0 \/ (mpc = "dispatch" /\ kind \in {"recording", "error"})
  /\ made' = made + 1
  /\ Enqueue(Event(kind, generation, made + 1))
  /\ UNCHANGED <<lease, ended, held, generation, seen, Aside>>

Measurements ==
  /\ session /\ generation > 0
  /\ \/ /\ \/ epoch < MaxLeases /\ (Begin \/ BeginFails)
           \/ Revoke
        /\ cut' = IF leaseValid THEN made ELSE cut
        /\ UNCHANGED <<queued, told, forgotten>>
     \/ Purge(generation) /\ UNCHANGED <<lease, seen>>
  /\ UNCHANGED <<ended, held, made, generation, Aside>>

\* Nobody notices before the next write, so it happens when one is about to be done.
ReaderLeaves ==
  /\ wpc \in {"write", "event", "progress"}
  /\ ~broken /\ broken' = TRUE
  /\ UNCHANGED <<sink, main, cancelled, output, thread, made, generation, seen, said>>

Next == \/ ReadLine \/ InputEnds \/ MainStep
        \/ WriterStep
        \/ \E kind \in Pushed : Produce(kind)
        \/ Measurements \/ ReaderLeaves

Spec == Init /\ [][Next]_vars

\* Both threads run on.  No input has to come, and nobody has to leave.
FairSpec == Spec /\ WF_vars(MainStep) /\ WF_vars(WriterStep)
-----------------------------------------------------------------------------
IsAnswer(r) == r.kind \in {"answer", "goodbye"}
Answers == Keep(said, {i \in DOMAIN said : IsAnswer(said[i])})

\* test_companion.cpp:64: the answer to shutdown is the last thing written, and
\* everything the session had to say, its own end included, is said before it.
ShutdownAnswerIsLast ==
  \A i \in DOMAIN said : said[i].kind = "goodbye" =>
    i = Len(said) /\ ~session /\ events = <<>> /\ held = NoEvent

\* Every line is answered once and in order: when the next one is read the answers
\* to all before it have been written, whatever events came between them
\* (companion.cpp:60, 576).
LinesAreAnswered ==
  /\ \A i \in DOMAIN Answers : Answers[i].n = i
  /\ mpc = "next" => Len(Answers) = lines

\* companion_process_test.py:560, 604: the process returns 3 if its output failed;
\* if it returns 0 every line was answered and no event was left unwritten.
ExitCodeTellsTruth ==
  mpc = "return" =>
    /\ failed => result = 3
    /\ result = 0 => events = <<>> /\ held = NoEvent /\ Len(Answers) = lines

\* companion_process_test.py:513: when the output has failed, as after the end of
\* the input and a shutdown, the process ends, also if no input ever comes; and no
\* answer waits for a writer that has gone, or that waits for something else.
NobodyWaitsForEver ==
  /\ failed \/ mpc = "stop" \/ shutdown ~> mpc = "ended"
  /\ mpc = "await" ~> mpc # "await"

\* test_session.cpp:533: an error that was dropped is reported by the
\* dropped_before of one that is still to be read, or was.  A connect may throw
\* away the one that would have told (session.cpp:281): the count goes on from
\* there, so the next error that makes another one drop tells of those as well, and
\* from then on until the next connect nothing that was dropped is untold.
LossesAreTold ==
  \/ told = dropped
  \/ \E i \in Errors(events) : events[i].lost = dropped
  \/ dropped = forgotten
  \/ closed

\* test_session.cpp:619: a measurement is written only under the lease it was
\* enqueued under: nothing enqueued before a revocation is written after it,
\* whatever was begun since.
RevokedIsNeverWritten ==
  [][\A e \in {held} : Delivers(e) /\ IsMeasurement(e) => e.body > cut]_vars
=============================================================================

---------------------------- MODULE SensorClient ----------------------------
(***************************************************************************)
(* Client::Impl of core/netft/src/detail/client_impl.cpp: callers of start, *)
(* stop and bias, the worker thread with its callback, and a sensor at the  *)
(* other end of UDP.  A caller's step is what it does under lifecycle_mutex_ *)
(* up to a wait, a join or another mutex; a section of command_mutex_ or of *)
(* record_mutex_, and an access to an atomic outside them, is a step each.  *)
(* Clocks, counters, messages and the rate limit are left out.              *)
(***************************************************************************)
EXTENDS SequenceTracker, Sequences, SequencesExt

CONSTANTS Callers,  \* threads that use the client
          Plays     \* the plays of a run

\* callers   the threads that call: "worker" for the callback
\* uses      the calls they make
\* policy    config_.recovery_policy
\* calls     bound: calls of start, stop and bias
\* records   bound: records the sensor sends
\* failures  bound: things that go wrong
\* firstFt   the sensor's sample counter when the client first hears of it
ASSUME ClientConstants ==
  \A p \in Plays : p.callers \subseteq Callers \cup {"worker"} /\ p.firstFt \in Nat
    /\ p.policy \in {"Reconnect", "FailStop"}
    /\ {p.calls, p.records, p.failures} \subseteq Nat

VARIABLES
  play,       \* the play of this behaviour
  lifecycle,  \* lifecycle_mutex_: "free", or who keeps it across steps
  pc,         \* the next step of every thread's call of the client
  joining,    \* joining_
  handle,     \* worker_.joinable()
  stopping,   \* stopping_
  exited,     \* worker_exited_
  faulted,    \* fault_latch_
  state,      \* health_.state
  wpc,        \* worker: next step
  result,     \* worker: what its session ended with, "" while it goes on
  started,    \* session_started_
  socket,     \* transport_: "none", "open" or "shut"
  record,     \* worker: the record it is handling
  rdt, ft,    \* rdt_sequence_, ft_sequence_
  sensor,     \* streaming, the stream and its last record, the boot, its counter
  flight,     \* records on their way, oldest first
  told,       \* history: the last command to start or stop the stream
  observed,   \* history: the newest of every stream since the RDT tracker was reset
  taken,      \* history: the last record the FT tracker took
  quiet,      \* history: stop has returned, and no start has been accepted since
  calls, records, failures

lifecycleVars == <<lifecycle, joining, handle, stopping, exited, faulted, state, quiet>>
tracking      == <<rdt, ft, observed, taken>>
link          == <<started, socket, told, sensor, flight>>
worker        == <<wpc, result, record>>
bounds        == <<calls, records, failures>>
vars == <<lifecycleVars, pc, tracking, link, worker, bounds>>

Threads == Callers \cup {"worker"}
MaxFlight == 2  \* bound: records on their way

Init ==
  /\ play \in Plays
  /\ lifecycle = "free" /\ pc = [t \in Threads |-> "idle"]
  /\ joining = FALSE /\ handle = FALSE /\ stopping = FALSE /\ exited = TRUE
  /\ faulted = FALSE /\ state = "Stopped"
  /\ wpc = "off" /\ result = "" /\ record = <<>>
  /\ started = FALSE /\ socket = "none"
  /\ rdt = NoTracker /\ ft = NoTracker
  /\ sensor = [streaming |-> FALSE, stream |-> 0, n |-> 0, boot |-> 1,
               ft |-> play.firstFt]
  /\ flight = <<>> /\ told = "stop" /\ observed = {}
  /\ taken = [boot |-> 0, ft |-> 0] /\ quiet = FALSE
  /\ calls = 0 /\ records = 0 /\ failures = 0

Fail == failures < play.failures /\ failures' = failures + 1
Well == UNCHANGED failures

\* notify_all on lifecycle_cv_ wakes whoever sleeps there.
Wake(f) == [t \in Threads |-> IF f[t] = "asleep" THEN "woken" ELSE f[t]]
-----------------------------------------------------------------------------
(* The sensor and the network *)

Streams == [sensor EXCEPT !.streaming = TRUE, !.stream = @ + 1, !.n = 0]
Halts   == [sensor EXCEPT !.streaming = FALSE]

\* A command that is sent reaches the sensor or is lost.
Tell(after) == \/ sensor' = after /\ Well
               \/ sensor' = sensor /\ Fail

\* Fewer than half the numbers are lost in a row or overtaken.
Near(n, others) == \A k \in others : 2 * (n - k) < Modulus

\* The records that have not been handled.
Coming == Range(flight) \cup (IF wpc = "record" THEN {record} ELSE {})

\* bound: how far record and sample counter go from one record to the next
Strides == {<<1, 1>>, <<3, 3>>, <<1, 0>>}

Emit ==
  /\ sensor.streaming /\ socket = "open"
  /\ records < play.records /\ records' = records + 1
  /\ Len(flight) < MaxFlight
  /\ \E d \in Strides :
       LET r == [stream |-> sensor.stream, n |-> sensor.n + d[1],
                 boot |-> sensor.boot, ft |-> sensor.ft + d[2]]
       IN /\ Near(r.n, {o.n : o \in {x \in observed \cup Coming : x.stream = r.stream}})
          /\ Near(r.ft, {o.ft : o \in {x \in {taken} \cup Coming : x.boot = r.boot}})
          /\ flight' = Append(flight, r)
          /\ sensor' = [sensor EXCEPT !.n = r.n, !.ft = r.ft]
  /\ UNCHANGED <<lifecycleVars, pc, tracking, started, socket, told, worker, calls, failures>>

\* A record is lost, overtakes another or comes twice; the sensor restarts.
Disturb ==
  /\ Fail
  /\ \/ flight # <<>> /\ flight' = Tail(flight) /\ UNCHANGED sensor
     \/ Len(flight) = 2 /\ flight' = Reverse(flight) /\ UNCHANGED sensor
     \/ Len(flight) = 1 /\ flight' = flight \o flight /\ UNCHANGED sensor
     \/ sensor' = [Halts EXCEPT !.boot = @ + 1, !.ft = 0] /\ UNCHANGED flight
  /\ UNCHANGED <<lifecycleVars, pc, tracking, started, socket, told, worker, calls, records>>
-----------------------------------------------------------------------------
(* Callers *)

Free == lifecycle = "free"
Goes(t, step) == pc' = [pc EXCEPT ![t] = step]

CallStart(t) == /\ pc[t] = "idle" /\ t \in play.callers \cap Callers
                /\ "start" \in play.uses /\ calls < play.calls /\ calls' = calls + 1
                /\ Goes(t, "start")
                /\ UNCHANGED <<lifecycleVars, tracking, link, worker, records, failures>>

CallStop(t) == /\ pc[t] = "idle" /\ t \in play.callers /\ "stop" \in play.uses
               /\ (t = "worker" => wpc = "callback")
               /\ calls < play.calls /\ calls' = calls + 1
               /\ Goes(t, "stop")
               /\ UNCHANGED <<lifecycleVars, tracking, link, worker, records, failures>>

\* There is no thread to join: create one, or throw with everything as before.
Create(t) ==
  /\ pc[t] = "start" /\ Free /\ ~joining /\ ~handle
  /\ \/ /\ Well
        /\ pc' = [Wake(pc) EXCEPT ![t] = "idle"]
        /\ handle' = TRUE /\ stopping' = FALSE /\ exited' = FALSE
        /\ faulted' = FALSE /\ state' = "Connecting" /\ quiet' = FALSE
        /\ wpc' = "loop" /\ result' = ""
     \/ /\ Fail
        /\ pc' = [Wake(pc) EXCEPT ![t] = "idle"]
        /\ UNCHANGED <<handle, stopping, exited, faulted, state, quiet, wpc, result>>
  /\ UNCHANGED <<lifecycle, joining, tracking, link, record, calls, records>>

\* A worker that has not exited: the call throws, or waits for the end of a
\* faulted one.  The predicate is read before the wait releases the mutex.
Busy(t) ==
  /\ pc[t] = "start" /\ Free /\ ~joining /\ handle /\ ~exited
  /\ IF faulted THEN Goes(t, "drowsy") /\ lifecycle' = t
                ELSE Goes(t, "idle") /\ UNCHANGED lifecycle
  /\ UNCHANGED <<joining, handle, stopping, exited, faulted, state, quiet,
                 tracking, link, worker, bounds>>

Sleep(t) == /\ pc[t] = "drowsy" /\ Goes(t, "asleep") /\ lifecycle' = "free"
            /\ UNCHANGED <<joining, handle, stopping, exited, faulted, state, quiet,
                           tracking, link, worker, bounds>>

Woken(t) ==
  /\ pc[t] = "woken" /\ Free
  /\ IF exited \/ ~faulted THEN Goes(t, "start") /\ UNCHANGED lifecycle
                           ELSE Goes(t, "drowsy") /\ lifecycle' = t
  /\ UNCHANGED <<joining, handle, stopping, exited, faulted, state, quiet,
                 tracking, link, worker, bounds>>

\* The thread has left its loop: start joins it and begins again.
Reap(t) == /\ pc[t] = "start" /\ Free /\ ~joining /\ handle /\ exited
           /\ Goes(t, "reap") /\ joining' = TRUE /\ handle' = FALSE
           /\ UNCHANGED <<lifecycle, stopping, exited, faulted, state, quiet,
                          tracking, link, worker, bounds>>

Reaped(t) == /\ pc[t] = "reap" /\ wpc = "ended" /\ Free
             /\ pc' = [Wake(pc) EXCEPT ![t] = "start"]
             /\ joining' = FALSE
             /\ UNCHANGED <<lifecycle, handle, stopping, exited, faulted, state, quiet,
                            tracking, link, worker, bounds>>

Stop(t) == /\ pc[t] = "stop" /\ Free /\ lifecycle' = t
           /\ stopping' = TRUE
           /\ pc' = [Wake(pc) EXCEPT ![t] = "silence"]
           /\ UNCHANGED <<joining, handle, exited, faulted, state, quiet,
                          tracking, link, worker, bounds>>

\* The section of command_mutex_: the sensor is told once, the receiver woken.
Silence(t) ==
  /\ pc[t] = "silence" /\ Goes(t, "decide")
  /\ IF started THEN told' = "stop" /\ Tell(Halts) ELSE UNCHANGED <<told, sensor, failures>>
  /\ started' = FALSE
  /\ socket' = IF socket = "open" THEN "shut" ELSE socket
  /\ UNCHANGED <<lifecycleVars, tracking, flight, worker, calls, records>>

Settled == state' = IF faulted THEN state ELSE "Stopped"

\* What stop does next, with lifecycle_mutex_ released: it returns, waits for whoever
\* is joining, or joins.
Returns(t, final) == /\ Goes(t, "idle") /\ quiet' = (quiet \/ final)
                     /\ UNCHANGED <<joining, handle>>
Waits(t) == joining /\ Goes(t, "await") /\ UNCHANGED <<joining, handle, state, quiet>>
Finds(t) == ~joining /\ ~handle /\ Returns(t, TRUE) /\ Settled
Joins(t) == /\ ~joining /\ handle /\ Goes(t, "join")
            /\ joining' = TRUE /\ handle' = FALSE /\ UNCHANGED <<state, quiet>>
StopRest == <<stopping, exited, faulted, tracking, link, worker, bounds>>

\* Mutant: a stop that finds another one joining returns at once.
Decide_hasty(t) ==
  /\ pc[t] = "decide" /\ lifecycle' = "free"
  /\ IF t = "worker" \/ joining THEN Returns(t, t # "worker") /\ UNCHANGED state
                                ELSE Finds(t) \/ Joins(t)
  /\ UNCHANGED StopRest

\* Mutant: a stop in the callback waits and joins like any other.
Decide_self(t) ==
  /\ pc[t] = "decide" /\ lifecycle' = "free"
  /\ Waits(t) \/ Finds(t) \/ Joins(t)
  /\ UNCHANGED StopRest

\* In the callback stop returns, and leaves the rest to the worker's end.
Decide(t) ==
  /\ pc[t] = "decide" /\ lifecycle' = "free"
  /\ IF t = "worker" THEN Returns(t, FALSE) /\ UNCHANGED state
                      ELSE Waits(t) \/ Finds(t) \/ Joins(t)
  /\ UNCHANGED StopRest

Await(t) == /\ pc[t] = "await" /\ Free /\ ~joining /\ Goes(t, "stop")
            /\ UNCHANGED <<lifecycleVars, tracking, link, worker, bounds>>

Joined(t) == /\ pc[t] = "join" /\ wpc = "ended" /\ Free
             /\ pc' = [Wake(pc) EXCEPT ![t] = "idle"]
             /\ Settled /\ joining' = FALSE /\ quiet' = TRUE
             /\ UNCHANGED <<lifecycle, handle, stopping, exited, faulted,
                            tracking, link, worker, bounds>>

\* bias while streaming: both commands under the three data mutexes.  Of the two
\* the first fails, the second does, or the tracker starts anew.
Bias(t) ==
  /\ t \in play.callers \cap Callers /\ pc[t] = "idle" /\ "bias" \in play.uses
  /\ calls < play.calls /\ calls' = calls + 1
  /\ ~stopping /\ started /\ ~faulted /\ state = "Streaming"
  /\ \/ Fail /\ sensor' \in {sensor, Halts} /\ UNCHANGED <<told, rdt, observed>>
     \/ Tell(Streams) /\ told' = "start" /\ rdt' = NoTracker /\ observed' = {}
     \/ Fail /\ sensor' = Halts /\ told' = "start" /\ rdt' = NoTracker /\ observed' = {}
  /\ UNCHANGED <<lifecycleVars, pc, ft, taken, started, socket, flight, worker, records>>

CallerStep(t) ==
  Create(t) \/ Busy(t) \/ Sleep(t) \/ Woken(t) \/ Reap(t) \/ Reaped(t) \/ Stop(t)
    \/ Silence(t) \/ Decide(t) \/ Await(t) \/ Joined(t)
-----------------------------------------------------------------------------
(* The worker: run, receive_session, handle_record and finish_session *)

To(from, step) == wpc = from /\ wpc' = step
EndsWith(r)    == wpc' = "close" /\ result' = r
Kept == <<lifecycle, joining, handle, stopping, quiet, calls, records>>
Rest == <<Kept, pc, exited, faulted>>

Loop == /\ To("loop", IF stopping \/ faulted THEN "finish" ELSE "begin")
        /\ result' = ""
        /\ UNCHANGED <<Rest, state, link, tracking, record, failures>>

Begin == /\ To("begin", "discover") /\ state' = "Connecting"
         /\ UNCHANGED <<Rest, link, tracking, result, record, failures>>

\* Discovery fails, or throws what only run catches.
Discover ==
  /\ wpc = "discover"
  /\ \/ stopping /\ EndsWith("Stopped") /\ Well /\ UNCHANGED <<pc, faulted, state>>
     \/ ~stopping /\ wpc' = "connect" /\ Well /\ UNCHANGED <<pc, faulted, state, result>>
     \/ ~stopping /\ EndsWith("SensorConfiguration") /\ Fail
        /\ UNCHANGED <<pc, faulted, state>>
     \/ /\ ~stopping /\ wpc' = "finish" /\ Fail
        /\ faulted' = TRUE /\ state' = "Faulted" /\ pc' = Wake(pc) /\ UNCHANGED result
  /\ UNCHANGED <<Kept, exited, link, tracking, record>>

Connect ==
  /\ wpc = "connect"
  /\ \/ stopping /\ EndsWith("Stopped") /\ Well /\ UNCHANGED socket
     \/ ~stopping /\ EndsWith("Socket") /\ Fail /\ UNCHANGED socket
     \/ ~stopping /\ wpc' = "open" /\ socket' = "open" /\ Well /\ UNCHANGED result
  /\ UNCHANGED <<Rest, state, started, told, sensor, flight, tracking, record>>

\* The section of command_mutex_ looks at stopping_ once more.
Open ==
  /\ wpc = "open"
  /\ \/ /\ stopping /\ EndsWith("Stopped") /\ UNCHANGED <<told, started, sensor, failures>>
     \/ /\ ~stopping /\ EndsWith("Socket") /\ Fail /\ UNCHANGED <<told, started, sensor>>
     \/ /\ ~stopping /\ wpc' = "reset" /\ told' = "start" /\ started' = TRUE
        /\ Tell(Streams) /\ UNCHANGED result
  /\ UNCHANGED <<Rest, state, socket, flight, tracking, record>>

ResetTrackers ==
  /\ To("reset", "receive")
  /\ rdt' = NoTracker /\ ft' = [ft EXCEPT !.candidate = -1] /\ observed' = {}
  /\ UNCHANGED <<Rest, state, link, taken, result, record, failures>>

\* A shut socket ends the wait; a silent sensor, an error of the socket and a
\* storm of malformed packets end the session.
Receive ==
  /\ wpc = "receive"
  /\ \/ stopping /\ EndsWith("Stopped") /\ Well /\ UNCHANGED <<record, flight>>
     \/ /\ ~stopping /\ flight # <<>> /\ wpc' = "record" /\ record' = Head(flight)
        /\ flight' = Tail(flight) /\ Well /\ UNCHANGED result
     \/ ~stopping /\ EndsWith("Timeout") /\ Fail /\ UNCHANGED <<record, flight>>
  /\ UNCHANGED <<Rest, state, started, socket, told, sensor, tracking>>

Newest(r) == \A o \in observed : o.stream = r.stream => o.n < r.n

Discontinuous == FtKind(ft, record.ft) \in {"Stall", "Backward"}

\* handle_record up to the callback: what is delivered, and whether the session
\* ends.  The status of the record may be serious, or its values not finite.
HandleRecord ==
  /\ wpc = "record"
  /\ state' = "Streaming"
  /\ rdt' = RdtObserve(rdt, record.n) /\ ft' = FtObserve(ft, record.ft)
  /\ observed' = IF Newest(record)
                  THEN {o \in observed : o.stream # record.stream}
                         \cup {[stream |-> record.stream, n |-> record.n]}
                  ELSE observed
  /\ taken' = IF Discontinuous THEN taken ELSE [boot |-> record.boot, ft |-> record.ft]
  /\ LET fresh == RdtTakes(rdt, record.n) /\ ~Discontinuous
     IN \/ /\ Well
           /\ result' = IF Discontinuous /\ play.policy = "FailStop" THEN "Ft" ELSE ""
           /\ wpc' = IF fresh THEN "callback" ELSE IF result' = "" THEN "receive" ELSE "close"
        \/ /\ Fail /\ result' = "SeriousStatus"
           /\ wpc' \in (IF fresh THEN {"callback", "close"} ELSE {"close"})
  /\ UNCHANGED <<Rest, link, record>>

\* The callback returns or throws, with no lock held; it may have called stop.
Callback ==
  /\ wpc = "callback" /\ pc["worker"] = "idle"
  /\ \/ result' = result /\ Well /\ pc' = Wake(pc)
     \/ /\ Fail /\ UNCHANGED pc
        /\ result' = IF result = "" /\ play.policy = "FailStop" THEN "Callback" ELSE result
  /\ wpc' = IF result' = "" THEN "receive" ELSE "close"
  /\ UNCHANGED <<Kept, exited, faulted, state, link, tracking, record>>

\* close_session, at the end of a session and once more when the worker leaves.
Close ==
  /\ To("close", "outcome") \/ To("finish", "exit")
  /\ IF started THEN told' = "stop" /\ Tell(Halts) ELSE UNCHANGED <<told, sensor, failures>>
  /\ started' = FALSE /\ socket' = "none" /\ flight' = <<>>
  /\ UNCHANGED <<Rest, state, tracking, result, record>>

Outcome ==
  /\ wpc = "outcome"
  /\ IF result # "Stopped" /\ play.policy = "FailStop"
     THEN /\ wpc' = "finish" /\ faulted' = TRUE /\ state' = "Faulted" /\ pc' = Wake(pc)
     ELSE /\ UNCHANGED <<faulted, pc>>
          /\ IF result = "Stopped" \/ stopping
             THEN wpc' = "finish" /\ UNCHANGED state
             ELSE wpc' = "backoff" /\ state' = "Backoff"
  /\ UNCHANGED <<Kept, exited, link, tracking, result, record, failures>>

Backoff == To("backoff", "loop") /\ UNCHANGED <<Rest, state, link, tracking, result, record, failures>>

Exit == /\ To("exit", "settle") /\ exited' = TRUE
        /\ UNCHANGED <<Kept, pc, faulted, state, link, tracking, result, record, failures>>

Settle == /\ To("settle", "notify") /\ Settled
          /\ UNCHANGED <<Rest, link, tracking, result, record, failures>>

Notify == /\ To("notify", "ended") /\ pc' = Wake(pc)
          /\ UNCHANGED <<Kept, exited, faulted, state, link, tracking, result, record, failures>>

SessionStep == Begin \/ Discover \/ Connect \/ Open \/ ResetTrackers \/ Receive
                 \/ HandleRecord \/ Callback
WorkerStep  == Loop \/ SessionStep \/ Close \/ Outcome \/ Backoff \/ Exit \/ Settle \/ Notify
-----------------------------------------------------------------------------
Call(t) == CallStart(t) \/ CallStop(t) \/ Bias(t)

Next == /\ \/ Emit \/ Disturb \/ WorkerStep
           \/ \E t \in Threads : Call(t) \/ CallerStep(t)
        /\ UNCHANGED play

Spec == Init /\ [][Next]_<<play, vars>>

\* The threads do not all stand still while one of them can go on.  With a bounded
\* number of calls, records and failures that is all CallsReturn needs.
ThreadStep == (WorkerStep \/ \E t \in Threads : CallerStep(t)) /\ UNCHANGED play

FairSpec == Spec /\ WF_vars(ThreadStep)
-----------------------------------------------------------------------------
\* Whoever returns from stop, and however many were at it, no worker is left that
\* could call back, nothing of the connection is open, the health says so until the
\* next start; and a sensor told to stream is told to stop (client_impl.cpp:235-289).
StopIsFinal ==
  /\ ~started => told = "stop"
  /\ quiet => /\ wpc \in {"off", "ended"} /\ ~handle /\ ~joining
              /\ state = IF faulted THEN "Faulted" ELSE "Stopped"
              /\ ~started /\ socket = "none"

OneStream(r)  == \A o \in observed : o.stream = r.stream
Progresses(r) == taken.boot = r.boot /\ taken.ft < r.ft
Shown         == wpc' = "callback" \/ result' # ""

\* Of the boot the sensor is in: two late records of the boot before may be taken for
\* a restart of their own.
IsLate(r) == taken.boot = r.boot /\ r.boot = sensor.boot /\ r.ft <= taken.ft

\* Across wraps, gaps, reordering, duplicates and restarts: a sample that reaches the
\* callback is newer than what was seen of its stream, and of its boot; and the newest
\* record of a healthy sensor does reach it, or the session ends (sequence.cpp:13, 35).
SamplesAreInOrder ==
  [][wpc = "record" /\ wpc' # "record" /\ OneStream(record) =>
       /\ wpc' = "callback" => Newest(record) /\ ~IsLate(record)
       /\ Newest(record) /\ Progresses(record) => Shown]_vars

\* Every call returns, the callback's own stop too, however start, stop and the end
\* of the worker meet; only a start behind a fault may be asleep (client_impl.cpp:123).
CallsReturn == \A t \in Threads : pc[t] # "idle" ~> pc[t] \in {"idle", "asleep"}

\* companion_process_test.py:486 after bias: the next records are shown.
BiasStreamIsShown ==
  [][wpc = "record" /\ wpc' # "record" /\ Newest(record) /\ Progresses(record)
       => Shown]_vars
=============================================================================

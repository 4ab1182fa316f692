------------------------------- MODULE Session -------------------------------
(***************************************************************************)
(* ViewerSession of core/viewer/src/session.cpp and the threads that meet  *)
(* in it:                                                                  *)
(*                                                                         *)
(*   controller  whoever holds operation_mutex_: connect, disconnect,      *)
(*               set_paused, bias, start_recording, stop_recording         *)
(*   receiver    the SDK client's thread, which calls sample_received      *)
(*   poller      health_loop                                               *)
(*   consumer    OutputWriter, which drains the sink (EventSink)           *)
(*   recorder    its writer thread, as far as the recorder's status shows  *)
(*               it (RecorderStatus)                                       *)
(*                                                                         *)
(* A critical section of state_mutex_, a call of the sink, of the recorder *)
(* or of the client and an access to an atomic are a step each.  Messages, *)
(* clocks, rates and the contents of health snapshots are abstracted; a    *)
(* configuration is its revision, 0 for none.                              *)
(***************************************************************************)
EXTENDS EventSink, RecorderStatus

CONSTANT Plays  \* the plays of a run, each with its bounds and what it looks at

\* operations   the operations that are called
\* ops          bound: calls of them
\* generations  bound: successful calls of connect
\* revisions    bound: revisions of the sensor's configuration
\* observed     the kinds of events followed through the sink
\* followed     the kinds whose last push is remembered
ASSUME SessionConstants ==
  \A p \in Plays : p.ops \in Nat /\ p.generations \in Nat /\ p.revisions \in Nat

VARIABLES
  play,        \* the play of this behaviour
  conn,        \* connection_: state, paused, generation (= active_generation_)
  accepting,   \* accepting_samples_
  callback,    \* active_callbacks_ (one receiver: never more than one)
  streamed,    \* has_streamed_
  config,      \* configuration_: its revision
  published,   \* published_configuration_revision_
  lock,        \* state_mutex_, while it is held across several steps
  pub,         \* next step of publish_configuration_locked
  reported,    \* recording_failure_reported_
  plot,        \* plot_: run and revision of the samples in the open interval
  client,      \* client_'s health: state and configuration revision
  stopping,    \* the client's stopping_
  rpc, rgen,   \* receiver: step, and the generation its callback captured
  timed,       \* receiver: the sample, as its run and revision
  need,        \* receiver: configuration_required
  failed,      \* receiver: submit returned Overflow or Failed
  batch,       \* receiver: plot_batch
  rbody,       \* receiver: the snapshot it is about to push
  hpc, hgen,   \* poller: step, and the generation it was started for
  hcopy,       \* poller: the client's health it has copied
  fresh,       \* poller: sample_revision_ = revision_before
  hbody,       \* poller: the snapshot it is about to push
  stopHealth,  \* stop_health_
  cpc, op,     \* controller: step, and the operation it is in
  bad,         \* controller: the recorder refused or failed
  todo, copy,  \* controller: what it still has to publish, and the next of it
  ops,         \* history: how many operations have been called
  run,         \* history: how often samples have begun to be accepted
  latest,      \* history: the last connection and recording snapshot pushed
  shown        \* history: the newest configuration written: generation, revision

shared     == <<conn, accepting, callback, streamed, config, published>>
mutex      == <<lock, pub>>
sdk        == <<client, stopping>>
sampling   == <<timed, need, failed, batch, rbody>>
receiver   == <<rpc, rgen, sampling>>
poller     == <<hpc, hgen, hcopy, fresh, hbody, stopHealth>>
publishing == <<todo, copy>>
controller == <<cpc, op, bad, publishing, ops>>
history    == <<run, latest, shown>>

vars == <<sink, status, shared, mutex, reported, plot, sdk, receiver, poller,
          controller, history>>

ConnectionStates == {"Disconnected", "Connecting", "Streaming", "Reconnecting",
                     "Disconnecting", "Error"}
ClientStates == {"None", "Stopped", "Connecting", "Streaming", "Backoff",
                 "Faulted"}

\* The payloads of events, as far as the properties look at them.
Blank == [state |-> "none", paused |-> FALSE, run |-> 0, rev |-> 0]
ConnectionBody(c)    == [Blank EXCEPT !.state = c.state, !.paused = c.paused]
RecordingBody(r)     == [Blank EXCEPT !.state = r]
ConfigurationBody(r) == [Blank EXCEPT !.rev = r]
ErrorBody(about)     == [Blank EXCEPT !.state = about]

NoPlot   == [run |-> 0, rev |-> 0]
NoClient == [state |-> "None", rev |-> 0]
Unlocked == lock = "free"

\* No operation is running, and everything the last one had to say is said.
IdleNow == cpc = "idle" /\ todo = <<>>

Init ==
  /\ play \in Plays
  /\ SinkInit /\ StatusInit
  /\ conn = [state |-> "Disconnected", paused |-> FALSE, gen |-> 0]
  /\ accepting = FALSE /\ callback = FALSE /\ streamed = FALSE
  /\ config = 0 /\ published = 0
  /\ lock = "free" /\ pub = "none"
  /\ reported = FALSE
  /\ plot = NoPlot
  /\ client = NoClient /\ stopping = FALSE
  /\ rpc = "off" /\ rgen = 0
  /\ timed = NoPlot /\ need = FALSE /\ failed = FALSE /\ batch = NoPlot
  /\ rbody = Blank
  /\ hpc = "off" /\ hgen = 0 /\ hcopy = NoClient /\ fresh = FALSE
  /\ hbody = Blank /\ stopHealth = TRUE
  /\ cpc = "idle" /\ op = "none" /\ bad = FALSE
  /\ todo = <<>> /\ copy = NoEvent /\ ops = 0
  /\ run = 0 /\ shown = <<0, 0>>
  /\ latest = [connection |-> Blank, recording |-> Blank]
-----------------------------------------------------------------------------
(* EventPublisher *)

\* push drops what is not of the active generation.
Publish(kind, gen, body) ==
  /\ IF gen = conn.gen /\ kind \in play.observed
     THEN Enqueue(Event(kind, gen, body)) ELSE UNCHANGED queued
  /\ IF gen = conn.gen /\ kind \in play.followed
     THEN latest' = [latest EXCEPT ![kind] = body] ELSE UNCHANGED latest

\* Mutant: the configuration is published beside what was measured under the old.
PublishConfiguration_beside == "push"

\* publish_configuration_locked, once per step; whoever holds the lock runs it.
PublishConfiguration == IF published # 0 THEN "revoke" ELSE "push"

PubRevoke == /\ pub = "revoke" /\ pub' = "purge"
             /\ Revoke
             /\ UNCHANGED <<queued, ended, held, shared, latest>>

PubPurge == /\ pub = "purge" /\ pub' = "begin"
            /\ Purge(conn.gen)
            /\ UNCHANGED <<lease, ended, held, shared, latest>>

PubBegin == /\ pub = "begin"
            /\ \/ Begin /\ pub' = "push"
               \/ BeginFails /\ pub' = "done"
            /\ UNCHANGED <<queued, ended, held, shared, latest>>

PubPush == /\ pub = "push" /\ pub' = "done"
           /\ published' = config
           /\ Publish("configuration", conn.gen, ConfigurationBody(config))
           /\ UNCHANGED <<lease, ended, held, conn, accepting, callback,
                          streamed, config>>

ConfigurationStep ==
  /\ PubRevoke \/ PubPurge \/ PubBegin \/ PubPush
  /\ UNCHANGED <<status, lock, reported, plot, sdk, receiver, poller,
                 controller, run, shown>>
-----------------------------------------------------------------------------
(* The receiver: Client::Impl::run and receive_session *)

ReceiverVars == <<sink, status, shared, mutex, reported, plot, rgen, sampling,
                  poller, controller, history, stopping>>

SessionBegins ==
  /\ rpc = "session"
  /\ IF stopping
     THEN rpc' = "exit" /\ UNCHANGED client
     ELSE rpc' = "discover" /\ client' = [client EXCEPT !.state = "Connecting"]
  /\ UNCHANGED ReceiverVars

\* What ends a session, or every session, leaves its message in last_error.
Ends(state) == client' = [client EXCEPT !.state = state]

\* discover_sensor and connect: the configuration keeps its revision or has the
\* next one, or there is no session this time, or never again.
Discover ==
  /\ rpc = "discover"
  /\ \/ \E r \in {client.rev, client.rev + 1} :
          /\ r \in 1..play.revisions
          /\ rpc' = "stream" /\ client' = [client EXCEPT !.rev = r]
     \/ ~stopping /\ rpc' = "session" /\ Ends("Backoff")
     \/ ~stopping /\ rpc' = "exit" /\ Ends("Faulted")
     \/ stopping /\ rpc' = "exit" /\ UNCHANGED client
  /\ UNCHANGED ReceiverVars

\* A record, delivered unless it is a duplicate, out of order or limited; a
\* timeout or a socket error; stop.
Receive ==
  /\ rpc = "stream"
  /\ \/ /\ ~stopping
        /\ client' = [client EXCEPT !.state = "Streaming"]
        /\ rpc' \in {"enter", "stream"}
     \/ ~stopping /\ rpc' = "session" /\ Ends("Backoff")
     \/ stopping /\ rpc' = "exit" /\ UNCHANGED client
  /\ UNCHANGED ReceiverVars

FinishSession ==
  /\ rpc = "exit" /\ rpc' = "off"
  /\ client' = IF client.state = "Faulted" THEN client
               ELSE [client EXCEPT !.state = "Stopped"]
  /\ UNCHANGED ReceiverVars

ClientStep == SessionBegins \/ Discover \/ Receive \/ FinishSession
-----------------------------------------------------------------------------
(* The receiver inside sample_received *)

SampleEnter ==
  /\ rpc = "enter" /\ Unlocked
  /\ IF rgen = conn.gen /\ accepting
     THEN /\ callback' = TRUE /\ fresh' = FALSE
          /\ need' = (published # client.rev)
          /\ timed' = [run |-> run, rev |-> client.rev]
          /\ rpc' = "submit"
     ELSE /\ rpc' = "stream"
          /\ UNCHANGED <<callback, fresh, need, timed>>
  /\ UNCHANGED <<sink, status, conn, accepting, streamed, config, published,
                 mutex, reported, plot, sdk, rgen, failed, batch, rbody, hpc,
                 hgen, hcopy, hbody, stopHealth, controller, history>>

\* client_->health and recorder_->submit.  A submit may itself find the queue full.
SampleSubmit ==
  /\ rpc = "submit" /\ rpc' = "plot"
  /\ \/ failed' \in {FALSE, recording = "Error"} /\ UNCHANGED status
     \/ Fails /\ failed' = TRUE
  /\ UNCHANGED <<sink, shared, mutex, reported, plot, sdk, rgen, timed, need,
                 batch, rbody, poller, controller, run, latest, shown>>

\* PlotAggregator::push: seeds an interval, adds to it or closes it.
SamplePlot ==
  /\ rpc = "plot" /\ rpc' = "apply"
  /\ \/ plot.rev # timed.rev /\ plot' = timed /\ batch' = NoPlot
     \/ plot.rev = timed.rev /\ plot' = plot /\ batch' = NoPlot
     \/ plot.rev = timed.rev /\ plot' = timed /\ batch' = plot
  /\ UNCHANGED <<sink, status, shared, mutex, reported, sdk, rgen, timed, need,
                 failed, rbody, poller, controller, history>>

SampleApply ==
  /\ rpc = "apply" /\ Unlocked
  /\ IF rgen = conn.gen /\ accepting
     THEN /\ config' = IF need THEN timed.rev ELSE config
          /\ pub' = IF config' = timed.rev /\ published # timed.rev
                    THEN PublishConfiguration ELSE "done"
          /\ lock' = "receiver" /\ rpc' = "applied"
     ELSE rpc' = "sample" /\ UNCHANGED <<config, mutex>>
  /\ need' = FALSE
  /\ UNCHANGED <<sink, status, conn, accepting, callback, streamed, published,
                 reported, plot, sdk, rgen, timed, failed, batch, rbody, poller,
                 controller, history>>

SampleApplied ==
  /\ rpc = "applied" /\ lock = "receiver" /\ pub = "done"
  /\ lock' = "free" /\ pub' = "none"
  /\ streamed' = TRUE
  /\ conn' = [conn EXCEPT !.state = "Streaming"]
  /\ rpc' = IF conn.state = "Streaming" THEN "sample" ELSE "changed"
  /\ UNCHANGED <<sink, status, accepting, callback, config, published, reported,
                 plot, sdk, rgen, sampling, poller, controller, history>>

\* connection_copy and the push after it are two steps; so are publish_recording's.
SampleCopies(at, then, body) ==
  /\ rpc = at /\ rpc' = then /\ rbody' = body
  /\ UNCHANGED <<sink, status, shared, mutex, reported, plot, sdk, rgen, timed,
                 need, failed, batch, poller, controller, history>>

SamplePushes(at, then, kind, body) ==
  /\ rpc = at /\ rpc' = then /\ rbody' = Blank
  /\ Publish(kind, rgen, body)
  /\ UNCHANGED <<lease, ended, held, status, shared, mutex, reported, plot, sdk,
                 rgen, timed, need, failed, batch, poller, controller, run,
                 shown>>

MeasurementBody(m) == [Blank EXCEPT !.run = m.run, !.rev = m.rev]

SampleReport ==
  /\ rpc = "report"
  /\ rpc' = IF failed /\ ~reported THEN "failure" ELSE "leave"
  /\ reported' = (reported \/ failed)
  /\ UNCHANGED <<sink, status, shared, mutex, plot, sdk, rgen, sampling, poller,
                 controller, history>>

\* Mutant: active_callbacks_ is not decremented.
SampleLeave_counted ==
  /\ rpc = "leave" /\ Unlocked /\ rpc' = "stream"
  /\ UNCHANGED callback
  /\ timed' = NoPlot /\ failed' = FALSE /\ batch' = NoPlot
  /\ UNCHANGED <<sink, status, conn, accepting, streamed, config, published,
                 mutex, reported, plot, sdk, rgen, need, rbody, poller,
                 controller, history>>

\* complete_callback
SampleLeave ==
  /\ rpc = "leave" /\ Unlocked /\ rpc' = "stream"
  /\ callback' = FALSE
  /\ timed' = NoPlot /\ failed' = FALSE /\ batch' = NoPlot
  /\ UNCHANGED <<sink, status, conn, accepting, streamed, config, published,
                 mutex, reported, plot, sdk, rgen, need, rbody, poller,
                 controller, history>>

CallbackStep ==
  \/ SampleEnter \/ SampleSubmit \/ SamplePlot \/ SampleApply \/ SampleApplied
  \/ Unlocked /\ SampleCopies("changed", "changedPush", ConnectionBody(conn))
  \/ SamplePushes("changedPush", "sample", "connection", rbody)
  \/ SamplePushes("sample", IF batch = NoPlot THEN "report" ELSE "batch",
                  "sample", MeasurementBody(timed))
  \/ SamplePushes("batch", "report", "plot", MeasurementBody(batch))
  \/ SampleReport
  \/ SampleCopies("failure", "failurePush", RecordingBody(recording))
  \/ SamplePushes("failurePush", "error", "recording", rbody)
  \/ SamplePushes("error", "leave", "error", ErrorBody("recorder"))
  \/ SampleLeave
-----------------------------------------------------------------------------
(* The poller: health_loop and publish_health *)

PollerVars == <<sink, status, shared, mutex, reported, plot, sdk, receiver,
                hgen, stopHealth, controller, history>>

PollLoad == /\ hpc = "load" /\ hpc' = "copy"
            /\ fresh' = TRUE
            /\ UNCHANGED <<PollerVars, hcopy, hbody>>

PollCopy == /\ hpc = "copy" /\ hpc' = "lock"
            /\ hcopy' = client
            /\ UNCHANGED <<PollerVars, fresh, hbody>>

PollLock ==
  /\ hpc = "lock" /\ Unlocked
  /\ IF hgen = conn.gen
     THEN /\ config' = IF hcopy.rev # 0 THEN hcopy.rev ELSE config
          /\ pub' = IF config' \notin {0, published}
                    THEN PublishConfiguration ELSE "done"
          /\ lock' = "poller" /\ hpc' = "locked"
     ELSE hpc' = "wait" /\ UNCHANGED <<config, mutex>>
  /\ UNCHANGED <<sink, status, conn, accepting, callback, streamed, published,
                 reported, plot, sdk, receiver, hgen, hcopy, fresh, hbody,
                 stopHealth, controller, history>>

\* connection_state_for
ConnectionStateFor(s) == CASE s \in {"None", "Stopped"} -> "Disconnected"
                           [] s = "Connecting" -> "Connecting"
                           [] s = "Streaming"  -> "Streaming"
                           [] s = "Backoff"    -> "Reconnecting"
                           [] s = "Faulted"    -> "Error"

\* The connection state a poll arrives at.
Polled ==
  LET mapped == ConnectionStateFor(hcopy.state)
  IN IF conn.state = "Disconnecting" THEN "Disconnecting"
     ELSE IF conn.state = "Streaming" /\ mapped # "Streaming" /\ ~fresh
     THEN "Streaming"
     ELSE IF streamed /\ mapped \in {"Connecting", "Reconnecting"}
     THEN "Reconnecting"
     ELSE IF mapped = "Disconnected" THEN "Error" ELSE mapped

\* A change of the error text, which is left open, also makes a poll publish the
\* connection.
PollApply ==
  /\ hpc = "locked" /\ lock = "poller" /\ pub = "done"
  /\ lock' = "free" /\ pub' = "none"
  /\ conn' = [conn EXCEPT !.state = Polled]
  /\ \/ hpc' = "conn" /\ hbody' = ConnectionBody(conn')
     \/ conn' = conn /\ hpc' = "health" /\ UNCHANGED hbody
  /\ fresh' = FALSE /\ hcopy' = NoClient
  /\ UNCHANGED <<sink, status, accepting, callback, streamed, config, published,
                 reported, plot, sdk, receiver, hgen, stopHealth, controller,
                 history>>

PollPushes(at, then, kind, body) ==
  /\ hpc = at /\ hpc' = then /\ hbody' = Blank
  /\ Publish(kind, hgen, body)
  /\ UNCHANGED <<lease, ended, held, status, shared, mutex, reported, plot, sdk,
                 receiver, hgen, hcopy, fresh, stopHealth, controller, run,
                 shown>>

\* Mutant: a recorder that has failed is taken for one at rest.
PollRecording_atRest ==
  /\ hpc = "recording"
  /\ IF recording \in {"Idle", "Error"}
     THEN hpc' = "check" /\ UNCHANGED hbody
     ELSE hpc' = "recordingPush" /\ hbody' = RecordingBody(recording)
  /\ UNCHANGED <<PollerVars, hcopy, fresh>>

\* publish_periodic_recording says nothing of an idle recorder.
PollRecording ==
  /\ hpc = "recording"
  /\ IF recording = "Idle"
     THEN hpc' = "check" /\ UNCHANGED hbody
     ELSE hpc' = "recordingPush" /\ hbody' = RecordingBody(recording)
  /\ UNCHANGED <<PollerVars, hcopy, fresh>>

PollCheck == /\ hpc = "check"
             /\ hpc' = IF recording = "Error" THEN "report" ELSE "wait"
             /\ UNCHANGED <<PollerVars, hcopy, fresh, hbody>>

PollReport ==
  /\ hpc = "report"
  /\ hpc' = IF reported THEN "wait" ELSE "error"
  /\ reported' = TRUE
  /\ UNCHANGED <<sink, status, shared, mutex, plot, sdk, receiver, hgen, hcopy,
                 fresh, hbody, stopHealth, controller, history>>

PollWait == /\ hpc = "wait"
            /\ hpc' = IF stopHealth THEN "off" ELSE "load"
            /\ UNCHANGED <<PollerVars, hcopy, fresh, hbody>>

PollStep ==
  \/ PollLoad \/ PollCopy \/ PollLock \/ PollApply
  \/ PollPushes("conn", "health", "connection", hbody)
  \/ PollPushes("health", "recording", "health", Blank)
  \/ PollRecording
  \/ PollPushes("recordingPush", "check", "recording", hbody)
  \/ PollCheck \/ PollReport
  \/ PollPushes("error", "wait", "error", ErrorBody("recorder"))
  \/ PollWait
-----------------------------------------------------------------------------
(* The controller: the operations, one at a time under operation_mutex_ *)

Call(name) == /\ IdleNow /\ name \in play.operations
              /\ ops < play.ops /\ ops' = ops + 1
              /\ op' = name

\* Only the controller's own step moves, and what it has still to publish.
ControlVars == <<sink, status, shared, mutex, reported, plot, sdk, receiver,
                 poller, copy, history>>
QuietVars == <<mutex, sdk, receiver, poller, copy, history>>
SinkVars  == <<ended, held, status, shared, reported, plot>>
SinkRest  == <<status, shared, reported, plot, QuietVars, op, bad, todo, ops>>

CallConnect ==
  /\ Call("connect") /\ Unlocked
  /\ conn.state = "Disconnected" /\ conn.gen < play.generations
  /\ conn' = [state |-> "Connecting", paused |-> FALSE, gen |-> conn.gen + 1]
  /\ config' = 0 /\ published' = 0
  /\ accepting' = TRUE /\ streamed' = FALSE
  /\ reported' = FALSE
  /\ run' = run + 1
  /\ cpc' = "retain"
  /\ UNCHANGED <<sink, status, callback, mutex, plot, sdk, receiver, poller, bad,
                 publishing, latest, shown>>

CallDisconnect ==
  /\ Call("disconnect") /\ Unlocked
  /\ conn.state # "Disconnected"
  /\ accepting' = FALSE
  /\ conn' = [conn EXCEPT !.state = "Disconnecting", !.paused = FALSE]
  /\ cpc' = "quiet"
  /\ UNCHANGED <<sink, status, callback, streamed, config, published, reported,
                 plot, QuietVars, bad, todo>>

CallPause ==
  /\ Call("pause") /\ Unlocked
  /\ conn.state = "Streaming" /\ ~conn.paused
  /\ accepting' = FALSE
  /\ cpc' = "quiet"
  /\ UNCHANGED <<sink, status, conn, callback, streamed, config, published,
                 reported, plot, QuietVars, bad, todo>>

CallResume ==
  /\ Call("resume") /\ Unlocked
  /\ conn.state = "Streaming" /\ conn.paused
  /\ cpc' = "begin"
  /\ UNCHANGED <<ControlVars, bad, todo>>

CallStartRecording ==
  /\ Call("start_recording") /\ Unlocked
  /\ conn.state = "Streaming" /\ ~conn.paused
  /\ cpc' = "start"
  /\ UNCHANGED <<ControlVars, bad, todo>>

CallStopRecording ==
  /\ Call("stop_recording")
  /\ cpc' = "stop"
  /\ UNCHANGED <<ControlVars, bad, todo>>

\* bias sends a command; if that fails an error is published.
CallBias ==
  /\ Call("bias") /\ Unlocked
  /\ conn.state = "Streaming" /\ ~conn.paused /\ client # NoClient
  /\ todo' \in {<<>>, <<"trouble">>}
  /\ UNCHANGED <<ControlVars, cpc, bad>>

\* What follows a step of an operation: the next step, once todo is published.
Then(step, list) == cpc' = step /\ todo' = list
At(step) == cpc = step /\ todo = <<>>

\* The callback in progress finishes before pause and disconnect go on.
AwaitCallback == /\ At("quiet") /\ Unlocked /\ ~callback
                 /\ cpc' = "revoke"
                 /\ UNCHANGED <<ControlVars, op, bad, todo, ops>>

\* Mutant: pause and disconnect only purge.
RevokeMeasurements_purge == /\ At("revoke") /\ cpc' = "purge"
                            /\ UNCHANGED <<sink, SinkRest>>

RevokeMeasurements == /\ At("revoke") /\ cpc' = "purge"
                      /\ Revoke
                      /\ UNCHANGED <<queued, ended, held, SinkRest>>

PurgeMeasurements ==
  /\ At("purge")
  /\ Purge(conn.gen)
  /\ IF op = "pause" THEN Then("pause", <<>>) ELSE Then("halt", <<"connection">>)
  /\ UNCHANGED <<lease, SinkVars, QuietVars, op, bad, ops>>

\* connect: retain_generation, begin_measurements, the client and the poller.
RetainGeneration == /\ At("retain") /\ cpc' = "begin"
                    /\ Retain(conn.gen)
                    /\ UNCHANGED <<lease, ended, held, SinkRest>>

BeginMeasurements ==
  /\ At("begin")
  /\ \/ /\ Begin
        /\ IF op = "connect" THEN Then("create", <<"connection">>)
                             ELSE Then("resume", <<>>)
     \/ /\ BeginFails
        /\ IF op = "connect" THEN Then("fail", <<>>) ELSE Then("idle", <<"trouble">>)
  /\ UNCHANGED <<queued, SinkVars, QuietVars, op, bad, ops>>

CreateClient ==
  /\ At("create")
  /\ \/ /\ client' = [NoClient EXCEPT !.state = "Connecting"]
        /\ stopping' = FALSE
        /\ rpc' = "session" /\ rgen' = conn.gen
        /\ cpc' = "spawn"
     \/ cpc' = "fail" /\ UNCHANGED <<sdk, rpc, rgen>>
  /\ UNCHANGED <<sink, status, shared, mutex, reported, plot, sampling, poller,
                 op, bad, publishing, ops, history>>

SpawnPoller ==
  /\ At("spawn")
  /\ stopHealth' = FALSE
  /\ \/ hpc' = "load" /\ hgen' = conn.gen /\ cpc' = "idle" /\ UNCHANGED stopping
     \/ stopping' = TRUE /\ cpc' = "abandon" /\ UNCHANGED <<hpc, hgen>>
  /\ UNCHANGED <<sink, status, shared, mutex, reported, plot, client, receiver,
                 hcopy, fresh, hbody, op, bad, publishing, ops, history>>

AbandonClient ==
  /\ At("abandon") /\ rpc = "off"
  /\ client' = NoClient /\ cpc' = "fail"
  /\ UNCHANGED <<sink, status, shared, mutex, reported, plot, stopping, receiver,
                 poller, op, bad, publishing, ops, history>>

FailConnection ==
  /\ At("fail") /\ Unlocked
  /\ accepting' = FALSE
  /\ conn' = [conn EXCEPT !.state = "Error"]
  /\ Then("idle", <<"connection", "trouble">>)
  /\ UNCHANGED <<sink, status, callback, streamed, config, published, reported,
                 plot, QuietVars, op, bad, ops>>

\* disconnect: stop_health_, client_->stop and both joins.
HaltPoller ==
  /\ At("halt") /\ cpc' = "stopClient"
  /\ stopHealth' = TRUE
  /\ UNCHANGED <<sink, status, shared, mutex, reported, plot, sdk, receiver, hpc,
                 hgen, hcopy, fresh, hbody, op, bad, publishing, ops, history>>

StopClient ==
  /\ At("stopClient") /\ cpc' = "join"
  /\ stopping' = TRUE
  /\ UNCHANGED <<sink, status, shared, mutex, reported, plot, client, receiver,
                 poller, op, bad, publishing, ops, history>>

\* Mutant: only the client is stopped, the health thread is not joined.
JoinThreads_client == /\ At("join") /\ rpc = "off"
                      /\ cpc' = IF recording = "Idle" THEN "reset" ELSE "stop"
                      /\ UNCHANGED <<ControlVars, op, bad, todo, ops>>

\* Mutant: a recording is left to the recorder's destructor.
JoinThreads_recording == /\ At("join") /\ rpc = "off" /\ hpc = "off"
                         /\ cpc' = "reset"
                         /\ UNCHANGED <<ControlVars, op, bad, todo, ops>>

JoinThreads == /\ At("join") /\ rpc = "off" /\ hpc = "off"
               /\ cpc' = IF recording = "Idle" THEN "reset" ELSE "stop"
               /\ UNCHANGED <<ControlVars, op, bad, todo, ops>>

\* PlotAggregator::reset, and the client is destroyed.
Reset ==
  /\ At("reset")
  /\ plot' = NoPlot
  /\ client' = IF op = "disconnect" THEN NoClient ELSE client
  /\ cpc' = "settle"
  /\ UNCHANGED <<sink, status, shared, mutex, reported, stopping, receiver,
                 poller, op, bad, publishing, ops, history>>

\* Mutant: nothing is said of the state arrived at.
Settle_silent ==
  /\ At("settle") /\ Unlocked
  /\ conn' = IF op = "disconnect"
             THEN [conn EXCEPT !.state = "Disconnected", !.paused = FALSE]
             ELSE [conn EXCEPT !.paused = (op = "pause")]
  /\ accepting' = (accepting \/ op = "resume")
  /\ config' = IF op = "disconnect" THEN 0 ELSE config
  /\ run' = IF op = "resume" THEN run + 1 ELSE run
  /\ Then("idle", <<>>)
  /\ bad' = FALSE
  /\ UNCHANGED <<sink, status, callback, streamed, published, mutex, reported,
                 plot, sdk, receiver, poller, op, copy, ops, latest, shown>>

\* The state every one of the three arrives at, and what is said of it.
Settle ==
  /\ At("settle") /\ Unlocked
  /\ conn' = IF op = "disconnect"
             THEN [conn EXCEPT !.state = "Disconnected", !.paused = FALSE]
             ELSE [conn EXCEPT !.paused = (op = "pause")]
  /\ accepting' = (accepting \/ op = "resume")
  /\ config' = IF op = "disconnect" THEN 0 ELSE config
  /\ run' = IF op = "resume" THEN run + 1 ELSE run
  /\ Then("idle", (IF op = "disconnect" THEN <<"connection">>
                   ELSE <<"recording", "connection">>)
                  \o (IF bad THEN <<"error">> ELSE <<>>))
  /\ bad' = FALSE
  /\ UNCHANGED <<sink, status, callback, streamed, published, mutex, reported,
                 plot, sdk, receiver, poller, op, copy, ops, latest, shown>>
-----------------------------------------------------------------------------
(* The controller inside the recorder *)

RecorderVars == <<sink, shared, mutex, reported, plot, sdk, receiver, poller,
                  copy, op, ops, history>>

\* pause is called when the recorder was seen recording.
PauseRecorder ==
  /\ At("pause")
  /\ IF recording = "Recording" THEN cpc' = "pausing" ELSE cpc' = "reset"
  /\ UNCHANGED <<ControlVars, op, bad, todo, ops>>

RequestPause ==
  /\ At("pausing")
  /\ \/ PauseAccepted /\ cpc' = "paused"
     \/ recording = "Error" /\ UNCHANGED status /\ cpc' = "paused"
  /\ UNCHANGED <<RecorderVars, bad, todo>>

AwaitPaused ==
  /\ At("paused") /\ recording \in {"Paused", "Error"}
  /\ bad' = (recording = "Error")
  /\ cpc' = "reset"
  /\ UNCHANGED <<ControlVars, op, todo, ops>>

ResumeRecorder ==
  /\ At("resume")
  /\ IF recording = "Paused" THEN cpc' = "resuming" ELSE cpc' = "reset"
  /\ UNCHANGED <<ControlVars, op, bad, todo, ops>>

RequestResume ==
  /\ At("resuming") /\ cpc' = "reset"
  /\ \/ Resumed /\ UNCHANGED bad
     \/ recording = "Error" /\ UNCHANGED status /\ bad' = TRUE
  /\ UNCHANGED <<RecorderVars, todo>>

\* stop, for stop_recording and for disconnect, whose own errors come at its end.
StopDone(refused) ==
  IF op = "disconnect"
  THEN Then("reset", IF refused THEN <<"recording", "error">> ELSE <<"recording">>)
  ELSE Then("idle", IF refused THEN <<"recording", "error">> ELSE <<"recording">>)

RequestStop ==
  /\ At("stop")
  /\ \/ StopAccepted /\ cpc' = "stopping" /\ UNCHANGED todo
     \/ recording = "Error" /\ cpc' = "stopping" /\ UNCHANGED <<status, todo>>
     \/ recording = "Idle" /\ ~joinable /\ UNCHANGED status /\ StopDone(TRUE)
  /\ UNCHANGED <<RecorderVars, bad>>

AwaitStopped ==
  /\ At("stopping") /\ Joined
  /\ StopDone(recording = "Error")
  /\ UNCHANGED <<RecorderVars, bad>>

\* start: its checks, the partial file and its header, the writer thread.
RequestStart ==
  /\ At("start")
  /\ \/ StartAccepted /\ cpc' = "create_file" /\ UNCHANGED todo
     \/ UNCHANGED status /\ Then("idle", <<"recording", "error">>)
  /\ UNCHANGED <<RecorderVars, bad>>

PrepareFile ==
  /\ At("create_file")
  /\ \/ StartOk /\ cpc' = "spawn_writer" /\ UNCHANGED todo
     \/ StartFailed /\ Then("idle", <<"recording", "error">>)
  /\ UNCHANGED <<RecorderVars, bad>>

SpawnWriter ==
  /\ At("spawn_writer")
  /\ \/ WriterStarts /\ Then("rearm", <<"recording">>)
     \/ Fails /\ Then("idle", <<"recording", "error">>)
     \/ /\ recording = "Error" /\ UNCHANGED status
        /\ Then("idle", <<"recording", "error">>)
  /\ UNCHANGED <<RecorderVars, bad>>

RearmReport ==
  /\ At("rearm") /\ cpc' = "idle"
  /\ reported' = FALSE
  /\ UNCHANGED <<sink, status, shared, mutex, plot, sdk, receiver, poller, copy,
                 op, bad, todo, ops, history>>
-----------------------------------------------------------------------------
(* What an operation publishes: a copy, then the push of it *)

Snapshot(kind) ==
  CASE kind = "connection" -> Event(kind, conn.gen, ConnectionBody(conn))
    [] kind = "recording"  -> Event(kind, conn.gen, RecordingBody(recording))
    [] kind = "error"      -> Event(kind, conn.gen, ErrorBody("recorder"))
    [] OTHER               -> Event("error", conn.gen, ErrorBody("session"))

CopySnapshot ==
  /\ todo # <<>> /\ copy.kind = "none"
  /\ Head(todo) = "connection" => Unlocked
  /\ copy' = Snapshot(Head(todo))
  /\ UNCHANGED <<sink, status, shared, mutex, reported, plot, sdk, receiver,
                 poller, cpc, op, bad, todo, ops, history>>

PushSnapshot ==
  /\ copy.kind # "none"
  /\ Publish(copy.kind, copy.gen, copy.body)
  /\ copy' = NoEvent /\ todo' = Tail(todo)
  /\ UNCHANGED <<lease, ended, held, status, shared, mutex, reported, plot, sdk,
                 receiver, poller, cpc, op, bad, ops, run, shown>>

ConnectStep == RetainGeneration \/ BeginMeasurements \/ CreateClient
               \/ SpawnPoller \/ AbandonClient \/ FailConnection

SilenceStep == AwaitCallback \/ RevokeMeasurements \/ PurgeMeasurements
               \/ HaltPoller \/ StopClient \/ JoinThreads \/ Reset \/ Settle

RecordStep == PauseRecorder \/ RequestPause \/ AwaitPaused \/ ResumeRecorder
              \/ RequestResume \/ RequestStop \/ AwaitStopped \/ RequestStart
              \/ PrepareFile \/ SpawnWriter \/ RearmReport

ControlStep == ConnectStep \/ SilenceStep \/ RecordStep
               \/ CopySnapshot \/ PushSnapshot

Calls == CallConnect \/ CallDisconnect \/ CallPause \/ CallResume
         \/ CallStartRecording \/ CallStopRecording \/ CallBias
-----------------------------------------------------------------------------
(* The recorder's writer thread, and the consumer *)

RecorderRest == <<sink, shared, mutex, reported, plot, sdk, receiver, poller,
                  controller, history>>

RecorderSettles == (WriterPaused \/ WriterStopped) /\ UNCHANGED RecorderRest

RecorderFails == Fails /\ UNCHANGED RecorderRest

Others == <<status, shared, mutex, reported, plot, sdk, receiver, poller,
            controller, run, latest>>

Take == Pop /\ UNCHANGED <<Others, shown>>

WriteOut ==
  /\ Write
  /\ shown' = IF held.kind # "configuration" THEN shown
              ELSE IF held.gen = shown[1]
              THEN <<held.gen, Max({shown[2], held.body.rev})>>
              ELSE <<held.gen, held.body.rev>>
  /\ UNCHANGED Others

Next ==
  /\ \/ Calls \/ ControlStep \/ ConfigurationStep
     \/ ClientStep \/ CallbackStep \/ PollStep
     \/ RecorderSettles \/ RecorderFails
     \/ Take \/ WriteOut
  /\ UNCHANGED play

Spec == Init /\ [][Next]_<<play, vars>>

\* Every thread runs on, and gets state_mutex_ in the end if it comes free again
\* and again; whether an operation is called is the user's business.
Fairness == /\ SF_vars(ControlStep) /\ WF_vars(ConfigurationStep)
            /\ SF_vars(ClientStep \/ CallbackStep) /\ SF_vars(PollStep)
            /\ WF_vars(RecorderSettles) /\ WF_vars(Take \/ WriteOut)

FairSpec == Spec /\ Fairness
-----------------------------------------------------------------------------
\* No thread of a connection outlives it: whatever still runs was started for the
\* current one, so nothing it publishes can be taken for another's, and a
\* disconnected session has none (session.cpp:341-347).
NoThreadOutlivesItsConnection ==
  /\ rpc # "off" => rgen = conn.gen
  /\ hpc # "off" => hgen = conn.gen
  /\ IdleNow /\ conn.state = "Disconnected" =>
       rpc = "off" /\ hpc = "off" /\ client = NoClient

\* Pause and disconnect return into silence: no measurement is queued, or already
\* popped, that could still be written (README.md:20, session.cpp:396).
PausedIsSilent ==
  IdleNow /\ (conn.paused \/ conn.state = "Disconnected") =>
    \A e \in Range(events) \cup {held} : IsMeasurement(e) => ~Deliverable(e)

\* Nothing measured before a pause is delivered after the resume, and a plot batch
\* never joins points across one: what can be delivered is of the current run.
NoReplay ==
  \A e \in Range(events) \cup {held} :
    IsMeasurement(e) /\ Deliverable(e) => e.gen = conn.gen /\ e.body.run = run

\* Both: what comes out is of the run that is shown, and nothing while none is.
NothingOldIsDelivered == PausedIsSilent /\ NoReplay

\* plot_ and client_ have no lock: the controller resets and destroys them only
\* while no callback can be using them (session.cpp:361, 402, 417, 538).
NoSharedUse ==
  /\ cpc = "reset" => rpc \notin {"submit", "plot"}
  /\ cpc = "reset" /\ op = "disconnect" => rpc = "off" /\ hpc = "off"
  /\ client = NoClient => rpc = "off" /\ hpc = "off"

\* Both: threads, and what they use, end in order.
ThreadsAreContained == NoThreadOutlivesItsConnection /\ NoSharedUse

\* Between operations the recorder pauses exactly when the session does, and a
\* disconnected session has no recording and no writer thread.
RecorderFollowsSession ==
  IdleNow =>
    /\ conn.paused => recording \in {"Idle", "Paused", "Error"}
    /\ recording = "Paused" => conn.paused
    /\ conn.state = "Disconnected" => recording \in {"Idle", "Error"} /\ ~joinable

\* The last connection snapshot of a connection says that it is over: no thread
\* publishes another one after disconnect has said so (session.cpp:372).
DisconnectedIsLast ==
  "connection" \in play.followed =>
    (IdleNow /\ conn.state = "Disconnected" /\ conn.gen > 0 =>
       latest.connection = ConnectionBody(conn))

\* A measurement is never written after a newer configuration than its own: what
\* was measured under the old one is revoked first (session.cpp:696-699).
ConfigurationNotBehind ==
  [][\A e \in {held} : Delivers(e) /\ IsMeasurement(e) /\ shown[1] = e.gen
       => shown[2] <= e.body.rev]_vars

\* Every operation returns: no thread waits for another in a circle.
OperationsReturn == ~IdleNow ~> IdleNow

\* While there is a connection, a recorder that has failed is shown as failed.
FailureIsShown ==
  recording = "Error" /\ conn.state # "Disconnected" ~>
    recording # "Error" \/ conn.state = "Disconnected"
      \/ latest.recording = RecordingBody("Error")

-----------------------------------------------------------------------------
\* companion_process_test.py:115: once stop_recording has returned with the recorder
\* idle, the last recording snapshot pushed says so.
StoppedIsShown ==
  IdleNow /\ op = "stop_recording" /\ recording = "Idle" =>
    latest.recording.state \in {"none", "Idle"}
=============================================================================

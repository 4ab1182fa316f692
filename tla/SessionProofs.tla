---------------------------- MODULE SessionProofs ----------------------------
(***************************************************************************)
(* The session, for any number of operations, connections, revisions and   *)
(* events and in every interleaving: no thread outlives its connection or  *)
(* uses what the controller takes away, the recorder follows, the last     *)
(* word of a connection is that it is over, and nothing that is written    *)
(* out was measured before a pause or under an older configuration than    *)
(* the one written last.                                                   *)
(***************************************************************************)
EXTENDS Session, SequenceLemmas

SessionType ==
  /\ conn \in [state : ConnectionStates, paused : BOOLEAN, gen : Nat]
  /\ client \in [state : ClientStates, rev : Nat]
  /\ hcopy \in [state : ClientStates, rev : Nat]
  /\ accepting \in BOOLEAN /\ callback \in BOOLEAN

\* The receiver is inside sample_received.
Inside == rpc \in {"submit", "plot", "apply", "applied", "changed", "changedPush",
                   "sample", "batch", "report", "failure", "failurePush", "error", "leave"}

\* The steps that only one operation, or two, take.
Steps ==
  /\ cpc \in {"retain", "create", "spawn", "abandon"} => op = "connect"
  /\ cpc = "begin" => op \in {"connect", "resume"}
  /\ cpc \in {"pause", "pausing", "paused"} => op = "pause"
  /\ cpc \in {"resume", "resuming"} => op = "resume"
  /\ cpc \in {"halt", "stopClient", "join"} => op = "disconnect"
  /\ cpc \in {"reset", "settle"} => op \in {"pause", "resume", "disconnect"}
  /\ cpc \in {"stop", "stopping"} => op \in {"stop_recording", "disconnect"}
  /\ cpc \in {"quiet", "revoke", "purge"} => op \in {"pause", "disconnect"}

\* A thread is of the current connection; a connection begins and ends without any.
Threads ==
  /\ rpc # "off" => rgen = conn.gen
  /\ hpc # "off" => hgen = conn.gen
  /\ conn.state = "Disconnected" =>
       /\ rpc = "off" /\ hpc = "off" /\ client = NoClient
       /\ cpc \in {"idle", "stop", "stopping"} /\ (cpc # "idle" => op # "disconnect")
  /\ op = "disconnect" /\ cpc \in {"reset", "stop", "stopping", "settle"} =>
       rpc = "off" /\ hpc = "off"
  /\ op = "disconnect" /\ cpc = "settle" => client = NoClient
  /\ op = "connect" /\ cpc \in {"retain", "begin", "create"} => rpc = "off" /\ hpc = "off"
  /\ cpc \in {"spawn", "abandon"} => hpc = "off" /\ client.state # "None"
  /\ client = NoClient => rpc = "off" /\ hpc = "off"

\* Samples are refused from the beginning of a pause or a disconnect to the end of the
\* resume; the callback in progress is waited for, so none is inside from then on.
Silent ==
  /\ Inside => callback
  /\ cpc \in {"quiet", "revoke", "purge", "pause", "pausing", "paused", "halt",
              "stopClient", "join", "reset", "settle"} => ~accepting
  /\ cpc \in {"revoke", "purge", "pause", "pausing", "paused", "halt", "stopClient",
              "join", "reset", "settle"} => ~callback
  /\ op = "disconnect" /\ cpc \in {"stop", "stopping"} => ~accepting /\ ~callback
  /\ conn.paused => ~accepting /\ ~callback
  /\ op = "resume" /\ cpc \in {"begin", "resume", "resuming", "reset", "settle"} => conn.paused

SessionInvariant == SessionType /\ Steps /\ Threads /\ Silent

\* What it is about.
Concerned == <<conn, accepting, callback, client, rpc, rgen, hpc, hgen, hcopy, cpc, op>>
-----------------------------------------------------------------------------
\* A step that moves none of it keeps it.
LEMMA AsideKeepsInvariant ==
  ASSUME SessionInvariant, UNCHANGED Concerned
  PROVE  SessionInvariant'
BY DEF SessionInvariant, SessionType, Inside, Steps, Threads, Silent, Concerned

\* The operations are called between operations.
LEMMA CallsKeepInvariant ==
  ASSUME SessionInvariant, Calls
  PROVE  SessionInvariant'
<1> USE DEF SessionInvariant, SessionType, Inside, Steps, Threads, Silent, Call, IdleNow,
            ControlVars, QuietVars, SinkVars, SinkRest, sdk, receiver, poller, shared
<1>1. CASE CallConnect
  BY <1>1 DEF CallConnect, ConnectionStates
<1>2. CASE CallDisconnect
  BY <1>2 DEF CallDisconnect, ConnectionStates
<1>3. CASE CallPause
  BY <1>3 DEF CallPause
<1>4. CASE CallResume
  BY <1>4 DEF CallResume
<1>5. CASE CallStartRecording
  BY <1>5 DEF CallStartRecording
<1>6. CASE CallStopRecording
  BY <1>6 DEF CallStopRecording
<1>7. CASE CallBias
  BY <1>7 DEF CallBias
<1> QED
  BY <1>1, <1>2, <1>3, <1>4, <1>5, <1>6, <1>7 DEF Calls

\* connect
LEMMA ConnectKeepsInvariant ==
  ASSUME SessionInvariant, ConnectStep
  PROVE  SessionInvariant'
<1> USE DEF SessionInvariant, SessionType, Inside, Steps, Threads, Silent, At, Then,
            ControlVars, QuietVars, SinkVars, SinkRest, sdk, receiver, poller, shared, publishing
<1>1. CASE RetainGeneration
  BY <1>1 DEF RetainGeneration
<1>2. CASE BeginMeasurements
  BY <1>2 DEF BeginMeasurements
<1>3. CASE CreateClient
  BY <1>3 DEF CreateClient, NoClient, ClientStates
<1>4. CASE SpawnPoller
  BY <1>4 DEF SpawnPoller, NoClient
<1>5. CASE AbandonClient
  BY <1>5 DEF AbandonClient, NoClient, ClientStates
<1>6. CASE FailConnection
  BY <1>6 DEF FailConnection, ConnectionStates
<1> QED
  BY <1>1, <1>2, <1>3, <1>4, <1>5, <1>6 DEF ConnectStep

\* pause, resume and disconnect
LEMMA SilenceKeepsInvariant ==
  ASSUME SessionInvariant, SilenceStep
  PROVE  SessionInvariant'
<1> USE DEF SessionInvariant, SessionType, Inside, Steps, Threads, Silent, At, Then,
            ControlVars, QuietVars, SinkVars, SinkRest, sdk, receiver, poller, shared, publishing
<1>1. CASE AwaitCallback
  BY <1>1 DEF AwaitCallback
<1>2. CASE RevokeMeasurements
  BY <1>2 DEF RevokeMeasurements
<1>3. CASE PurgeMeasurements
  BY <1>3 DEF PurgeMeasurements
<1>4. CASE HaltPoller
  BY <1>4 DEF HaltPoller
<1>5. CASE StopClient
  BY <1>5 DEF StopClient
<1>6. CASE JoinThreads
  BY <1>6 DEF JoinThreads
<1>7. CASE Reset
  BY <1>7 DEF Reset, NoClient, ClientStates
<1>8. CASE Settle
  BY <1>8 DEF Settle, ConnectionStates
<1> QED
  BY <1>1, <1>2, <1>3, <1>4, <1>5, <1>6, <1>7, <1>8 DEF SilenceStep

\* The recorder's part of pause, resume, disconnect and the two of its own.
LEMMA RecordKeepsInvariant ==
  ASSUME SessionInvariant, RecordStep
  PROVE  SessionInvariant'
<1> USE DEF SessionInvariant, SessionType, Inside, Steps, Threads, Silent, At, Then, StopDone,
            ControlVars, RecorderVars, sdk, receiver, poller, shared
<1>1. CASE PauseRecorder
  BY <1>1 DEF PauseRecorder
<1>2. CASE RequestPause
  BY <1>2 DEF RequestPause
<1>3. CASE AwaitPaused
  BY <1>3 DEF AwaitPaused
<1>4. CASE ResumeRecorder
  BY <1>4 DEF ResumeRecorder
<1>5. CASE RequestResume
  BY <1>5 DEF RequestResume
<1>6. CASE RequestStop
  BY <1>6 DEF RequestStop
<1>7. CASE AwaitStopped
  BY <1>7 DEF AwaitStopped
<1>8. CASE RequestStart
  BY <1>8 DEF RequestStart
<1>9. CASE PrepareFile
  BY <1>9 DEF PrepareFile
<1>10. CASE SpawnWriter
  BY <1>10 DEF SpawnWriter
<1>11. CASE RearmReport
  BY <1>11 DEF RearmReport
<1> QED
  BY <1>1, <1>2, <1>3, <1>4, <1>5, <1>6, <1>7, <1>8, <1>9, <1>10, <1>11 DEF RecordStep

\* The client's thread.
LEMMA ClientKeepsInvariant ==
  ASSUME SessionInvariant, ClientStep
  PROVE  SessionInvariant'
<1> USE DEF SessionInvariant, SessionType, Inside, Steps, Threads, Silent, ReceiverVars, Ends,
            NoClient, ClientStates, poller, controller, shared
<1>1. CASE SessionBegins
  BY <1>1 DEF SessionBegins
<1>2. CASE Discover
  BY <1>2, SessionConstants DEF Discover
<1>3. CASE Receive
  BY <1>3 DEF Receive
<1>4. CASE FinishSession
  BY <1>4 DEF FinishSession
<1> QED
  BY <1>1, <1>2, <1>3, <1>4 DEF ClientStep

\* A callback ends where it began, in the thread of its connection.
LEMMA CallbackKeepsInvariant ==
  ASSUME SessionInvariant, CallbackStep
  PROVE  SessionInvariant'
<1>1. CASE SampleEnter
  BY <1>1 DEF SessionInvariant, SessionType, Inside, Steps, Threads, Silent, SampleEnter,
              sdk, controller
<1>2. CASE SampleApplied
  BY <1>2 DEF SessionInvariant, SessionType, Inside, Steps, Threads, Silent, SampleApplied,
              sdk, poller, controller, ConnectionStates
<1>3. CASE SampleLeave
  BY <1>3 DEF SessionInvariant, SessionType, Inside, Steps, Threads, Silent, SampleLeave,
              sdk, poller, controller
<1>4. CASE /\ Inside /\ Inside' /\ rpc' # rpc
           /\ UNCHANGED <<conn, accepting, callback, client, rgen, hpc, hgen, hcopy, cpc, op>>
  BY <1>4 DEF SessionInvariant, SessionType, Inside, Steps, Threads, Silent
<1> QED
  BY <1>1, <1>2, <1>3, <1>4
     DEF CallbackStep, SampleSubmit, SamplePlot, SampleApply, SampleCopies, SamplePushes,
         SampleReport, Inside, shared, sdk, poller, controller, receiver

\* The poller's thread.  No poll finds the session disconnected.
LEMMA PollKeepsInvariant ==
  ASSUME SessionInvariant, PollStep
  PROVE  SessionInvariant'
<1> USE DEF SessionInvariant, SessionType, Inside, Steps, Threads, Silent
<1>1. CASE PollCopy
  BY <1>1 DEF PollCopy, PollerVars, shared, sdk, receiver, controller
<1>2. CASE PollApply
  <2>1. Polled \in ConnectionStates /\ Polled # "Disconnected"
    BY DEF Polled, ConnectionStateFor, ConnectionStates, ClientStates
  <2>2. /\ conn' = [conn EXCEPT !.state = Polled] /\ hcopy' = NoClient
        /\ hpc = "locked" /\ hpc' # "off"
        /\ UNCHANGED <<accepting, callback, client, rpc, rgen, hgen, cpc, op>>
    BY <1>2 DEF PollApply, sdk, receiver, controller
  <2> QED
    BY <2>1, <2>2 DEF NoClient, ClientStates, ConnectionStates
<1>3. CASE /\ hpc # "off"
           /\ UNCHANGED <<conn, accepting, callback, client, rpc, rgen, hgen, hcopy, cpc, op>>
  BY <1>3
<1> QED
  BY <1>1, <1>2, <1>3
     DEF PollStep, PollLoad, PollLock, PollPushes, PollRecording, PollCheck, PollReport, PollWait,
         PollerVars, shared, sdk, receiver, controller

\* What an operation publishes, the configuration, the recorder and the consumer.
LEMMA OthersAreAside ==
  ASSUME \/ CopySnapshot \/ PushSnapshot \/ ConfigurationStep
         \/ RecorderSettles \/ RecorderFails \/ Take \/ WriteOut
  PROVE  UNCHANGED Concerned
BY DEF CopySnapshot, PushSnapshot, ConfigurationStep, PubRevoke, PubPurge, PubBegin, PubPush,
       RecorderSettles, RecorderFails, RecorderRest, Take, WriteOut, Others, Concerned,
       shared, sdk, receiver, poller, controller
-----------------------------------------------------------------------------
\* The invariant holds in every state the session reaches.
LEMMA SessionInvariantHolds == Spec => []SessionInvariant
<1>1. Init => SessionInvariant
  <2> SUFFICES ASSUME Init PROVE SessionInvariant
    OBVIOUS
  <2>1. SessionType
    BY DEF Init, SessionType, NoClient, ConnectionStates, ClientStates
  <2>2. Steps /\ Threads /\ Silent
    BY DEF Init, Inside, Steps, Threads, Silent
  <2> QED
    BY <2>1, <2>2 DEF SessionInvariant
<1>2. SessionInvariant /\ [Next]_<<play, vars>> => SessionInvariant'
  <2> SUFFICES ASSUME SessionInvariant, [Next]_<<play, vars>> PROVE SessionInvariant'
    OBVIOUS
  <2>1. CASE UNCHANGED <<play, vars>>
    <3>1. UNCHANGED Concerned
      BY <2>1 DEF vars, Concerned, shared, sdk, receiver, poller, controller
    <3> QED
      BY <3>1, AsideKeepsInvariant
  <2>2. CASE ControlStep
    BY <2>2, ConnectKeepsInvariant, SilenceKeepsInvariant, RecordKeepsInvariant,
       OthersAreAside, AsideKeepsInvariant DEF ControlStep
  <2> QED
    BY <2>1, <2>2, CallsKeepInvariant, ClientKeepsInvariant, CallbackKeepsInvariant,
       PollKeepsInvariant, OthersAreAside, AsideKeepsInvariant DEF Next
<1> QED
  BY <1>1, <1>2, PTL DEF Spec

\* Whatever thread runs was started for the current connection, and a disconnected
\* session has none (session.cpp:341).
THEOREM NoThreadOutlives == Spec => []NoThreadOutlivesItsConnection
<1>1. SessionInvariant => NoThreadOutlivesItsConnection
  BY DEF SessionInvariant, Threads, NoThreadOutlivesItsConnection
<1> QED
  BY <1>1, SessionInvariantHolds, PTL

\* And the controller resets the plot and destroys the client only while no callback and
\* no thread can be using them (session.cpp:361, 402, 417, 538).
THEOREM ThreadsContained == Spec => []ThreadsAreContained
<1>1. SessionInvariant => NoSharedUse
  BY DEF SessionInvariant, Threads, Silent, Inside, NoSharedUse
<1> QED
  BY <1>1, NoThreadOutlives, SessionInvariantHolds, PTL DEF ThreadsAreContained
-----------------------------------------------------------------------------
(* The recorder *)

\* Where the controller is while the recorder is on its way somewhere, what a pause and
\* a disconnect leave of it, and that a writer thread is always still to be joined.
RecorderInvariant ==
  /\ recording \in RecordingStates /\ joinable \in BOOLEAN
  /\ recording = "Starting" => cpc = "create_file"
  /\ recording = "Pausing" => cpc = "paused"
  /\ recording = "Stopping" => cpc = "stopping"
  /\ recording = "Paused" =>
       \/ conn.paused /\ ~(op = "resume" /\ cpc \in {"reset", "settle"})
       \/ op = "pause" /\ cpc \in {"paused", "reset", "settle"}
       \/ op = "disconnect" /\ cpc \in {"quiet", "revoke", "purge", "halt", "stopClient",
                                       "join", "stop"}
  /\ recording = "Recording" /\ conn.paused => op = "resume" /\ cpc \in {"reset", "settle"}
  /\ op = "pause" /\ cpc \in {"reset", "settle"} => recording # "Recording"
  /\ cpc \in {"start", "create_file", "spawn_writer"} => ~conn.paused
  /\ cpc = "create_file" => recording = "Starting"
  /\ recording \in {"Idle", "Starting"} /\ joinable => cpc = "stopping"
  /\ conn.state = "Disconnected" => recording \in {"Idle", "Error"}
  /\ conn.state = "Disconnected" /\ cpc = "idle" => ~joinable
  /\ op = "disconnect" /\ cpc \in {"reset", "settle"} =>
       recording \in {"Idle", "Error"} /\ ~joinable

\* An operation finds the recorder where the last one left it.
LEMMA CallsLeaveTheRecorder ==
  ASSUME SessionInvariant, RecorderInvariant, Calls
  PROVE  RecorderInvariant'
<1> USE DEF SessionInvariant, SessionType, Steps, Threads, RecorderInvariant, RecordingStates,
            Call, IdleNow,
            ControlVars, QuietVars, SinkVars, SinkRest, shared, status
<1>1. CASE CallConnect
  BY <1>1 DEF CallConnect, ConnectionStates
<1>2. CASE CallDisconnect
  BY <1>2 DEF CallDisconnect
<1>3. CASE CallPause
  BY <1>3 DEF CallPause
<1>4. CASE CallResume
  BY <1>4 DEF CallResume
<1>5. CASE CallStartRecording
  BY <1>5 DEF CallStartRecording
<1>6. CASE CallStopRecording
  BY <1>6 DEF CallStopRecording
<1>7. CASE CallBias
  BY <1>7 DEF CallBias
<1> QED
  BY <1>1, <1>2, <1>3, <1>4, <1>5, <1>6, <1>7 DEF Calls

\* connect begins with a recorder at rest.
LEMMA ConnectLeavesTheRecorder ==
  ASSUME SessionInvariant, RecorderInvariant, ConnectStep
  PROVE  RecorderInvariant'
<1> USE DEF SessionInvariant, SessionType, Steps, Threads, RecorderInvariant, RecordingStates,
            At, Then,
            ControlVars, QuietVars, SinkVars, SinkRest, shared, status
<1>1. CASE RetainGeneration
  BY <1>1 DEF RetainGeneration
<1>2. CASE BeginMeasurements
  BY <1>2 DEF BeginMeasurements
<1>3. CASE CreateClient
  BY <1>3 DEF CreateClient
<1>4. CASE SpawnPoller
  BY <1>4 DEF SpawnPoller
<1>5. CASE AbandonClient
  BY <1>5 DEF AbandonClient
<1>6. CASE FailConnection
  BY <1>6 DEF FailConnection
<1> QED
  BY <1>1, <1>2, <1>3, <1>4, <1>5, <1>6 DEF ConnectStep

\* pause and disconnect go on once the recorder has done its part.
LEMMA SilenceLeavesTheRecorder ==
  ASSUME SessionInvariant, RecorderInvariant, SilenceStep
  PROVE  RecorderInvariant'
<1> USE DEF SessionInvariant, SessionType, Steps, Threads, RecorderInvariant, RecordingStates,
            At, Then,
            ControlVars, QuietVars, SinkVars, SinkRest, shared, status
<1>1. CASE AwaitCallback
  BY <1>1 DEF AwaitCallback
<1>2. CASE RevokeMeasurements
  BY <1>2 DEF RevokeMeasurements
<1>3. CASE PurgeMeasurements
  BY <1>3 DEF PurgeMeasurements
<1>4. CASE HaltPoller
  BY <1>4 DEF HaltPoller
<1>5. CASE StopClient
  BY <1>5 DEF StopClient
<1>6. CASE JoinThreads
  BY <1>6 DEF JoinThreads
<1>7. CASE Reset
  BY <1>7 DEF Reset
<1>8. CASE Settle
  BY <1>8 DEF Settle
<1> QED
  BY <1>1, <1>2, <1>3, <1>4, <1>5, <1>6, <1>7, <1>8 DEF SilenceStep

\* The recorder's own operations, one step of the controller each.
LEMMA RecordKeepsTheRecorder ==
  ASSUME SessionInvariant, RecorderInvariant, RecordStep
  PROVE  RecorderInvariant'
<1> USE DEF SessionInvariant, SessionType, Steps, Threads, RecorderInvariant, RecordingStates,
            At, Then, StopDone,
            ControlVars, RecorderVars, shared, status
<1>1. CASE PauseRecorder
  BY <1>1 DEF PauseRecorder
<1>2. CASE RequestPause
  BY <1>2 DEF RequestPause, PauseAccepted
<1>3. CASE AwaitPaused
  BY <1>3 DEF AwaitPaused
<1>4. CASE ResumeRecorder
  BY <1>4 DEF ResumeRecorder
<1>5. CASE RequestResume
  BY <1>5 DEF RequestResume, Resumed
<1>6. CASE RequestStop
  BY <1>6 DEF RequestStop, StopAccepted
<1>7. CASE AwaitStopped
  BY <1>7 DEF AwaitStopped, Joined
<1>8. CASE RequestStart
  BY <1>8 DEF RequestStart, StartAccepted
<1>9. CASE PrepareFile
  BY <1>9 DEF PrepareFile, StartOk, StartFailed
<1>10. CASE SpawnWriter
  BY <1>10 DEF SpawnWriter, WriterStarts, Fails
<1>11. CASE RearmReport
  BY <1>11 DEF RearmReport
<1> QED
  BY <1>1, <1>2, <1>3, <1>4, <1>5, <1>6, <1>7, <1>8, <1>9, <1>10, <1>11 DEF RecordStep

\* Everybody else leaves the controller alone, and the recorder too but for the writer
\* thread and a submit that finds the queue full.
LEMMA OthersKeepTheRecorder ==
  ASSUME SessionInvariant, RecorderInvariant,
         UNCHANGED <<cpc, op, conn.paused, joinable>>,
         conn'.state = "Disconnected" => conn.state = "Disconnected",
         UNCHANGED recording \/ WriterPaused \/ WriterStopped \/ Fails
  PROVE  RecorderInvariant'
BY DEF SessionInvariant, SessionType, Steps, Threads, RecorderInvariant, RecordingStates,
       WriterPaused, WriterStopped, Fails

\* Which is what everybody else's steps are.
LEMMA OthersAreOthers ==
  ASSUME SessionInvariant,
         \/ CopySnapshot \/ PushSnapshot \/ ConfigurationStep \/ ClientStep \/ CallbackStep
         \/ PollStep \/ RecorderSettles \/ RecorderFails \/ Take \/ WriteOut
  PROVE  /\ UNCHANGED <<cpc, op, conn.paused, conn.gen, joinable>>
         /\ conn'.state = "Disconnected" => conn.state = "Disconnected"
         /\ UNCHANGED recording \/ WriterPaused \/ WriterStopped \/ Fails
<1> USE DEF shared, sdk, receiver, poller, controller, status
<1>1. CASE CopySnapshot \/ PushSnapshot \/ ConfigurationStep \/ Take \/ WriteOut
  BY <1>1 DEF CopySnapshot, PushSnapshot, ConfigurationStep, PubRevoke, PubPurge, PubBegin,
              PubPush, Take, WriteOut, Others
<1>2. CASE RecorderSettles \/ RecorderFails
  BY <1>2 DEF RecorderSettles, RecorderFails, RecorderRest, WriterPaused, WriterStopped, Fails
<1>3. CASE ClientStep
  BY <1>3 DEF ClientStep, SessionBegins, Discover, Receive, FinishSession, ReceiverVars
<1>4. CASE CallbackStep
  BY <1>4 DEF CallbackStep, SampleEnter, SampleSubmit, SamplePlot, SampleApply, SampleApplied,
              SampleCopies, SamplePushes, SampleReport, SampleLeave, SessionInvariant,
              SessionType, Fails
<1>5. CASE PollStep
  <2>1. CASE PollApply
    <3>1. Polled # "Disconnected"
      BY DEF Polled
    <3> QED
      BY <2>1, <3>1 DEF PollApply, SessionInvariant, SessionType
  <2> QED
    BY <1>5, <2>1 DEF PollStep, PollLoad, PollCopy, PollLock, PollPushes, PollRecording,
       PollCheck, PollReport, PollWait, PollerVars
<1> QED
  BY <1>1, <1>2, <1>3, <1>4, <1>5

\* Between operations the recorder pauses exactly when the session does, and a
\* disconnected session has no recording and no writer thread (session.cpp:361, 389).
THEOREM RecorderFollows == Spec => []RecorderFollowsSession
<1>1. Init => RecorderInvariant
  BY DEF Init, StatusInit, RecorderInvariant, RecordingStates
<1>2. SessionInvariant /\ RecorderInvariant /\ [Next]_<<play, vars>> => RecorderInvariant'
  <2> SUFFICES ASSUME SessionInvariant, RecorderInvariant, [Next]_<<play, vars>>
               PROVE  RecorderInvariant'
    OBVIOUS
  <2>1. CASE UNCHANGED <<play, vars>>
    BY <2>1, OthersKeepTheRecorder DEF vars, shared, controller, status
  <2>2. CASE ControlStep
    BY <2>2, ConnectLeavesTheRecorder, SilenceLeavesTheRecorder, RecordKeepsTheRecorder,
       OthersAreOthers, OthersKeepTheRecorder DEF ControlStep
  <2> QED
    BY <2>1, <2>2, CallsLeaveTheRecorder, OthersAreOthers, OthersKeepTheRecorder DEF Next
<1>3. SessionInvariant /\ RecorderInvariant => RecorderFollowsSession
  BY DEF SessionInvariant, Threads, RecorderInvariant, RecordingStates,
         RecorderFollowsSession, IdleNow
<1> QED
  BY <1>1, <1>2, <1>3, SessionInvariantHolds, PTL DEF Spec
-----------------------------------------------------------------------------
(* The last word of a connection *)

\* A disconnected session has said so, or is about to, and has nothing else to say of
\* its connection.
LastWord ==
  /\ latest = [k \in DOMAIN latest |-> latest[k]] /\ "connection" \in DOMAIN latest
  /\ copy.kind # "none" => todo # <<>>
  /\ conn.state = "Disconnected" /\ conn.gen > 0 =>
       /\ copy.kind = "connection" =>
            copy.gen = conn.gen /\ copy.body = ConnectionBody(conn)
       /\ \/ latest.connection = ConnectionBody(conn)
          \/ /\ cpc = "idle" /\ todo # <<>> /\ Head(todo) = "connection"
             /\ copy.kind \in {"none", "connection"}

\* What a push does to the last words.
LEMMA PublishSays ==
  ASSUME NEW kind, NEW gen, NEW body, Publish(kind, gen, body), "connection" \in play.followed,
         latest = [k \in DOMAIN latest |-> latest[k]], "connection" \in DOMAIN latest
  PROVE  /\ latest' = [k \in DOMAIN latest' |-> latest'[k]] /\ "connection" \in DOMAIN latest'
         /\ kind # "connection" => latest'.connection = latest.connection
         /\ kind = "connection" /\ gen = conn.gen => latest'.connection = body
<1>1. CASE gen = conn.gen /\ kind \in play.followed
  BY <1>1 DEF Publish
<1>2. CASE ~(gen = conn.gen /\ kind \in play.followed)
  BY <1>2 DEF Publish
<1> QED
  BY <1>1, <1>2

\* The steps of an operation are taken when all it had to say is said.
LEMMA OperationsKeepLastWord ==
  ASSUME SessionInvariant, LastWord, Calls \/ ConnectStep \/ SilenceStep \/ RecordStep
  PROVE  LastWord'
<1>1. copy.kind = "none" /\ todo = <<>> /\ UNCHANGED <<latest, copy>>
  <2> USE DEF Call, IdleNow, At, LastWord, ControlVars, QuietVars, SinkRest, RecorderVars,
              history, publishing
  <2>1. CASE Calls
    BY <2>1 DEF Calls, CallConnect, CallDisconnect, CallPause, CallResume,
                CallStartRecording, CallStopRecording, CallBias
  <2>2. CASE ConnectStep
    BY <2>2 DEF ConnectStep, RetainGeneration, BeginMeasurements, CreateClient, SpawnPoller,
                AbandonClient, FailConnection
  <2>3. CASE SilenceStep
    BY <2>3 DEF SilenceStep, AwaitCallback, RevokeMeasurements, PurgeMeasurements, HaltPoller,
                StopClient, JoinThreads, Reset, Settle
  <2>4. CASE RecordStep
    BY <2>4 DEF RecordStep, PauseRecorder, RequestPause, AwaitPaused, ResumeRecorder,
                RequestResume, RequestStop, AwaitStopped, RequestStart, PrepareFile,
                SpawnWriter, RearmReport
  <2> QED
    BY <2>1, <2>2, <2>3, <2>4
<1>2. CASE Settle /\ op = "disconnect"
  <2>1. cpc' = "idle" /\ todo' # <<>> /\ Head(todo') = "connection"
    BY <1>2 DEF Settle, Then
  <2> QED
    BY <1>1, <2>1 DEF LastWord
<1>3. CASE ~(Settle /\ op = "disconnect")
  <2>1. conn'.state = "Disconnected" => conn' = conn
    <3> USE <1>3 DEF SessionInvariant, SessionType, Steps, Threads, Call, IdleNow, At,
                     ControlVars, SinkVars, SinkRest, RecorderVars, shared
    <3>1. CASE Calls
      <4>1. CASE CallConnect \/ CallDisconnect
        <5>1. CASE CallConnect
          BY <5>1 DEF CallConnect
        <5>2. CASE CallDisconnect
          <6>1. conn' = [conn EXCEPT !.state = "Disconnecting", !.paused = FALSE]
            BY <5>2 DEF CallDisconnect
          <6>2. conn'.state = "Disconnecting"
            BY <6>1
          <6> QED
            BY <6>2
        <5> QED
          BY <4>1, <5>1, <5>2
      <4>2. CASE CallPause \/ CallResume \/ CallStartRecording \/ CallStopRecording \/ CallBias
        BY <4>2 DEF CallPause, CallResume, CallStartRecording, CallStopRecording, CallBias
      <4> QED
        BY <3>1, <4>1, <4>2 DEF Calls
    <3>2. CASE ConnectStep
      BY <3>2 DEF ConnectStep, RetainGeneration, BeginMeasurements, CreateClient, SpawnPoller,
                  AbandonClient, FailConnection
    <3>3. CASE Settle
      <4>1. op # "disconnect" /\ cpc = "settle"
        BY <3>3 DEF Settle
      <4>2. conn' = [conn EXCEPT !.paused = (op = "pause")]
        BY <3>3, <4>1 DEF Settle
      <4> QED
        BY <4>1, <4>2
    <3>4. CASE SilenceStep /\ ~Settle
      BY <3>4 DEF SilenceStep, AwaitCallback, RevokeMeasurements, PurgeMeasurements, HaltPoller,
                  StopClient, JoinThreads, Reset
    <3>5. CASE RecordStep
      BY <3>5 DEF RecordStep, PauseRecorder, RequestPause, AwaitPaused, ResumeRecorder,
                  RequestResume, RequestStop, AwaitStopped, RequestStart, PrepareFile,
                  SpawnWriter, RearmReport
    <3> QED
      BY <3>1, <3>2, <3>3, <3>4, <3>5
  <2> QED
    BY <1>1, <2>1 DEF LastWord
<1> QED
  BY <1>2, <1>3

\* It says what it has to say in order.
LEMMA SayingKeepsLastWord ==
  ASSUME SessionInvariant, LastWord, CopySnapshot \/ PushSnapshot, "connection" \in play.followed
  PROVE  LastWord'
<1>1. CASE CopySnapshot
  <2>1. /\ todo # <<>> /\ copy' = Snapshot(Head(todo))
        /\ UNCHANGED <<conn, cpc, todo, latest>>
    BY <1>1 DEF CopySnapshot, shared, history
  <2>2. CASE Head(todo) = "connection"
    <3>1. copy' = Event("connection", conn.gen, ConnectionBody(conn))
      BY <2>1, <2>2 DEF Snapshot
    <3>2. copy'.kind = "connection" /\ copy'.gen = conn.gen /\ copy'.body = ConnectionBody(conn)
      BY <3>1 DEF Event
    <3> QED
      BY <2>1, <3>2 DEF LastWord
  <2>3. CASE Head(todo) # "connection"
    <3>1. copy'.kind # "connection"
      BY <2>1, <2>3 DEF Snapshot, Event
    <3> QED
      BY <2>1, <2>3, <3>1 DEF LastWord
  <2> QED
    BY <2>2, <2>3
<1>2. CASE PushSnapshot
  <2>1. Publish(copy.kind, copy.gen, copy.body) /\ copy' = NoEvent /\ UNCHANGED <<conn, cpc>>
    BY <1>2 DEF PushSnapshot, shared
  <2>2. copy.kind # "none" /\ copy'.kind = "none"
    BY <1>2, <2>1 DEF PushSnapshot, NoEvent, Event
  <2> QED
    BY <2>1, <2>2, PublishSays DEF LastWord
<1> QED
  BY <1>1, <1>2

\* Nobody else speaks of a connection that is over.
LEMMA OthersKeepLastWord ==
  ASSUME SessionInvariant, LastWord, "connection" \in play.followed,
         \/ ConfigurationStep \/ ClientStep \/ CallbackStep \/ PollStep
         \/ RecorderSettles \/ RecorderFails \/ Take \/ WriteOut
  PROVE  LastWord'
<1> USE DEF shared, sdk, receiver, poller, controller, publishing, history
<1>1. UNCHANGED <<copy, todo, cpc>>
  BY DEF ConfigurationStep, ClientStep, SessionBegins, Discover, Receive, FinishSession,
         ReceiverVars, CallbackStep, SampleEnter, SampleSubmit, SamplePlot, SampleApply,
         SampleApplied, SampleCopies, SamplePushes, SampleReport, SampleLeave, PollStep,
         PollLoad, PollCopy, PollLock, PollApply, PollPushes, PollRecording, PollCheck,
         PollReport, PollWait, PollerVars, RecorderSettles, RecorderFails, RecorderRest,
         Take, WriteOut, Others
<1>2. CASE conn'.state = "Disconnected"
  <2>1. conn.state = "Disconnected" /\ rpc = "off" /\ hpc = "off"
    BY <1>2, OthersAreOthers DEF SessionInvariant, Threads
  <2>2. UNCHANGED conn
    BY <2>1 DEF ConfigurationStep, PubRevoke, PubPurge, PubBegin, PubPush, ClientStep,
       SessionBegins, Discover, Receive, FinishSession, CallbackStep, SampleEnter, SampleSubmit,
       SamplePlot, SampleApply, SampleApplied, SampleCopies, SamplePushes, SampleReport,
       SampleLeave, PollStep, PollLoad, PollCopy, PollLock, PollApply, PollPushes, PollRecording,
       PollCheck, PollReport, PollWait, RecorderSettles, RecorderFails, RecorderRest, Take,
       WriteOut, Others
  <2>3. UNCHANGED latest \/ Publish("configuration", conn.gen, ConfigurationBody(config))
    BY <2>1 DEF ConfigurationStep, PubRevoke, PubPurge, PubBegin, PubPush, ClientStep,
       SessionBegins, Discover, Receive, FinishSession, CallbackStep, SampleEnter, SampleSubmit,
       SamplePlot, SampleApply, SampleApplied, SampleCopies, SamplePushes, SampleReport,
       SampleLeave, PollStep, PollLoad, PollCopy, PollLock, PollApply, PollPushes, PollRecording,
       PollCheck, PollReport, PollWait, RecorderSettles, RecorderFails, RecorderRest, Take,
       WriteOut, Others
  <2> QED
    BY <1>1, <2>1, <2>2, <2>3, PublishSays DEF LastWord
<1>3. CASE conn'.state # "Disconnected"
  <2>1. UNCHANGED latest \/ \E kind, gen, body : Publish(kind, gen, body)
    <3>1. CASE CallbackStep
      BY <3>1 DEF CallbackStep, SampleEnter, SampleSubmit, SamplePlot, SampleApply,
         SampleApplied, SampleCopies, SamplePushes, SampleReport, SampleLeave
    <3>2. CASE PollStep
      BY <3>2 DEF PollStep, PollLoad, PollCopy, PollLock, PollApply, PollPushes, PollRecording,
         PollCheck, PollReport, PollWait, PollerVars
    <3>3. CASE ConfigurationStep
      BY <3>3 DEF ConfigurationStep, PubRevoke, PubPurge, PubBegin, PubPush
    <3>4. CASE ClientStep \/ RecorderSettles \/ RecorderFails \/ Take \/ WriteOut
      BY <3>4 DEF ClientStep, SessionBegins, Discover, Receive, FinishSession, ReceiverVars,
         RecorderSettles, RecorderFails, RecorderRest, Take, WriteOut, Others
    <3> QED
      BY <3>1, <3>2, <3>3, <3>4
  <2>2. latest' = [k \in DOMAIN latest' |-> latest'[k]] /\ "connection" \in DOMAIN latest'
    BY <2>1, PublishSays DEF LastWord
  <2> QED
    BY <1>1, <1>3, <2>2 DEF LastWord
<1> QED
  BY <1>2, <1>3

\* The last connection snapshot of a connection says that it is over (session.cpp:372),
\* where connection snapshots are followed.
THEOREM DisconnectedIsLastWord == Spec => []DisconnectedIsLast
<1> DEFINE Followed == "connection" \in play.followed
<1>1. Init => LastWord
  <2> SUFFICES ASSUME Init PROVE LastWord
    OBVIOUS
  <2>1. latest = [k \in DOMAIN latest |-> latest[k]] /\ "connection" \in DOMAIN latest
    BY DEF Init
  <2>2. copy.kind = "none"
    BY DEF Init, NoEvent, Event
  <2> QED
    BY <2>1, <2>2 DEF Init, LastWord
<1>2. SessionInvariant /\ (Followed => LastWord) /\ [Next]_<<play, vars>>
        => (Followed => LastWord)'
  <2> SUFFICES ASSUME SessionInvariant, LastWord, [Next]_<<play, vars>>, Followed
               PROVE  LastWord'
    BY DEF Next
  <2>1. CASE UNCHANGED <<play, vars>>
    BY <2>1 DEF vars, LastWord, shared, controller, publishing, history
  <2>2. CASE ControlStep
    BY <2>2, OperationsKeepLastWord, SayingKeepsLastWord DEF ControlStep
  <2> QED
    BY <2>1, <2>2, OperationsKeepLastWord, OthersKeepLastWord DEF Next
<1>3. (Followed => LastWord) => DisconnectedIsLast
  BY DEF LastWord, DisconnectedIsLast, IdleNow
<1> QED
  BY <1>1, <1>2, <1>3, SessionInvariantHolds, PTL DEF Spec
-----------------------------------------------------------------------------
(* What can still be delivered *)

\* From the revocation that begins a pause or a disconnect to the resume or the connect
\* that ends it.
Silence ==
  \/ cpc \in {"purge", "pause", "pausing", "paused", "halt", "stopClient", "join", "reset",
              "settle"}
  \/ op = "disconnect" /\ cpc \in {"stop", "stopping"}
  \/ conn.paused \/ conn.state = "Disconnected"

\* What may be in the queue: if it can be delivered it is of this run, and there is no
\* silence.
Fits(x) ==
  /\ x.epoch \in Nat /\ x.epoch <= epoch
  /\ leaseValid /\ IsMeasurement(x) /\ x.epoch = epoch =>
       x.gen = conn.gen /\ x.body.run = run /\ ~Silence

Contents ==
  /\ epoch \in Nat
  /\ \E S : events \in Seq(S) /\ \A x \in S : Fits(x)
  /\ Fits(held)

\* The samples in the receiver's hands and in the plot are of this run; a run begins with
\* none.
RunsAreCurrent ==
  /\ Inside => timed.run = run
  /\ batch = NoPlot \/ (Inside /\ batch.run = run)
  /\ rpc = "batch" => batch # NoPlot
  /\ plot = NoPlot \/ plot.run = run
  /\ (cpc = "settle" \/ conn.state = "Disconnected") => plot = NoPlot
  /\ ~IsMeasurement(copy)

DeliveryInvariant == Contents /\ RunsAreCurrent

\* The run and the connection change in silence only, and silence begins when the
\* measurements are revoked.
Steady == \/ run' = run /\ conn'.gen = conn.gen /\ (Silence' => Silence)
          \/ Silence
          \/ ~leaseValid' /\ run' = run /\ conn'.gen = conn.gen

\* Nobody measures in silence.
LEMMA SilenceIsSilent ==
  ASSUME SessionInvariant, Silence
  PROVE  ~Inside
BY DEF SessionInvariant, Steps, Threads, Silent, Silence, Inside

LEMMA CallsAreSteady ==
  ASSUME SessionInvariant, Calls
  PROVE  Steady
<1> USE DEF SessionInvariant, SessionType, Call, IdleNow, ControlVars, QuietVars, history, shared,
            Steady, Silence
<1>1. CASE CallConnect
  BY <1>1 DEF CallConnect
<1>2. CASE CallDisconnect
  BY <1>2 DEF CallDisconnect
<1>3. CASE CallPause
  BY <1>3 DEF CallPause
<1>4. CASE CallResume
  BY <1>4 DEF CallResume
<1>5. CASE CallStartRecording
  BY <1>5 DEF CallStartRecording
<1>6. CASE CallStopRecording
  BY <1>6 DEF CallStopRecording
<1>7. CASE CallBias
  BY <1>7 DEF CallBias
<1> QED
  BY <1>1, <1>2, <1>3, <1>4, <1>5, <1>6, <1>7 DEF Calls

LEMMA ConnectIsSteady ==
  ASSUME SessionInvariant, ConnectStep
  PROVE  Steady
<1> USE DEF SessionInvariant, SessionType, Steps, Threads, At, Then, QuietVars, SinkVars,
            SinkRest, history, shared, Steady, Silence
<1>1. CASE RetainGeneration
  BY <1>1 DEF RetainGeneration
<1>2. CASE BeginMeasurements
  BY <1>2 DEF BeginMeasurements
<1>3. CASE CreateClient
  BY <1>3 DEF CreateClient
<1>4. CASE SpawnPoller
  BY <1>4 DEF SpawnPoller
<1>5. CASE AbandonClient
  BY <1>5 DEF AbandonClient
<1>6. CASE FailConnection
  BY <1>6 DEF FailConnection
<1> QED
  BY <1>1, <1>2, <1>3, <1>4, <1>5, <1>6 DEF ConnectStep

LEMMA SilenceIsSteady ==
  ASSUME SessionInvariant, SilenceStep
  PROVE  Steady
<1>1. CASE AwaitCallback
  BY <1>1 DEF AwaitCallback, At, ControlVars, history, shared, Steady, Silence
<1>2. CASE RevokeMeasurements
  BY <1>2 DEF RevokeMeasurements, Revoke, SinkRest, QuietVars, history, shared, Steady
<1>3. CASE SilenceStep /\ ~AwaitCallback /\ ~RevokeMeasurements
  BY <1>3 DEF SilenceStep, PurgeMeasurements, HaltPoller, StopClient, JoinThreads, Reset,
              Settle, At, Steady, Silence
<1> QED
  BY <1>1, <1>2, <1>3

LEMMA RecordIsSteady ==
  ASSUME SessionInvariant, RecordStep
  PROVE  Steady
<1> USE DEF SessionInvariant, Steps, Silent, At, Then, StopDone, ControlVars, RecorderVars,
            history, shared, Steady, Silence
<1>1. CASE PauseRecorder \/ RequestPause \/ AwaitPaused
  BY <1>1 DEF PauseRecorder, RequestPause, AwaitPaused
<1>2. CASE ResumeRecorder \/ RequestResume
  BY <1>2 DEF ResumeRecorder, RequestResume
<1>3. CASE RequestStop
  BY <1>3 DEF RequestStop
<1>4. CASE AwaitStopped
  BY <1>4 DEF AwaitStopped
<1>5. CASE RequestStart \/ PrepareFile \/ SpawnWriter \/ RearmReport
  BY <1>5 DEF RequestStart, PrepareFile, SpawnWriter, RearmReport
<1> QED
  BY <1>1, <1>2, <1>3, <1>4, <1>5 DEF RecordStep

LEMMA OthersAreSteady ==
  ASSUME SessionInvariant,
         \/ CopySnapshot \/ PushSnapshot \/ ConfigurationStep \/ ClientStep \/ CallbackStep
         \/ PollStep \/ RecorderSettles \/ RecorderFails \/ Take \/ WriteOut
  PROVE  Steady /\ run' = run
<1>1. run' = run
  BY DEF CopySnapshot, PushSnapshot, ConfigurationStep, ClientStep, SessionBegins, Discover,
         Receive, FinishSession, ReceiverVars, CallbackStep, SampleEnter, SampleSubmit, SamplePlot,
         SampleApply, SampleApplied, SampleCopies, SamplePushes, SampleReport, SampleLeave,
         PollStep, PollLoad, PollCopy, PollLock, PollApply, PollPushes, PollRecording, PollCheck,
         PollReport, PollWait, PollerVars, RecorderSettles, RecorderFails, RecorderRest, Take,
         WriteOut, Others, history
<1> QED
  BY <1>1, OthersAreOthers DEF Steady, Silence

\* What has fitted goes on fitting: the lease lives through nothing that could make it
\* out of date.
LEMMA FitsStill ==
  ASSUME epoch \in Nat, Steady,
         \/ UNCHANGED lease
         \/ epoch' = epoch + 1
         \/ epoch' = epoch /\ ~leaseValid',
         NEW x, Fits(x)
  PROVE  epoch' \in Nat /\ Fits(x)'
<1>1. epoch' \in Nat /\ x.epoch \in Nat /\ x.epoch <= epoch'
  BY DEF Fits, lease
<1>2. CASE UNCHANGED lease
  BY <1>1, <1>2 DEF Fits, lease, Steady, IsMeasurement
<1>3. CASE epoch' = epoch + 1
  <2>1. x.epoch # epoch'
    BY <1>1, <1>3 DEF Fits
  <2> QED
    BY <1>1, <2>1 DEF Fits
<1>4. CASE epoch' = epoch /\ ~leaseValid'
  BY <1>1, <1>4 DEF Fits
<1> QED
  BY <1>2, <1>3, <1>4

\* A push replaces the element of its slot, or goes to the end of what is left of the
\* queue, which is in any order that the queue is in.
LEMMA PushForm ==
  ASSUME NEW S, events \in Seq(S), NEW e, Push(e)
  PROVE  \/ \E m \in 1..Len(events) :
              SameSlot(events[m], e) /\ ~IsError(e) /\ events' = [events EXCEPT ![m] = e]
         \/ \E room \in Seq(S), new \in {e, [e EXCEPT !.lost = dropped']} :
              /\ events' = Append(room, new)
              /\ \A R : InPairs(events, R) => InPairs(room, R)
<1> DEFINE slot   == {i \in Snapshots(events) : ~IsError(e) /\ SameSlot(events[i], e)}
           tail   == IsError(e) /\ Cardinality(Errors(events)) >= ErrorCapacity
           kept   == IF tail THEN RemoveAt(events, Min(Errors(events))) ELSE events
           full   == Len(kept) >= Capacity
           victim == Min(IF Snapshots(kept) # {} THEN Snapshots(kept) ELSE Errors(kept))
           room   == IF full THEN RemoveAt(kept, victim) ELSE kept
           losses == Cardinality(Errors(events)) - Cardinality(Errors(room))
           new    == IF IsError(e) /\ losses > 0 THEN [e EXCEPT !.lost = dropped + losses] ELSE e
<1>1. \/ slot # {} /\ events' = [events EXCEPT ![Min(slot)] = e]
      \/ events' = Append(room, new) /\ dropped' = dropped + losses
  BY DEF Push
<1>2. dropped' = dropped + losses => new \in {e, [e EXCEPT !.lost = dropped']}
  OBVIOUS
<1>3. CASE slot # {} /\ events' = [events EXCEPT ![Min(slot)] = e]
  <2>1. slot \subseteq 1..Len(events) /\ slot \subseteq Nat
    BY LenProperties DEF Snapshots
  <2>2. Min(slot) \in slot
    <3> HIDE DEF slot
    <3> QED
      BY <1>3, <2>1, MinIsLeast
  <2>3. PICK m : m = Min(slot)
    OBVIOUS
  <2>4. m \in 1..Len(events) /\ SameSlot(events[m], e) /\ ~IsError(e)
    BY <2>1, <2>2, <2>3
  <2> HIDE DEF slot
  <2>5. events' = [events EXCEPT ![m] = e]
    BY <1>3, <2>3
  <2> QED
    BY <2>4, <2>5
<1>4. CASE events' = Append(room, new) /\ dropped' = dropped + losses
  <2>1. kept \in Seq(S) /\ \A R : InPairs(events, R) => InPairs(kept, R)
    <3>1. CASE tail
      <4>1. Errors(events) # {}
        <5> SUFFICES ASSUME Errors(events) = {} PROVE FALSE
          OBVIOUS
        <5>1. Cardinality(Errors(events)) = 0
          BY FS_EmptySet
        <5> QED
          BY <3>1, <5>1, SinkConstants
      <4>2. Errors(events) \subseteq 1..Len(events) /\ Errors(events) \subseteq Nat
        BY LenProperties DEF Errors
      <4>3. Min(Errors(events)) \in 1..Len(events)
        BY <4>1, <4>2, MinIsLeast
      <4>4. kept = RemoveAt(events, Min(Errors(events)))
        BY <3>1
      <4> HIDE DEF kept
      <4> QED
        BY <4>3, <4>4, RemoveAtProperties, RemoveAtPairs
    <3> QED
      BY <3>1
  <2> HIDE DEF kept
  <2>2. room \in Seq(S) /\ \A R : InPairs(events, R) => InPairs(room, R)
    <3>1. CASE full
      <4>1. Len(kept) \in Nat /\ Len(kept) > 0 /\ DOMAIN kept = 1..Len(kept)
        BY <2>1, <3>1, LenProperties, SinkConstants
      <4> DEFINE V == IF Snapshots(kept) # {} THEN Snapshots(kept) ELSE Errors(kept)
      <4>2. V \subseteq 1..Len(kept) /\ V \subseteq Nat /\ V # {}
        <5>1. \A n \in Nat : n > 0 => 1 \in 1..n /\ 1..n \subseteq Nat
          OBVIOUS
        <5>2. Snapshots(kept) = (1..Len(kept)) \ Errors(kept) /\ Errors(kept) \subseteq 1..Len(kept)
          BY <4>1 DEF Snapshots, Errors
        <5> QED
          BY <4>1, <5>1, <5>2
      <4>3. victim = Min(V)
        OBVIOUS
      <4> HIDE DEF V, victim
      <4>4. victim \in 1..Len(kept)
        BY <4>2, <4>3, MinIsLeast
      <4>5. room = RemoveAt(kept, victim)
        BY <3>1
      <4> HIDE DEF room
      <4> QED
        BY <2>1, <4>4, <4>5, RemoveAtProperties, RemoveAtPairs
    <3>2. CASE ~full
      BY <2>1, <3>2
    <3> QED
      BY <3>1, <3>2
  <2> HIDE DEF room, new
  <2> QED
    BY <1>2, <1>4, <2>2
<1> QED
  BY <1>1, <1>3, <1>4

\* It puts nothing into the queue but what is pushed.
LEMMA PushStays ==
  ASSUME NEW S, events \in Seq(S), NEW e \in S, [e EXCEPT !.lost = dropped'] \in S, Push(e)
  PROVE  events' \in Seq(S)
<1>1. CASE \E m \in 1..Len(events) :
             SameSlot(events[m], e) /\ ~IsError(e) /\ events' = [events EXCEPT ![m] = e]
  BY <1>1, ExceptSeq
<1>2. CASE \E room \in Seq(S), new \in {e, [e EXCEPT !.lost = dropped']} :
             /\ events' = Append(room, new)
             /\ \A R : InPairs(events, R) => InPairs(room, R)
  <2>1. PICK room \in Seq(S), new \in {e, [e EXCEPT !.lost = dropped']} :
               events' = Append(room, new)
    BY <1>2
  <2>2. new \in S
    OBVIOUS
  <2> QED
    BY <2>1, <2>2, AppendProperties
<1> QED
  BY <1>1, <1>2, PushForm

\* What leaves the queue or is let in leaves it with what fits.
LEMMA ContentsStay ==
  ASSUME Contents, epoch' \in Nat, \A x : Fits(x) => Fits(x)', Fits(NoEvent)',
         \/ UNCHANGED events /\ (held' = held \/ held' = NoEvent)
         \/ UNCHANGED held /\ \E kept : events' = Keep(events, kept)
         \/ UNCHANGED held /\ \E e : Push(e) /\ Fits(e) /\ Fits([e EXCEPT !.lost = dropped'])
         \/ Pop
  PROVE  Contents'
<1>1. PICK S : events \in Seq(S) /\ \A x \in S : Fits(x)
  BY DEF Contents
<1>2. \A x \in S : Fits(x)'
  BY <1>1
<1>3. Fits(held)'
  <2>1. CASE UNCHANGED held \/ held' = NoEvent
    <3>1. Fits(held)
      BY DEF Contents
    <3>2. \A x : x = held' => (Fits(x)' <=> Fits(held)')
      BY DEF Fits, IsMeasurement, Silence
    <3>3. CASE UNCHANGED held
      BY <3>1, <3>2, <3>3
    <3> QED
      BY <2>1, <3>2, <3>3
  <2>2. CASE Pop
    <3>1. held' = Head(events) /\ events # <<>>
      BY <2>2 DEF Pop
    <3>2. held' \in S
      BY <1>1, <3>1, HeadTailProperties
    <3>3. \A x : x = held' => (Fits(x)' <=> Fits(held)')
      BY DEF Fits, IsMeasurement, Silence
    <3> QED
      BY <1>2, <3>2, <3>3
  <2> QED
    BY <2>1, <2>2
<1>4. \E T : events' \in Seq(T) /\ \A x \in T : Fits(x)'
  <2>1. CASE UNCHANGED events
    BY <1>1, <1>2, <2>1
  <2>2. CASE \E kept : events' = Keep(events, kept)
    BY <1>1, <1>2, <2>2, KeepProperties
  <2>3. CASE \E e : Push(e) /\ Fits(e) /\ Fits([e EXCEPT !.lost = dropped'])
    <3>1. PICK e : Push(e) /\ Fits(e) /\ Fits([e EXCEPT !.lost = dropped'])
      BY <2>3
    <3>2. PICK f : f = [e EXCEPT !.lost = dropped']
      OBVIOUS
    <3>3. PICK T : T = S \cup {e, f}
      OBVIOUS
    <3>4. Fits(e) /\ Fits(f)
      BY <3>1, <3>2
    <3>5. \A x \in T : Fits(x)'
      BY <1>2, <3>3, <3>4
    <3>6. events \in Seq(T)
      BY <1>1, <3>3, SeqMonotonic
    <3>7. events' \in Seq(T)
      BY <3>1, <3>2, <3>3, <3>6, PushStays
    <3> QED
      BY <3>5, <3>7
  <2>4. CASE Pop
    <3>1. events' = Tail(events) /\ events # <<>>
      BY <2>4 DEF Pop
    <3>2. events' \in Seq(S)
      BY <1>1, <3>1, HeadTailProperties
    <3> QED
      BY <1>2, <3>2
  <2> QED
    BY <2>1, <2>2, <2>3, <2>4
<1> QED
  BY <1>3, <1>4 DEF Contents

\* What is published fits, if a measurement is published only outside of silence.
LEMMA PublishFits ==
  ASSUME Contents, NEW kind, NEW gen, NEW body, Publish(kind, gen, body),
         kind \in {"sample", "plot"} => ~Silence /\ body.run = run
  PROVE  \/ UNCHANGED events
         \/ \E e : Push(e) /\ Fits(e) /\ Fits([e EXCEPT !.lost = dropped'])
<1>1. CASE UNCHANGED queued
  BY <1>1 DEF queued
<1>2. CASE gen = conn.gen /\ Enqueue(Event(kind, gen, body))
  <2> DEFINE plain == Event(kind, gen, body)
             e == IF IsMeasurement(plain) THEN [plain EXCEPT !.epoch = epoch] ELSE plain
  <2>1. UNCHANGED queued \/ Push(e)
    BY <1>2 DEF Enqueue
  <2>2. e = [kind |-> kind, gen |-> gen, body |-> body,
             epoch |-> IF kind \in {"sample", "plot"} THEN epoch ELSE 0, lost |-> 0]
    BY DEF Event, IsMeasurement
  <2> HIDE DEF e
  <2>3. epoch \in Nat /\ gen = conn.gen
    BY <1>2 DEF Contents
  <2>4. Fits(e) /\ Fits([e EXCEPT !.lost = dropped'])
    BY <2>2, <2>3 DEF Fits, IsMeasurement
  <2> QED
    BY <2>1, <2>4 DEF queued
<1> QED
  BY <1>1, <1>2 DEF Publish

\* What the steps of the session do to the lease and to the queue.
Moves ==
  /\ \/ UNCHANGED lease
     \/ epoch' = epoch + 1
     \/ epoch' = epoch /\ ~leaseValid'
  /\ \/ UNCHANGED events /\ (held' = held \/ held' = NoEvent)
     \/ UNCHANGED held /\ \E kept : events' = Keep(events, kept)
     \/ UNCHANGED held /\ \E e : Push(e) /\ Fits(e) /\ Fits([e EXCEPT !.lost = dropped'])
     \/ Pop

LEMMA OperationsMove ==
  ASSUME Calls \/ ConnectStep \/ SilenceStep \/ RecordStep
  PROVE  Moves
<1> USE DEF Moves, sink, queued, lease, ControlVars, SinkVars, SinkRest, RecorderVars
<1>1. CASE Calls
  BY <1>1 DEF Calls, CallConnect, CallDisconnect, CallPause, CallResume, CallStartRecording,
              CallStopRecording, CallBias
<1>2. CASE ConnectStep
  BY <1>2 DEF ConnectStep, RetainGeneration, Retain, BeginMeasurements, Begin, BeginFails,
              CreateClient, SpawnPoller, AbandonClient, FailConnection
<1>3. CASE SilenceStep
  BY <1>3 DEF SilenceStep, AwaitCallback, RevokeMeasurements, Revoke, PurgeMeasurements, Purge,
              HaltPoller, StopClient, JoinThreads, Reset, Settle
<1>4. CASE RecordStep
  BY <1>4 DEF RecordStep, PauseRecorder, RequestPause, AwaitPaused, ResumeRecorder,
              RequestResume, RequestStop, AwaitStopped, RequestStart, PrepareFile, SpawnWriter,
              RearmReport
<1> QED
  BY <1>1, <1>2, <1>3, <1>4

LEMMA PublishMoves ==
  ASSUME Contents, UNCHANGED <<lease, held>>, NEW kind, NEW gen, NEW body,
         Publish(kind, gen, body), kind \in {"sample", "plot"} => ~Silence /\ body.run = run
  PROVE  Moves
BY PublishFits DEF Moves

LEMMA OthersMove ==
  ASSUME SessionInvariant, DeliveryInvariant,
         \/ CopySnapshot \/ PushSnapshot \/ ConfigurationStep \/ ClientStep \/ CallbackStep
         \/ PollStep \/ RecorderSettles \/ RecorderFails \/ Take \/ WriteOut
  PROVE  Moves
<1>1. Contents
  BY DEF DeliveryInvariant
<1>2. CASE PushSnapshot
  <2>1. copy.kind \notin {"sample", "plot"}
    BY DEF DeliveryInvariant, RunsAreCurrent, IsMeasurement
  <2> QED
    BY <1>1, <1>2, <2>1, PublishMoves DEF PushSnapshot
<1>3. CASE ConfigurationStep
  <2>1. CASE PubPush
    BY <1>1, <2>1, PublishMoves DEF PubPush
  <2> QED
    BY <1>3, <2>1 DEF ConfigurationStep, PubRevoke, Revoke, PubPurge, Purge, PubBegin, Begin,
                      BeginFails, Moves, queued, lease
<1>4. CASE CallbackStep
  <2>1. CASE UNCHANGED sink
    BY <2>1 DEF Moves, sink, queued, lease
  <2>2. ASSUME NEW at, NEW then, NEW kind, NEW body, SamplePushes(at, then, kind, body),
               kind \in {"sample", "plot"} => ~Silence /\ body.run = run
        PROVE  Moves
    BY <1>1, <2>2, PublishMoves DEF SamplePushes
  <2>3. CASE SamplePushes("sample", IF batch = NoPlot THEN "report" ELSE "batch",
                          "sample", MeasurementBody(timed))
    <3>1. ~Silence /\ timed.run = run
      BY <2>3, SilenceIsSilent DEF SamplePushes, Inside, DeliveryInvariant, RunsAreCurrent
    <3>2. MeasurementBody(timed).run = timed.run
      BY DEF MeasurementBody, Blank
    <3> QED
      BY <2>2, <2>3, <3>1, <3>2
  <2>4. CASE SamplePushes("batch", "report", "plot", MeasurementBody(batch))
    <3>1. ~Silence /\ batch.run = run
      BY <2>4, SilenceIsSilent DEF SamplePushes, Inside, DeliveryInvariant, RunsAreCurrent
    <3>2. MeasurementBody(batch).run = batch.run
      BY DEF MeasurementBody, Blank
    <3> QED
      BY <2>2, <2>4, <3>1, <3>2
  <2>5. CASE \/ SamplePushes("changedPush", "sample", "connection", rbody)
             \/ SamplePushes("failurePush", "error", "recording", rbody)
             \/ SamplePushes("error", "leave", "error", ErrorBody("recorder"))
    BY <2>2, <2>5
  <2> QED
    BY <1>4, <2>1, <2>3, <2>4, <2>5
       DEF CallbackStep, SampleEnter, SampleSubmit, SamplePlot, SampleApply, SampleApplied,
           SampleCopies, SampleReport, SampleLeave
<1>5. CASE PollStep
  <2>1. CASE UNCHANGED sink
    BY <2>1 DEF Moves, sink, queued, lease
  <2>2. ASSUME NEW at, NEW then, NEW kind, NEW body, PollPushes(at, then, kind, body),
               kind \notin {"sample", "plot"}
        PROVE  Moves
    BY <1>1, <2>2, PublishMoves DEF PollPushes
  <2> QED
    BY <1>5, <2>1, <2>2
       DEF PollStep, PollLoad, PollCopy, PollLock, PollApply, PollRecording, PollCheck, PollReport,
           PollWait, PollerVars
<1>6. CASE CopySnapshot \/ ClientStep \/ RecorderSettles \/ RecorderFails
  BY <1>6 DEF CopySnapshot, ClientStep, SessionBegins, Discover, Receive, FinishSession,
              ReceiverVars, RecorderSettles, RecorderFails, RecorderRest, Moves, sink, queued, lease
<1>7. CASE Take \/ WriteOut
  BY <1>7 DEF Take, Pop, WriteOut, Write, Moves, queued, lease
<1> QED
  BY <1>2, <1>3, <1>4, <1>5, <1>6, <1>7

\* What the receiver holds stays of the run: the run changes while it holds nothing and
\* the plot is empty.
LEMMA OperationsKeepRuns ==
  ASSUME SessionInvariant, RunsAreCurrent, Calls \/ ConnectStep \/ SilenceStep \/ RecordStep
  PROVE  RunsAreCurrent'
<1> USE DEF ControlVars, QuietVars, SinkVars, SinkRest, RecorderVars, receiver, sampling,
            publishing, history, shared
<1>1. UNCHANGED <<copy, timed, batch>> /\ (rpc' = rpc \/ (rpc' = "session" /\ ~Inside))
  <2>1. CASE Calls
    <3>1. CASE CallConnect
      BY <3>1 DEF CallConnect
    <3>2. CASE CallDisconnect
      BY <3>2 DEF CallDisconnect
    <3>3. CASE CallPause
      BY <3>3 DEF CallPause
    <3>4. CASE CallResume \/ CallStartRecording \/ CallStopRecording \/ CallBias
      BY <3>4 DEF CallResume, CallStartRecording, CallStopRecording, CallBias
    <3> QED
      BY <2>1, <3>1, <3>2, <3>3, <3>4 DEF Calls
  <2>2. CASE ConnectStep /\ ~CreateClient
    BY <2>2 DEF ConnectStep, RetainGeneration, BeginMeasurements, SpawnPoller,
                AbandonClient, FailConnection
  <2>3. CASE CreateClient
    BY <2>3 DEF CreateClient, SessionInvariant, Steps, Threads, At, Inside
  <2>4. CASE SilenceStep
    BY <2>4 DEF SilenceStep, AwaitCallback, RevokeMeasurements, PurgeMeasurements, HaltPoller,
                StopClient, JoinThreads, Reset, Settle
  <2>5. CASE RecordStep
    BY <2>5 DEF RecordStep, PauseRecorder, RequestPause, AwaitPaused, ResumeRecorder,
                RequestResume, RequestStop, AwaitStopped, RequestStart, PrepareFile,
                SpawnWriter, RearmReport
  <2> QED
    BY <2>1, <2>2, <2>3, <2>4, <2>5
<1>2. CASE CallConnect \/ Settle
  <2>1. Silence /\ plot = NoPlot /\ plot' = plot
    BY <1>2 DEF CallConnect, Settle, At, Silence, RunsAreCurrent
  <2>2. ~Inside
    BY <2>1, SilenceIsSilent
  <2> QED
    BY <1>1, <2>1, <2>2 DEF RunsAreCurrent, Inside
<1>3. CASE Reset
  BY <1>1, <1>3 DEF Reset, RunsAreCurrent, Inside
<1>4. CASE ~(CallConnect \/ Settle \/ Reset)
  <2>1. /\ UNCHANGED <<run, plot>> /\ cpc' # "settle"
        /\ conn'.state = "Disconnected" => conn.state = "Disconnected"
    <3> USE DEF SessionInvariant, SessionType
    <3>1. CASE Calls
      BY <1>4, <3>1 DEF Calls, Call, IdleNow, CallDisconnect, CallPause, CallResume,
                  CallStartRecording, CallStopRecording, CallBias
    <3>2. CASE ConnectStep
      BY <3>2 DEF ConnectStep, RetainGeneration, BeginMeasurements, CreateClient, SpawnPoller,
                  AbandonClient, FailConnection, Then
    <3>3. CASE SilenceStep
      BY <1>4, <3>3 DEF SilenceStep, AwaitCallback, RevokeMeasurements, PurgeMeasurements,
                  HaltPoller, StopClient, JoinThreads, Then
    <3>4. CASE RecordStep
      BY <3>4 DEF RecordStep, PauseRecorder, RequestPause, AwaitPaused, ResumeRecorder,
                  RequestResume, RequestStop, AwaitStopped, RequestStart, PrepareFile,
                  SpawnWriter, RearmReport, StopDone, Then
    <3> QED
      BY <3>1, <3>2, <3>3, <3>4
  <2> QED
    BY <1>1, <2>1 DEF RunsAreCurrent, Inside
<1> QED
  BY <1>2, <1>3, <1>4

LEMMA OthersKeepRuns ==
  ASSUME SessionInvariant, RunsAreCurrent,
         \/ CopySnapshot \/ PushSnapshot \/ ConfigurationStep \/ ClientStep \/ CallbackStep
         \/ PollStep \/ RecorderSettles \/ RecorderFails \/ Take \/ WriteOut
  PROVE  RunsAreCurrent'
<1>1. run' = run /\ cpc' = cpc /\ (conn'.state = "Disconnected" => conn.state = "Disconnected")
  BY OthersAreSteady, OthersAreOthers
<1>2. CASE CallbackStep
  <2>1. ~Silence \/ SampleEnter
    BY <1>2, SilenceIsSilent
       DEF CallbackStep, SampleSubmit, SamplePlot, SampleApply, SampleApplied, SampleCopies,
           SamplePushes, SampleReport, SampleLeave, Inside
  <2> USE DEF RunsAreCurrent, Inside, controller, publishing
  <2>2. CASE SampleEnter
    BY <1>1, <2>2 DEF SampleEnter
  <2>3. CASE SamplePlot
    BY <1>1, <2>1, <2>3 DEF SamplePlot, SampleEnter, Silence
  <2>4. CASE SampleLeave
    BY <1>1, <2>4 DEF SampleLeave
  <2>5. CASE CallbackStep /\ ~SampleEnter /\ ~SamplePlot /\ ~SampleLeave
    <3>1. /\ UNCHANGED <<timed, batch, plot, copy>> /\ Inside /\ Inside'
          /\ rpc' = "batch" => batch # NoPlot
      BY <2>5 DEF CallbackStep, SampleSubmit, SampleApply, SampleApplied, SampleCopies,
           SamplePushes, SampleReport, sampling
    <3> QED
      BY <1>1, <3>1
  <2> QED
    BY <1>2, <2>2, <2>3, <2>4, <2>5
<1>3. CASE ClientStep
  <2>1. /\ UNCHANGED <<timed, batch, plot, copy>> /\ ~Inside
        /\ rpc' # "batch" /\ (Inside' => rpc = "stream" /\ rpc' = "enter")
    BY <1>3 DEF ClientStep, SessionBegins, Discover, Receive, FinishSession, ReceiverVars,
                sampling, controller, publishing, Inside
  <2> QED
    BY <1>1, <2>1 DEF RunsAreCurrent, Inside
<1>4. CASE CopySnapshot
  <2>1. copy' = Snapshot(Head(todo)) /\ UNCHANGED <<timed, batch, plot, rpc>>
    BY <1>4 DEF CopySnapshot, receiver, sampling
  <2>2. ~IsMeasurement(copy')
    BY <2>1 DEF Snapshot, Event, IsMeasurement
  <2> QED
    BY <1>1, <2>1, <2>2 DEF RunsAreCurrent, Inside, IsMeasurement
<1>5. CASE PushSnapshot
  <2>1. copy' = NoEvent /\ UNCHANGED <<timed, batch, plot, rpc>>
    BY <1>5 DEF PushSnapshot, receiver, sampling
  <2>2. ~IsMeasurement(copy')
    BY <2>1 DEF NoEvent, Event, IsMeasurement
  <2> QED
    BY <1>1, <2>1, <2>2 DEF RunsAreCurrent, Inside, IsMeasurement
<1>6. CASE ConfigurationStep \/ PollStep \/ RecorderSettles \/ RecorderFails \/ Take \/ WriteOut
  <2>1. UNCHANGED <<timed, batch, plot, copy, rpc>>
    BY <1>6 DEF ConfigurationStep, PollStep, PollLoad, PollCopy, PollLock, PollApply, PollPushes,
         PollRecording, PollCheck, PollReport, PollWait, PollerVars, RecorderSettles,
         RecorderFails, RecorderRest, Take, WriteOut, Others, receiver, sampling, controller,
         publishing
  <2> QED
    BY <1>1, <2>1 DEF RunsAreCurrent, Inside
<1> QED
  BY <1>2, <1>3, <1>4, <1>5, <1>6

LEMMA DeliveryInvariantHolds == Spec => []DeliveryInvariant
<1>1. Init => DeliveryInvariant
  <2> SUFFICES ASSUME Init PROVE DeliveryInvariant
    OBVIOUS
  <2>1. epoch = 0 /\ leaseValid = FALSE /\ events = <<>> /\ held = NoEvent
    BY DEF Init, SinkInit
  <2>2. Fits(NoEvent)
    BY <2>1 DEF Fits, NoEvent, Event
  <2>3. PICK S : S = {}
    OBVIOUS
  <2>4. Contents
    <3>1. events \in Seq(S) /\ \A x \in S : Fits(x)
      BY <2>1, <2>3
    <3>2. epoch \in Nat /\ Fits(held)
      BY <2>1, <2>2
    <3> QED
      BY <3>1, <3>2 DEF Contents
  <2>5. RunsAreCurrent
    BY DEF Init, RunsAreCurrent, Inside, IsMeasurement, NoEvent, Event
  <2> QED
    BY <2>4, <2>5 DEF DeliveryInvariant
<1>2. SessionInvariant /\ DeliveryInvariant /\ [Next]_<<play, vars>> => DeliveryInvariant'
  <2> SUFFICES ASSUME SessionInvariant, DeliveryInvariant, [Next]_<<play, vars>>
               PROVE  DeliveryInvariant'
    OBVIOUS
  <2>1. CASE UNCHANGED <<play, vars>>
    BY <2>1 DEF vars, sink, queued, lease, shared, receiver, sampling, controller, publishing,
                history, DeliveryInvariant, Contents, Fits, Silence, IsMeasurement,
                RunsAreCurrent, Inside
  <2>2. CASE Next
    <3>1. Steady
      BY <2>2, CallsAreSteady, ConnectIsSteady, SilenceIsSteady, RecordIsSteady, OthersAreSteady
         DEF Next, ControlStep
    <3>2. Moves
      BY <2>2, OperationsMove, OthersMove DEF Next, ControlStep
    <3>3. RunsAreCurrent'
      BY <2>2, OperationsKeepRuns, OthersKeepRuns DEF Next, ControlStep, DeliveryInvariant
    <3>4. epoch \in Nat /\ Contents
      BY DEF DeliveryInvariant, Contents
    <3>5. epoch' \in Nat /\ \A x : Fits(x) => Fits(x)'
      <4>1. epoch' \in Nat
        BY <3>2, <3>4 DEF Moves, lease
      <4>2. ASSUME NEW x, Fits(x) PROVE Fits(x)'
        BY <3>1, <3>2, <3>4, <4>2, FitsStill DEF Moves
      <4> QED
        BY <4>1, <4>2
    <3>6. Fits(NoEvent)'
      BY <3>5 DEF Fits, NoEvent, Event, IsMeasurement
    <3>7. Contents'
      BY <3>2, <3>4, <3>5, <3>6, ContentsStay DEF Moves
    <3> QED
      BY <3>3, <3>7 DEF DeliveryInvariant
  <2> QED
    BY <2>1, <2>2
<1> QED
  BY <1>1, <1>2, SessionInvariantHolds, PTL DEF Spec

\* Pause and disconnect return into silence, and what comes out after a resume was
\* measured after it (README.md:20, session.cpp:396).
THEOREM NothingOldGetsOut == Spec => []NothingOldIsDelivered
<1>1. DeliveryInvariant => NothingOldIsDelivered
  <2> SUFFICES ASSUME DeliveryInvariant PROVE NothingOldIsDelivered
    OBVIOUS
  <2>1. \A e \in Range(events) \cup {held} : Fits(e)
    <3>1. PICK S : events \in Seq(S) /\ \A x \in S : Fits(x)
      BY DEF DeliveryInvariant, Contents
    <3>2. Range(events) \subseteq S
      BY <3>1, LenProperties DEF Range
    <3> QED
      BY <3>1, <3>2 DEF DeliveryInvariant, Contents
  <2> QED
    BY <2>1 DEF Fits, Deliverable, Silence, NothingOldIsDelivered, PausedIsSilent, NoReplay
<1> QED
  BY <1>1, DeliveryInvariantHolds, PTL
-----------------------------------------------------------------------------
(* Configurations before what is measured under them *)

\* There is a client, whose thread may be measuring under its configuration.
Served == client # NoClient

\* A measurement that can still be delivered.
Current(x) == IsMeasurement(x) /\ leaseValid /\ x.epoch = epoch

\* Whoever publishes another configuration than the one published has revoked what was
\* measured under that.
Revoked == pub \in {"purge", "begin"} \/ (pub = "push" /\ published # 0)

\* A configuration is not newer than the client's, and what can still be delivered is not
\* older than the one that has been written, nor than the one about to be published.
Timely(x) ==
  /\ x.kind = "configuration" =>
       /\ x.gen \in Nat /\ x.gen <= conn.gen /\ x.body.rev \in Nat
       /\ x.gen = conn.gen => published # 0 /\ (Served => x.body.rev <= client.rev)
  /\ Current(x) =>
       /\ x.body.rev \in Nat
       /\ shown[1] = conn.gen => shown[2] <= x.body.rev
       /\ Revoked => config <= x.body.rev

\* What may come before what.
Before(c, x) ==
  c.kind = "configuration" /\ c.gen = conn.gen /\ Current(x) => c.body.rev <= x.body.rev

\* The same of a queue and of the event that was before all of it.
Orderly(q, h) ==
  /\ Timely(h)
  /\ \A i \in 1..Len(q) : Timely(q[i]) /\ Before(h, q[i])
  /\ \A i, j \in 1..Len(q) : i < j => Before(q[i], q[j])

InTime == Orderly(events, held)

\* Whoever publishes a configuration holds the lock.
Locking ==
  \/ lock = "free" /\ pub = "none"
  \/ lock = "receiver" /\ pub # "none" /\ rpc = "applied"
  \/ lock = "poller" /\ pub # "none" /\ hpc = "locked"

\* No configuration is newer than the client's, which a callback does not outlive; a
\* connection begins without one.
Revisions ==
  /\ shown[1] \in Nat /\ shown[2] \in Nat /\ shown[1] <= conn.gen
  /\ published = 0 /\ conn.gen > 0 => shown[1] < conn.gen
  /\ Served /\ shown[1] = conn.gen => shown[2] <= client.rev
  /\ config \in Nat /\ (Served => config <= client.rev)
  /\ hpc \in {"lock", "locked"} => hcopy.rev <= client.rev
  /\ op = "connect" /\ cpc \in {"retain", "begin", "create"} => published = 0 /\ config = 0
  /\ pub \in {"revoke", "purge", "begin", "push"} => config # 0
  /\ rpc \in {"stream", "enter"} \/ Inside => client.rev # 0
  /\ Inside => timed.rev = client.rev
  /\ batch # NoPlot => batch.rev = timed.rev
  /\ copy.kind # "configuration"
  /\ conn.gen = 0 => conn.state = "Disconnected"

ConfigurationInvariant == Revisions /\ Locking /\ InTime

\* Before as a relation, which is what the lemmas about sequences want.
LEMMA BeforeIsARelation ==
  ASSUME NEW S
  PROVE  \E R : \A a, b \in S : <<a, b>> \in R <=> Before(a, b)
<1> DEFINE R == {p \in S \X S : Before(p[1], p[2])}
<1>1. ASSUME NEW a \in S, NEW b \in S PROVE <<a, b>> \in R <=> Before(a, b)
  OBVIOUS
<1> HIDE DEF R
<1> QED
  BY <1>1

\* What is taken out leaves the rest in order.
LEMMA KeepIsOrderly ==
  ASSUME Contents, InTime, NEW kept
  PROVE  Orderly(Keep(events, kept), held)
<1>1. PICK S : events \in Seq(S)
  BY DEF Contents
<1>2. PICK R : \A a, b \in S : <<a, b>> \in R <=> Before(a, b)
  BY BeforeIsARelation
<1>3. Len(events) \in Nat /\ \A i \in 1..Len(events) : events[i] \in S
  BY <1>1, LenProperties, ElementOfSeq
<1>4. InPairs(events, R)
  BY <1>2, <1>3 DEF InPairs, InTime, Orderly
<1>5. PICK k : k = Keep(events, kept)
  OBVIOUS
<1>6. k \in Seq(S) /\ InPairs(k, R)
  BY <1>1, <1>4, <1>5, KeepProperties, KeepPairs
<1>7. \A i \in 1..Len(k) : k[i] \in S
  BY <1>6, ElementOfSeq
<1>8. \A i, j \in 1..Len(k) : i < j => Before(k[i], k[j])
  BY <1>2, <1>6, <1>7 DEF InPairs
<1>9. \A i \in 1..Len(k) : \E j \in 1..Len(events) : k[i] = events[j]
  BY <1>1, <1>5, KeepProperties
<1>10. \A i \in 1..Len(k) : Timely(k[i]) /\ Before(held, k[i])
  BY <1>9 DEF InTime, Orderly
<1> QED
  BY <1>5, <1>8, <1>10 DEF InTime, Orderly

\* The first takes the place of the one that was written.
LEMMA PopIsOrderly ==
  ASSUME Contents, InTime, Pop
  PROVE  Orderly(events', held')
<1>1. PICK S : events \in Seq(S)
  BY DEF Contents
<1>2. events # <<>> /\ held' = Head(events) /\ events' = Tail(events)
  BY DEF Pop
<1>3. /\ Len(events) \in Nat /\ Len(events) > 0 /\ Len(events') = Len(events) - 1
      /\ held' = events[1] /\ \A i \in 1..Len(events') : events'[i] = events[i + 1]
  BY <1>1, <1>2, LenProperties, HeadTailProperties, EmptySeq
<1>4. Timely(held')
  BY <1>3 DEF InTime, Orderly
<1>5. ASSUME NEW i \in 1..Len(events') PROVE Timely(events'[i]) /\ Before(held', events'[i])
  <2>1. 1 \in 1..Len(events) /\ i + 1 \in 1..Len(events) /\ 1 < i + 1
    BY <1>3
  <2> QED
    BY <1>3, <2>1 DEF InTime, Orderly
<1>6. ASSUME NEW i \in 1..Len(events'), NEW j \in 1..Len(events'), i < j
      PROVE  Before(events'[i], events'[j])
  <2>1. i + 1 \in 1..Len(events) /\ j + 1 \in 1..Len(events) /\ i + 1 < j + 1
    BY <1>3, <1>6
  <2> QED
    BY <1>3, <2>1 DEF InTime, Orderly
<1> QED
  BY <1>4, <1>5, <1>6 DEF Orderly

\* What a push puts into the queue.
LEMMA PublishPushes ==
  ASSUME NEW kind, NEW gen, NEW body, Publish(kind, gen, body)
  PROVE  \/ UNCHANGED events
         \/ \E e : /\ Push(e)
                   /\ \A x \in {e, [e EXCEPT !.lost = dropped']} :
                        x.kind = kind /\ x.gen = conn.gen /\ x.body = body
<1>1. CASE UNCHANGED queued
  BY <1>1 DEF queued
<1>2. CASE gen = conn.gen /\ Enqueue(Event(kind, gen, body))
  <2> DEFINE plain == Event(kind, gen, body)
             e == IF IsMeasurement(plain) THEN [plain EXCEPT !.epoch = epoch] ELSE plain
  <2>1. UNCHANGED queued \/ Push(e)
    BY <1>2 DEF Enqueue
  <2>2. e = [kind |-> kind, gen |-> gen, body |-> body,
             epoch |-> IF kind \in {"sample", "plot"} THEN epoch ELSE 0, lost |-> 0]
    BY DEF Event, IsMeasurement
  <2> HIDE DEF e
  <2>3. PICK f : f = [e EXCEPT !.lost = dropped']
    OBVIOUS
  <2>4. e.kind = kind /\ e.gen = conn.gen /\ e.body = body
    BY <1>2, <2>2
  <2>5. f.kind = kind /\ f.gen = conn.gen /\ f.body = body
    BY <1>2, <2>2, <2>3
  <2> QED
    BY <2>1, <2>3, <2>4, <2>5 DEF queued
<1> QED
  BY <1>1, <1>2 DEF Publish

\* What is published comes after everything that has been: a measurement is under the
\* client's configuration, and a configuration replaces one only after a revocation.
LEMMA PublishIsOrderly ==
  ASSUME SessionType, Contents, InTime, NEW kind, NEW gen, NEW body,
         Publish(kind, gen, body),
         kind \in {"sample", "plot"} => Served /\ body.rev = client.rev,
         kind = "configuration" => body.rev = config /\ (published = 0 \/ Revoked)
  PROVE  /\ \A i \in 1..Len(events') :
              /\ \/ Timely(events'[i])
                 \/ events'[i].kind = kind /\ events'[i].gen = conn.gen /\ events'[i].body = body
              /\ Before(held, events'[i])
         /\ \A i, j \in 1..Len(events') : i < j => Before(events'[i], events'[j])
<1>1. CASE UNCHANGED events
  BY <1>1 DEF InTime, Orderly
<1>2. ASSUME NEW e, Push(e),
             \A x \in {e, [e EXCEPT !.lost = dropped']} :
               x.kind = kind /\ x.gen = conn.gen /\ x.body = body
      PROVE  /\ \A i \in 1..Len(events') :
                  /\ \/ Timely(events'[i])
                     \/ /\ events'[i].kind = kind /\ events'[i].gen = conn.gen
                        /\ events'[i].body = body
                  /\ Before(held, events'[i])
             /\ \A i, j \in 1..Len(events') : i < j => Before(events'[i], events'[j])
  <2>1. PICK f : f = [e EXCEPT !.lost = dropped']
    OBVIOUS
  <2>2. \A x \in {e, f} : x.kind = kind /\ x.gen = conn.gen /\ x.body = body
    BY <1>2, <2>1
  <2>3. PICK S : events \in Seq(S)
    BY DEF Contents
  <2>4. PICK T : T = {x \in S : Timely(x) /\ Before(held, x)}
    OBVIOUS
  <2>5. \A x \in T : Timely(x) /\ Before(held, x)
    BY <2>4
  <2>6. events \in Seq(T)
    <3>1. \A i \in 1..Len(events) : events[i] \in T
      BY <2>3, <2>4, ElementOfSeq DEF InTime, Orderly
    <3> QED
      BY <2>3, <3>1, SeqInside
  <2>7. PICK U : U = T \cup {e, f}
    OBVIOUS
  <2>8. PICK R : \A a, b \in U : <<a, b>> \in R <=> Before(a, b)
    BY BeforeIsARelation
  <2>9. InPairs(events, R)
    <3>1. \A i \in 1..Len(events) : events[i] \in U
      BY <2>6, <2>7, ElementOfSeq
    <3> QED
      BY <2>8, <3>1 DEF InPairs, InTime, Orderly
  <2>10. ASSUME NEW x, Timely(x), NEW y \in {e, f} PROVE Before(x, y)
    BY <2>2, <2>10 DEF Before, Timely, Current, IsMeasurement
  <2>11. \A x \in T, y \in {e, f} : <<x, y>> \in R
    BY <2>5, <2>7, <2>8, <2>10
  <2>12. \A y \in {e, f} : Before(held, y)
    BY <2>10 DEF InTime, Orderly
  <2>13. events' \in Seq(U) /\ InPairs(events', R)
    <3>1. CASE \E m \in 1..Len(events) :
                 SameSlot(events[m], e) /\ ~IsError(e) /\ events' = [events EXCEPT ![m] = e]
      <4>1. PICK m \in 1..Len(events) :
                 SameSlot(events[m], e) /\ ~IsError(e) /\ events' = [events EXCEPT ![m] = e]
        BY <3>1
      <4>2. events[m] \in T /\ Timely(events[m])
        BY <2>5, <2>6, ElementOfSeq
      <4>3. ASSUME NEW x \in T PROVE Before(e, x)
        <5>1. CASE kind = "configuration"
          <6>1. published # 0
            BY <2>2, <4>1, <4>2, <5>1 DEF Timely, SameSlot
          <6>2. Revoked /\ e.body.rev = config
            BY <2>2, <5>1, <6>1
          <6> QED
            BY <2>5, <6>2 DEF Before, Timely
        <5>2. CASE kind # "configuration"
          BY <2>2, <5>2 DEF Before
        <5> QED
          BY <5>1, <5>2
      <4>4. \A x \in T : <<x, e>> \in R /\ <<e, x>> \in R
        BY <2>7, <2>8, <2>11, <4>3
      <4>5. InPairs(events', R)
        BY <2>6, <2>9, <4>1, <4>4, ReplacePairs
      <4>6. events \in Seq(U) /\ e \in U
        BY <2>6, <2>7, SeqMonotonic
      <4> QED
        BY <4>1, <4>5, <4>6, ExceptSeq
    <3>2. CASE \E room \in Seq(T), new \in {e, f} :
                 /\ events' = Append(room, new)
                 /\ \A P : InPairs(events, P) => InPairs(room, P)
      <4>1. PICK room \in Seq(T), new \in {e, f} :
                 events' = Append(room, new) /\ InPairs(room, R)
        BY <2>9, <3>2
      <4>2. \A x \in T : <<x, new>> \in R
        BY <2>11
      <4>3. InPairs(events', R)
        BY <4>1, <4>2, AppendPairs
      <4>4. room \in Seq(U) /\ new \in U
        BY <2>7, SeqMonotonic
      <4> QED
        BY <4>1, <4>3, <4>4, AppendProperties
    <3> QED
      BY <1>2, <2>1, <2>6, <3>1, <3>2, PushForm
  <2>14. \A i \in 1..Len(events') : events'[i] \in U
    BY <2>13, ElementOfSeq
  <2>15. \A x \in U : Before(held, x)
    BY <2>5, <2>7, <2>12
  <2>16. \A x \in U : Timely(x) \/ (x.kind = kind /\ x.gen = conn.gen /\ x.body = body)
    BY <2>2, <2>5, <2>7
  <2>17. \A i, j \in 1..Len(events') : i < j => Before(events'[i], events'[j])
    BY <2>8, <2>13, <2>14 DEF InPairs
  <2> QED
    BY <2>14, <2>15, <2>16, <2>17
<1> QED
  BY <1>1, <1>2, PublishPushes

\* What being in time depends on, beside the queue.
Circumstances == <<conn.gen, published, client, lease, shown, config>>

\* Orderly stays orderly if that stays as it is.
LEMMA OrderlyStays ==
  ASSUME Orderly(events', held'), UNCHANGED Circumstances, Revoked' <=> Revoked
  PROVE  InTime'
<1>1. ASSUME NEW x, Timely(x) PROVE Timely(x)'
  BY <1>1 DEF Timely, Current, Served, Circumstances, lease
<1>2. ASSUME NEW c, NEW x, Before(c, x) PROVE Before(c, x)'
  BY <1>2 DEF Before, Current, Circumstances, lease
<1>3. PICK q, h : q = events' /\ h = held'
  OBVIOUS
<1>4. Orderly(q, h)
  BY <1>3
<1>5. Orderly(q, h)'
  BY <1>1, <1>2, <1>4 DEF Orderly
<1>6. Orderly(q, h)' => InTime'
  BY <1>3 DEF InTime, Orderly, Timely, Before, Current
<1> QED
  BY <1>5, <1>6

\* So it does if something is published in those circumstances.
LEMMA PublishKeepsTime ==
  ASSUME SessionType, Contents, InTime, Revisions, NEW kind, NEW gen, NEW body,
         Publish(kind, gen, body), UNCHANGED held,
         kind \in {"sample", "plot"} => Served /\ body.rev = client.rev,
         kind # "configuration",
         UNCHANGED Circumstances, Revoked' <=> Revoked
  PROVE  InTime'
<1>1. /\ \A i \in 1..Len(events') :
           /\ \/ Timely(events'[i])
              \/ events'[i].kind = kind /\ events'[i].gen = conn.gen /\ events'[i].body = body
           /\ Before(held, events'[i])
      /\ \A i, j \in 1..Len(events') : i < j => Before(events'[i], events'[j])
  BY PublishIsOrderly
<1>2. ASSUME NEW x, x.kind = kind, x.gen = conn.gen, x.body = body PROVE Timely(x)
  BY <1>2 DEF Timely, Current, IsMeasurement, Revisions, SessionType
<1>3. Timely(held)
  BY DEF InTime, Orderly
<1>4. Orderly(events', held')
  BY <1>1, <1>2, <1>3 DEF Orderly
<1> QED
  BY <1>4, OrderlyStays

\* A step that leaves the queue alone, while a connection, its client and its lease come
\* and go, and the client finds newer configurations.
Onward ==
  /\ UNCHANGED <<events, held, shown>>
  /\ conn'.gen \in Nat
  /\ conn'.gen = conn.gen \/ (conn'.gen = conn.gen + 1 /\ Silence)
  /\ conn'.gen = conn.gen =>
       /\ published' = published
       /\ Served' => client'.rev \in Nat /\ (client'.rev >= client.rev \/ published = 0)
       /\ Served' => Served \/ published = 0
  /\ \/ UNCHANGED lease
     \/ epoch' = epoch + 1
     \/ epoch' = epoch /\ ~leaseValid'
  /\ Revoked' => (Revoked /\ config' = config) \/ ~leaseValid' \/ epoch' = epoch + 1

\* What has been in time goes on being so.
LEMMA TimeGoesOn ==
  ASSUME SessionType, Contents, InTime, Onward
  PROVE  InTime'
<1> USE DEF Onward
<1>1. PICK S : events \in Seq(S) /\ \A x \in S : Fits(x)
  BY DEF Contents
<1>2. \A i \in 1..Len(events) : Fits(events[i])
  BY <1>1, ElementOfSeq
<1>3. epoch \in Nat /\ Fits(held)
  BY DEF Contents
<1>4. ASSUME NEW x, Fits(x), Current(x)'
      PROVE  Current(x) /\ conn'.gen = conn.gen
  <2>1. leaseValid' /\ x.epoch = epoch' /\ x.epoch <= epoch /\ IsMeasurement(x)
    BY <1>4 DEF Fits, Current, IsMeasurement
  <2>2. epoch' = epoch /\ leaseValid
    <3>1. \A n \in Nat : ~(n + 1 <= n)
      OBVIOUS
    <3>2. epoch' # epoch + 1
      BY <1>3, <2>1, <3>1
    <3>3. UNCHANGED lease
      BY <2>1, <3>2
    <3> QED
      BY <2>1, <3>3 DEF lease
  <2>3. Current(x)
    BY <2>1, <2>2 DEF Current
  <2>4. ~Silence
    BY <1>4, <2>3 DEF Fits, Current
  <2> QED
    BY <2>3, <2>4
<1>5. ASSUME NEW x, Fits(x), Timely(x) PROVE Timely(x)'
  <2>1. ASSUME x.kind = "configuration"
        PROVE  /\ x.gen \in Nat /\ x.gen <= conn'.gen /\ x.body.rev \in Nat
               /\ x.gen = conn'.gen => published' # 0 /\ (Served' => x.body.rev <= client'.rev)
    BY <1>5, <2>1 DEF Timely, SessionType
  <2>2. ASSUME Current(x)'
        PROVE  /\ x.body.rev \in Nat
               /\ shown'[1] = conn'.gen => shown'[2] <= x.body.rev
               /\ Revoked' => config' <= x.body.rev
    <3>1. Current(x) /\ conn'.gen = conn.gen
      BY <1>4, <1>5, <2>2
    <3>2. leaseValid' /\ x.epoch = epoch' /\ x.epoch = epoch
      BY <2>2, <3>1 DEF Current
    <3>3. epoch' # epoch + 1
      BY <1>3, <3>2
    <3> QED
      BY <1>5, <3>1, <3>2, <3>3 DEF Timely
  <2> QED
    BY <2>1, <2>2 DEF Timely
<1>6. ASSUME NEW c, NEW x, Fits(x), Before(c, x) PROVE Before(c, x)'
  <2>1. Current(x)' => Current(x) /\ conn'.gen = conn.gen
    BY <1>4, <1>6
  <2> QED
    BY <1>6, <2>1 DEF Before
<1>7. PICK q, h : q = events /\ h = held
  OBVIOUS
<1>8. Orderly(q, h) /\ Fits(h) /\ \A i \in 1..Len(q) : Fits(q[i])
  BY <1>2, <1>3, <1>7 DEF InTime
<1>9. Orderly(q, h)'
  BY <1>5, <1>6, <1>8 DEF Orderly
<1>10. Orderly(q, h)' => InTime'
  BY <1>7 DEF InTime, Orderly, Timely, Before, Current
<1> QED
  BY <1>9, <1>10

\* The operations begin: a connect in silence, and while nobody publishes.
LEMMA CallsGoOn ==
  ASSUME SessionInvariant, Locking, Calls
  PROVE  Onward
<1> USE DEF SessionInvariant, SessionType, Call, ControlVars, QuietVars, mutex, sdk, sink, queued,
            history, shared, Onward, Served, Revoked
<1>1. CASE CallConnect
  <2>1. conn' = [state |-> "Connecting", paused |-> FALSE, gen |-> conn.gen + 1]
    BY <1>1 DEF CallConnect
  <2>2. conn'.gen = conn.gen + 1 /\ conn'.gen \in Nat /\ conn'.gen # conn.gen
    BY <2>1
  <2>3. Silence /\ pub' = "none"
    BY <1>1 DEF CallConnect, Silence, Locking, Unlocked
  <2> QED
    BY <1>1, <2>2, <2>3 DEF CallConnect
<1>2. CASE CallDisconnect
  BY <1>2 DEF CallDisconnect
<1>3. CASE CallPause
  BY <1>3 DEF CallPause
<1>4. CASE CallResume
  BY <1>4 DEF CallResume
<1>5. CASE CallStartRecording
  BY <1>5 DEF CallStartRecording
<1>6. CASE CallStopRecording
  BY <1>6 DEF CallStopRecording
<1>7. CASE CallBias
  BY <1>7 DEF CallBias
<1> QED
  BY <1>1, <1>2, <1>3, <1>4, <1>5, <1>6, <1>7 DEF Calls

\* A client is created before anything is published.
LEMMA ConnectGoesOn ==
  ASSUME SessionInvariant, Locking, Revisions, ConnectStep, ~RetainGeneration
  PROVE  Onward
<1> USE DEF SessionInvariant, SessionType, Steps, Threads, At, Then, QuietVars, SinkVars,
            SinkRest, mutex, sdk, sink, queued, history, shared, Onward, Served, Revoked
<1>1. CASE BeginMeasurements
  <2>1. UNCHANGED <<events, held, conn, published, client, config, pub, shown>>
    BY <1>1 DEF BeginMeasurements
  <2>2. UNCHANGED lease \/ epoch' = epoch + 1 \/ (epoch' = epoch /\ ~leaseValid')
    BY <1>1 DEF BeginMeasurements, Begin, BeginFails, lease
  <2> QED
    BY <2>1, <2>2
<1>2. CASE CreateClient
  <2>1. published = 0 /\ UNCHANGED <<sink, conn, published, config, pub, shown>>
    BY <1>2 DEF CreateClient, Revisions
  <2>2. client' = client \/ client'.rev = 0
    BY <1>2 DEF CreateClient, NoClient
  <2> QED
    BY <2>1, <2>2
<1>3. CASE SpawnPoller
  BY <1>3 DEF SpawnPoller
<1>4. CASE AbandonClient
  BY <1>4 DEF AbandonClient
<1>5. CASE FailConnection
  BY <1>5 DEF FailConnection
<1> QED
  BY <1>1, <1>2, <1>3, <1>4, <1>5 DEF ConnectStep

\* A connection that is left forgets its configuration while nobody publishes.
LEMMA SilenceGoesOn ==
  ASSUME SessionInvariant, Locking, SilenceStep, ~PurgeMeasurements
  PROVE  Onward
<1> USE DEF SessionInvariant, SessionType, At, Then, ControlVars, QuietVars, SinkVars,
            SinkRest, mutex, sdk, sink, queued, history, shared, Onward, Served, Revoked
<1>1. CASE AwaitCallback
  BY <1>1 DEF AwaitCallback
<1>2. CASE RevokeMeasurements
  BY <1>2 DEF RevokeMeasurements, Revoke
<1>3. CASE HaltPoller \/ StopClient \/ JoinThreads
  BY <1>3 DEF HaltPoller, StopClient, JoinThreads
<1>4. CASE Reset
  BY <1>4 DEF Reset
<1>5. CASE Settle
  <2>1. pub = "none" /\ pub' = "none"
    BY <1>5 DEF Settle, Locking, Unlocked
  <2>2. conn'.gen = conn.gen
    BY <1>5 DEF Settle
  <2> QED
    BY <1>5, <2>1, <2>2 DEF Settle
<1> QED
  BY <1>1, <1>2, <1>3, <1>4, <1>5 DEF SilenceStep

LEMMA RecordGoesOn ==
  ASSUME SessionInvariant, RecordStep
  PROVE  Onward
<1>1. UNCHANGED <<sink, shared, mutex, sdk, history>>
  BY DEF RecordStep, PauseRecorder, RequestPause, AwaitPaused, ResumeRecorder, RequestResume,
         RequestStop, AwaitStopped, RequestStart, PrepareFile, SpawnWriter, RearmReport,
         ControlVars, RecorderVars
<1> QED
  BY <1>1 DEF SessionInvariant, SessionType, mutex, sdk, sink, queued, history, shared, Onward,
              Served, Revoked

\* The client's configuration is replaced by newer ones.
LEMMA ClientGoesOn ==
  ASSUME SessionInvariant, ClientStep
  PROVE  Onward
<1> USE DEF ReceiverVars, mutex, sink, queued, history, shared, Onward, Served, Revoked
<1>1. client.rev \in Nat /\ conn.gen \in Nat /\ Served
  BY DEF SessionInvariant, SessionType, Threads, ClientStep, SessionBegins, Discover, Receive,
         FinishSession, Served
<1>2. client'.rev \in Nat /\ client'.rev >= client.rev
  BY <1>1, SessionConstants
     DEF ClientStep, SessionBegins, Discover, Receive, FinishSession, Ends, SessionInvariant,
         SessionType
<1>3. UNCHANGED <<sink, conn, published, config, pub, shown>>
  BY DEF ClientStep, SessionBegins, Discover, Receive, FinishSession
<1> QED
  BY <1>1, <1>2, <1>3

\* A configuration is about to be published when the callback or the poll has taken it
\* over, and no measurement of before is revoked yet.
LEMMA CallbackKeepsTime ==
  ASSUME SessionInvariant, DeliveryInvariant, ConfigurationInvariant, CallbackStep
  PROVE  InTime'
<1>1. SessionType /\ Contents /\ InTime /\ Revisions
  BY DEF SessionInvariant, DeliveryInvariant, ConfigurationInvariant
<1>2. UNCHANGED <<lease, held, conn.gen, client, config, published, pub, shown>>
        \/ SampleApply \/ SampleApplied
  BY <1>1 DEF CallbackStep, SampleEnter, SampleSubmit, SamplePlot, SampleCopies, SamplePushes,
         SampleReport, SampleLeave, sink, shared, mutex, sdk, history
<1>3. CASE SampleApply
  <2>1. UNCHANGED <<events, held, conn, published, client, lease, shown>>
    BY <1>3 DEF SampleApply, sink, queued, sdk, history
  <2>2. \/ pub' \in {"revoke", "push", "done"} /\ (pub' = "push" => published = 0)
        \/ UNCHANGED <<pub, config>>
    BY <1>3 DEF SampleApply, PublishConfiguration, mutex
  <2>3. Onward
    BY <1>1, <2>1, <2>2 DEF Onward, Served, Revoked, SessionType
  <2> QED
    BY <1>1, <2>3, TimeGoesOn
<1>4. CASE SampleApplied
  <2>1. /\ UNCHANGED <<events, held, published, client, lease, shown, config>> /\ pub' = "none"
        /\ conn'.gen = conn.gen
    BY <1>1, <1>4 DEF SampleApplied, sink, queued, sdk, history, SessionType
  <2>2. Onward
    BY <1>1, <2>1 DEF Onward, Served, Revoked, SessionType
  <2> QED
    BY <1>1, <2>2, TimeGoesOn
<1>5. CASE ~SampleApply /\ ~SampleApplied
  <2>1. UNCHANGED Circumstances /\ UNCHANGED held /\ (Revoked' <=> Revoked)
    BY <1>2, <1>5 DEF Circumstances, Revoked
  <2>2. CASE UNCHANGED events
    <3>1. Onward
      BY <1>1, <1>2, <1>5, <2>2 DEF Onward, Served, Revoked, SessionType
    <3> QED
      BY <1>1, <3>1, TimeGoesOn
  <2>3. ASSUME NEW at, NEW then, NEW kind, NEW body, SamplePushes(at, then, kind, body),
               kind # "configuration",
               kind \in {"sample", "plot"} => Served /\ body.rev = client.rev
        PROVE  InTime'
    BY <1>1, <2>1, <2>3, PublishKeepsTime DEF SamplePushes
  <2>4. Inside => Served
    BY DEF SessionInvariant, Threads, Inside, Served
  <2>5. CASE SamplePushes("sample", IF batch = NoPlot THEN "report" ELSE "batch",
                          "sample", MeasurementBody(timed))
    <3>1. Served /\ timed.rev = client.rev
      BY <1>1, <2>4, <2>5 DEF SamplePushes, Inside, Revisions
    <3>2. MeasurementBody(timed).rev = timed.rev
      BY DEF MeasurementBody, Blank
    <3> QED
      BY <2>3, <2>5, <3>1, <3>2
  <2>6. CASE SamplePushes("batch", "report", "plot", MeasurementBody(batch))
    <3>1. Served /\ timed.rev = client.rev
      BY <1>1, <2>4, <2>6 DEF SamplePushes, Inside, Revisions
    <3>2. batch.rev = timed.rev
      BY <1>1, <2>6 DEF SamplePushes, DeliveryInvariant, RunsAreCurrent, Revisions
    <3>3. MeasurementBody(batch).rev = batch.rev
      BY DEF MeasurementBody, Blank
    <3> QED
      BY <2>3, <2>6, <3>1, <3>2, <3>3
  <2>7. CASE \/ SamplePushes("changedPush", "sample", "connection", rbody)
             \/ SamplePushes("failurePush", "error", "recording", rbody)
             \/ SamplePushes("error", "leave", "error", ErrorBody("recorder"))
    BY <2>3, <2>7
  <2>8. CASE UNCHANGED sink
    BY <2>2, <2>8 DEF sink, queued
  <2> QED
    BY <1>5, <2>5, <2>6, <2>7, <2>8
       DEF CallbackStep, SampleEnter, SampleSubmit, SamplePlot, SampleCopies, SampleReport,
           SampleLeave
<1> QED
  BY <1>3, <1>4, <1>5

LEMMA PollKeepsTime ==
  ASSUME SessionInvariant, DeliveryInvariant, ConfigurationInvariant, PollStep
  PROVE  InTime'
<1>1. SessionType /\ Contents /\ InTime /\ Revisions
  BY DEF SessionInvariant, DeliveryInvariant, ConfigurationInvariant
<1>2. CASE PollLock
  <2>1. UNCHANGED <<events, held, conn, published, client, lease, shown>>
    BY <1>2 DEF PollLock, sink, queued, sdk, history
  <2>2. \/ pub' \in {"revoke", "push", "done"} /\ (pub' = "push" => published = 0)
        \/ UNCHANGED <<pub, config>>
    BY <1>2 DEF PollLock, PublishConfiguration, mutex
  <2>3. Onward
    BY <1>1, <2>1, <2>2 DEF Onward, Served, Revoked, SessionType
  <2> QED
    BY <1>1, <2>3, TimeGoesOn
<1>3. CASE PollApply
  <2>1. /\ UNCHANGED <<events, held, published, client, lease, shown, config>> /\ pub' = "none"
        /\ conn'.gen = conn.gen
    BY <1>1, <1>3 DEF PollApply, sink, queued, sdk, history, SessionType
  <2>2. Onward
    BY <1>1, <2>1 DEF Onward, Served, Revoked, SessionType
  <2> QED
    BY <1>1, <2>2, TimeGoesOn
<1>4. ASSUME NEW at, NEW then, NEW kind, NEW body, PollPushes(at, then, kind, body),
             kind \notin {"configuration", "sample", "plot"}
      PROVE  InTime'
  <2>1. UNCHANGED Circumstances /\ UNCHANGED held /\ (Revoked' <=> Revoked)
    BY <1>4 DEF PollPushes, shared, mutex, sdk, Circumstances, Revoked
  <2> QED
    BY <1>1, <1>4, <2>1, PublishKeepsTime DEF PollPushes
<1>5. CASE UNCHANGED <<sink, conn, published, client, config, pub, shown>>
  <2>1. Onward
    BY <1>1, <1>5 DEF Onward, Served, Revoked, SessionType, sink, queued
  <2> QED
    BY <1>1, <2>1, TimeGoesOn
<1> QED
  BY <1>2, <1>3, <1>4, <1>5
     DEF PollStep, PollLoad, PollCopy, PollRecording, PollCheck, PollReport, PollWait, PollerVars,
         shared, mutex, sdk, history

\* What is published over an older configuration comes before nothing older than itself.
LEMMA ConfigurationKeepsTime ==
  ASSUME SessionInvariant, DeliveryInvariant, ConfigurationInvariant, ConfigurationStep
  PROVE  InTime'
<1>1. SessionType /\ Contents /\ InTime /\ Revisions
  BY DEF SessionInvariant, DeliveryInvariant, ConfigurationInvariant
<1>2. UNCHANGED <<held, conn, client, config, shown>>
  BY DEF ConfigurationStep, PubRevoke, PubPurge, PubBegin, PubPush, shared, sdk
<1>3. CASE PubRevoke \/ PubBegin
  <2>1. /\ UNCHANGED <<events, published>>
        /\ \/ epoch' = epoch /\ ~leaseValid'
           \/ epoch' = epoch + 1
           \/ UNCHANGED lease /\ pub' = "done"
    BY <1>3 DEF PubRevoke, PubBegin, Revoke, Begin, BeginFails, queued, shared, lease
  <2>2. Onward
    BY <1>1, <1>2, <2>1 DEF Onward, Served, Revoked, SessionType
  <2> QED
    BY <1>1, <2>2, TimeGoesOn
<1>4. CASE PubPurge
  <2>1. UNCHANGED Circumstances /\ (Revoked' <=> Revoked)
    BY <1>2, <1>4 DEF PubPurge, shared, Circumstances, Revoked
  <2>2. \E kept : events' = Keep(events, kept)
    BY <1>4 DEF PubPurge, Purge
  <2>3. Orderly(events', held')
    BY <1>1, <1>2, <2>2, KeepIsOrderly
  <2> QED
    BY <2>1, <2>3, OrderlyStays
<1>5. CASE PubPush
  <2>1. PICK body : body = ConfigurationBody(config)
    OBVIOUS
  <2>2. body.rev = config
    BY <2>1 DEF ConfigurationBody, Blank
  <2>3. /\ Publish("configuration", conn.gen, body)
        /\ UNCHANGED lease /\ published' = config /\ config # 0
        /\ ~Revoked' /\ (published = 0 \/ Revoked)
    BY <1>1, <1>5, <2>1 DEF PubPush, Revisions, Revoked
  <2>4. /\ \A i \in 1..Len(events') :
             /\ \/ Timely(events'[i])
                \/ /\ events'[i].kind = "configuration" /\ events'[i].gen = conn.gen
                   /\ events'[i].body = body
             /\ Before(held, events'[i])
        /\ \A i, j \in 1..Len(events') : i < j => Before(events'[i], events'[j])
    BY <1>1, <2>2, <2>3, PublishIsOrderly
  <2>5. ASSUME NEW x, Timely(x) PROVE Timely(x)'
    BY <1>2, <2>3, <2>5 DEF Timely, Current, Served, lease
  <2>6. ASSUME NEW x, x.kind = "configuration", x.gen = conn.gen, x.body = body
        PROVE  Timely(x)'
    BY <1>1, <1>2, <2>2, <2>3, <2>6
       DEF Timely, Current, IsMeasurement, Served, Revisions, SessionType
  <2>7. ASSUME NEW c, NEW x, Before(c, x) PROVE Before(c, x)'
    BY <1>2, <2>3, <2>7 DEF Before, Current, lease
  <2>8. PICK q, h : q = events' /\ h = held'
    OBVIOUS
  <2>9. /\ Timely(h)'
        /\ \A i \in 1..Len(q) : Timely(q[i])' /\ Before(h, q[i])'
        /\ \A i, j \in 1..Len(q) : i < j => Before(q[i], q[j])'
    <3>1. h = held /\ Timely(h)
      BY <1>1, <1>2, <2>8 DEF InTime, Orderly
    <3> QED
      BY <2>4, <2>5, <2>6, <2>7, <2>8, <3>1
  <2>10. Orderly(q, h)'
    BY <2>9 DEF Orderly
  <2>11. Orderly(q, h)' => InTime'
    BY <2>8 DEF InTime, Orderly, Timely, Before, Current
  <2> QED
    BY <2>10, <2>11
<1> QED
  BY <1>3, <1>4, <1>5 DEF ConfigurationStep

LEMMA OperationsKeepTime ==
  ASSUME SessionInvariant, DeliveryInvariant, ConfigurationInvariant,
         Calls \/ ConnectStep \/ SilenceStep \/ RecordStep
  PROVE  InTime'
<1>1. SessionType /\ Contents /\ InTime /\ Revisions /\ Locking
  BY DEF SessionInvariant, DeliveryInvariant, ConfigurationInvariant
<1>2. CASE RetainGeneration \/ PurgeMeasurements
  <2>1. UNCHANGED Circumstances /\ UNCHANGED held /\ (Revoked' <=> Revoked)
    BY <1>2 DEF RetainGeneration, PurgeMeasurements, SinkRest, SinkVars, QuietVars, shared, mutex,
                sdk, history, Circumstances, Revoked
  <2>2. UNCHANGED events \/ \E kept : events' = Keep(events, kept)
    BY <1>2 DEF RetainGeneration, Retain, PurgeMeasurements, Purge
  <2>3. Orderly(events', held')
    <3>1. CASE UNCHANGED events
      BY <1>1, <2>1, <3>1 DEF InTime, Orderly
    <3> QED
      BY <1>1, <2>1, <2>2, <3>1, KeepIsOrderly
  <2> QED
    BY <2>1, <2>3, OrderlyStays
<1>3. CASE ~(RetainGeneration \/ PurgeMeasurements)
  <2>1. Onward
    BY <1>1, <1>3, CallsGoOn, ConnectGoesOn, SilenceGoesOn, RecordGoesOn
  <2> QED
    BY <1>1, <2>1, TimeGoesOn
<1> QED
  BY <1>2, <1>3

\* A configuration that is written is not newer than what comes after it.
LEMMA OutputKeepsTime ==
  ASSUME SessionInvariant, DeliveryInvariant, ConfigurationInvariant, WriteOut
  PROVE  InTime'
<1>1. SessionType /\ Contents /\ InTime /\ Revisions
  BY DEF SessionInvariant, DeliveryInvariant, ConfigurationInvariant
<1>2. /\ held' = NoEvent
      /\ UNCHANGED <<events, lease, conn, published, client, config, pub>>
  BY DEF WriteOut, Write, Others, queued, shared, mutex, sdk
<1>3. \/ shown' = shown
      \/ /\ held.kind = "configuration" /\ held.gen = shown[1]
         /\ shown' = <<held.gen, Max({shown[2], held.body.rev})>>
      \/ held.kind = "configuration" /\ shown' = <<held.gen, held.body.rev>>
  BY DEF WriteOut
<1>4. Timely(held)
  BY <1>1 DEF InTime, Orderly
<1>5. held.kind = "configuration" => held.body.rev \in Nat
  BY <1>4 DEF Timely
<1>6. shown[2] \in Nat
  BY <1>1 DEF Revisions
<1>7. ASSUME NEW x, Timely(x), Before(held, x) PROVE Timely(x)'
  <2>1. ASSUME Current(x), shown'[1] = conn.gen PROVE shown'[2] <= x.body.rev
    <3>1. CASE shown' = shown
      BY <1>7, <2>1, <3>1 DEF Timely
    <3>2. CASE /\ held.kind = "configuration" /\ held.gen = shown[1]
               /\ shown' = <<held.gen, Max({shown[2], held.body.rev})>>
      <4>1. shown[2] <= x.body.rev /\ held.body.rev <= x.body.rev
        BY <1>7, <2>1, <3>2 DEF Timely, Before
      <4>2. Max({shown[2], held.body.rev}) \in {shown[2], held.body.rev}
        BY <1>5, <1>6, <3>2, MaxOfTwo
      <4> QED
        BY <3>2, <4>1, <4>2
    <3>3. CASE held.kind = "configuration" /\ shown' = <<held.gen, held.body.rev>>
      BY <1>7, <2>1, <3>3 DEF Before
    <3> QED
      BY <1>3, <3>1, <3>2, <3>3
  <2>2. Current(x)' <=> Current(x)
    BY <1>2 DEF Current, IsMeasurement, lease
  <2>3. Revoked' <=> Revoked
    BY <1>2 DEF Revoked
  <2>4. ASSUME x.kind = "configuration"
        PROVE  /\ x.gen \in Nat /\ x.gen <= conn'.gen /\ x.body.rev \in Nat
               /\ x.gen = conn'.gen => published' # 0 /\ (Served' => x.body.rev <= client'.rev)
    BY <1>2, <1>7, <2>4 DEF Timely, Served
  <2>5. ASSUME Current(x)'
        PROVE  /\ x.body.rev \in Nat
               /\ shown'[1] = conn'.gen => shown'[2] <= x.body.rev
               /\ Revoked' => config' <= x.body.rev
    BY <1>2, <1>7, <2>1, <2>2, <2>3, <2>5 DEF Timely
  <2> QED
    BY <2>4, <2>5 DEF Timely
<1>8. ASSUME NEW c, NEW x, Before(c, x) PROVE Before(c, x)'
  BY <1>2, <1>8 DEF Before, Current, lease
<1>9. \A x : Timely(NoEvent)' /\ Before(NoEvent, x)'
  BY DEF Timely, Before, Current, IsMeasurement, NoEvent, Event
<1>10. PICK q : q = events
  OBVIOUS
<1>11. /\ \A i \in 1..Len(q) : Timely(q[i]) /\ Before(held, q[i])
       /\ \A i, j \in 1..Len(q) : i < j => Before(q[i], q[j])
  BY <1>1, <1>10 DEF InTime, Orderly
<1>12. /\ \A i \in 1..Len(q) : Timely(q[i])'
       /\ \A i, j \in 1..Len(q) : i < j => Before(q[i], q[j])'
  BY <1>7, <1>8, <1>11
<1>13. Orderly(q, NoEvent)'
  BY <1>9, <1>12 DEF Orderly
<1>14. Orderly(q, NoEvent)' => InTime'
  BY <1>2, <1>10 DEF InTime, Orderly, Timely, Before, Current
<1> QED
  BY <1>13, <1>14

LEMMA OthersKeepTime ==
  ASSUME SessionInvariant, DeliveryInvariant, ConfigurationInvariant,
         CopySnapshot \/ PushSnapshot \/ RecorderSettles \/ RecorderFails \/ Take
  PROVE  InTime'
<1>1. SessionType /\ Contents /\ InTime /\ Revisions
  BY DEF SessionInvariant, DeliveryInvariant, ConfigurationInvariant
<1>2. UNCHANGED Circumstances /\ (Revoked' <=> Revoked)
  BY DEF CopySnapshot, PushSnapshot, RecorderSettles, RecorderFails, RecorderRest, Take, Pop,
         Others, sink, shared, mutex, sdk, history, Circumstances, Revoked
<1>3. CASE CopySnapshot \/ RecorderSettles \/ RecorderFails
  <2>1. Orderly(events', held')
    BY <1>1, <1>3 DEF CopySnapshot, RecorderSettles, RecorderFails, RecorderRest, sink, queued,
                      InTime, Orderly
  <2> QED
    BY <1>2, <2>1, OrderlyStays
<1>4. CASE PushSnapshot
  <2>1. Publish(copy.kind, copy.gen, copy.body) /\ UNCHANGED held
    BY <1>4 DEF PushSnapshot
  <2>2. copy.kind \notin {"configuration", "sample", "plot"}
    BY <1>1 DEF DeliveryInvariant, RunsAreCurrent, IsMeasurement, Revisions
  <2> QED
    BY <1>1, <1>2, <2>1, <2>2, PublishKeepsTime
<1>5. CASE Take
  <2>1. Orderly(events', held')
    BY <1>1, <1>5, PopIsOrderly DEF Take
  <2> QED
    BY <1>2, <2>1, OrderlyStays
<1> QED
  BY <1>3, <1>4, <1>5

\* A step that touches none of the revisions, nor who works with them.
Untouched == <<shown, conn.gen, published, client, config, pub, lock, hpc, hcopy, rpc, timed,
               batch, copy>>

LEMMA UntouchedKeepsRevisions ==
  ASSUME Revisions, Locking, UNCHANGED Untouched,
         conn.gen = 0 => conn'.state = "Disconnected",
         op' = "connect" /\ cpc' \in {"retain", "begin", "create"} =>
           op = "connect" /\ cpc \in {"retain", "begin", "create"}
  PROVE  Revisions' /\ Locking'
BY DEF Revisions, Locking, Untouched, Served, Inside

LEMMA CallsKeepRevisions ==
  ASSUME SessionInvariant, Revisions, Locking, Calls
  PROVE  Revisions' /\ Locking'
<1>1. CASE CallConnect
  <2>1. /\ conn' = [state |-> "Connecting", paused |-> FALSE, gen |-> conn.gen + 1]
        /\ config' = 0 /\ published' = 0 /\ conn.state = "Disconnected"
        /\ UNCHANGED <<shown, client, pub, lock, hpc, hcopy, rpc, timed, batch, copy>>
    BY <1>1 DEF CallConnect, mutex, sdk, receiver, sampling, poller, publishing
  <2>2. conn'.gen = conn.gen + 1 /\ conn.gen \in Nat
    BY <2>1 DEF SessionInvariant, SessionType
  <2>3. client = NoClient /\ ~Inside /\ rpc = "off" /\ hpc = "off" /\ pub = "none"
    BY <2>1 DEF SessionInvariant, Threads, Inside, Locking
  <2>4. Locking'
    BY <2>1, <2>3 DEF Locking
  <2>5. ~Inside' /\ ~Served'
    BY <2>1, <2>3 DEF Inside, Served
  <2>6. shown'[1] < conn'.gen /\ shown'[1] <= conn'.gen
    BY <2>1, <2>2 DEF Revisions
  <2> QED
    BY <2>1, <2>2, <2>3, <2>4, <2>5, <2>6 DEF Revisions
<1>2. CASE CallDisconnect
  <2>1. /\ UNCHANGED Untouched /\ conn'.state = "Disconnecting"
        /\ conn.state # "Disconnected" /\ op' = "disconnect"
    BY <1>2 DEF CallDisconnect, Call, QuietVars, mutex, sdk, receiver, sampling, poller,
                history, Untouched, SessionInvariant, SessionType
  <2> QED
    BY <2>1, UntouchedKeepsRevisions DEF Revisions
<1>3. CASE CallPause
  <2>1. UNCHANGED Untouched /\ UNCHANGED conn /\ op' = "pause"
    BY <1>3 DEF CallPause, Call, QuietVars, mutex, sdk, receiver, sampling, poller, history,
                Untouched
  <2> QED
    BY <2>1, UntouchedKeepsRevisions DEF Revisions
<1>4. CASE CallResume \/ CallStartRecording \/ CallStopRecording \/ CallBias
  <2>1. UNCHANGED Untouched /\ UNCHANGED conn /\ op' # "connect"
    BY <1>4 DEF CallResume, CallStartRecording, CallStopRecording, CallBias, Call, ControlVars,
                shared, mutex, sdk, receiver, sampling, poller, history, Untouched
  <2> QED
    BY <2>1, UntouchedKeepsRevisions DEF Revisions
<1> QED
  BY <1>1, <1>2, <1>3, <1>4 DEF Calls

LEMMA ConnectKeepsRevisions ==
  ASSUME SessionInvariant, Revisions, Locking, ConnectStep
  PROVE  Revisions' /\ Locking'
<1>1. CASE CreateClient
  <2>1. /\ op = "connect" /\ published = 0 /\ config = 0 /\ rpc = "off" /\ hpc = "off"
        /\ conn.state # "Disconnected"
    BY <1>1 DEF CreateClient, At, SessionInvariant, Steps, Threads, Revisions
  <2>2. conn.gen > 0 /\ shown[1] < conn.gen /\ shown[1] # conn.gen
    BY <2>1 DEF Revisions, SessionInvariant, SessionType
  <2>3. /\ UNCHANGED <<shown, conn, published, config, pub, lock, hpc, hcopy, timed, batch, copy>>
        /\ op' = op /\ cpc' \in {"spawn", "fail"}
        /\ rpc' \in {"session", rpc} /\ (client' = client \/ client'.rev = 0)
    BY <1>1 DEF CreateClient, shared, mutex, sampling, poller, publishing, history, sdk, NoClient
  <2>4. pub = "none" /\ lock = "free" /\ ~Inside /\ ~Inside'
    BY <2>1, <2>3 DEF Locking, Inside
  <2>5. Locking'
    BY <2>3, <2>4 DEF Locking
  <2> QED
    BY <2>1, <2>2, <2>3, <2>4, <2>5 DEF Revisions, Served
<1>2. CASE AbandonClient
  <2>1. rpc = "off" /\ hpc = "off"
    BY <1>2 DEF AbandonClient, At, SessionInvariant, Threads
  <2>2. /\ UNCHANGED <<shown, conn, published, config, pub, lock, hpc, hcopy, rpc, timed, batch,
                       copy, op>>
        /\ cpc' = "fail" /\ client' = NoClient
    BY <1>2 DEF AbandonClient, shared, mutex, receiver, sampling, poller, publishing, history
  <2> QED
    BY <2>1, <2>2 DEF Revisions, Served, Locking, Inside
<1>3. CASE SpawnPoller
  <2>1. hpc = "off"
    BY <1>3 DEF SpawnPoller, At, SessionInvariant, Threads
  <2>2. /\ UNCHANGED <<shown, conn, published, config, client, pub, lock, hcopy, rpc, timed, batch,
                       copy, op>>
        /\ cpc' \in {"idle", "abandon"} /\ hpc' \in {"load", hpc}
    BY <1>3 DEF SpawnPoller, shared, mutex, receiver, sampling, publishing, history
  <2> QED
    BY <2>1, <2>2 DEF Revisions, Served, Locking, Inside
<1>4. CASE FailConnection
  <2>1. UNCHANGED Untouched /\ cpc' = "idle" /\ conn.state # "Disconnected"
    BY <1>4 DEF FailConnection, At, Then, QuietVars, mutex, sdk, receiver, sampling, poller,
                history, Untouched, SessionInvariant, SessionType, Threads
  <2> QED
    BY <2>1, UntouchedKeepsRevisions DEF Revisions
<1>5. CASE RetainGeneration \/ BeginMeasurements
  <2>1. /\ UNCHANGED Untouched /\ UNCHANGED <<conn, op>> /\ cpc \in {"retain", "begin"}
        /\ op # "connect" => cpc' \notin {"retain", "begin", "create"} \/ op' # "connect"
    BY <1>5 DEF RetainGeneration, BeginMeasurements, At, Then, SinkVars, SinkRest, QuietVars,
                shared, mutex, sdk, receiver, sampling, poller, publishing, history, Untouched
  <2> QED
    BY <2>1, UntouchedKeepsRevisions DEF Revisions
<1> QED
  BY <1>1, <1>2, <1>3, <1>4, <1>5 DEF ConnectStep

LEMMA SilenceKeepsRevisions ==
  ASSUME SessionInvariant, Revisions, Locking, SilenceStep
  PROVE  Revisions' /\ Locking'
<1>1. CASE Reset
  <2>1. op = "disconnect" => rpc = "off" /\ hpc = "off"
    BY <1>1 DEF Reset, At, SessionInvariant, Threads
  <2>2. /\ UNCHANGED <<shown, conn, published, config, pub, lock, hpc, hcopy, rpc, timed, batch,
                       copy, op>>
        /\ cpc' = "settle" /\ (client' = client \/ (op = "disconnect" /\ client' = NoClient))
    BY <1>1 DEF Reset, shared, mutex, receiver, sampling, poller, publishing, history
  <2> QED
    BY <2>1, <2>2 DEF Revisions, Served, Locking, Inside
<1>2. CASE Settle
  <2>1. /\ UNCHANGED <<shown, published, client, pub, lock, hpc, hcopy, rpc, timed, batch, copy>>
        /\ cpc' = "idle" /\ config' \in {0, config} /\ pub = "none"
        /\ conn'.gen = conn.gen /\ conn'.state \in {conn.state, "Disconnected"}
    BY <1>2 DEF Settle, Then, mutex, sdk, receiver, sampling, poller, Unlocked, Locking,
                SessionInvariant, SessionType
  <2> QED
    BY <2>1 DEF Revisions, Served, Locking, Inside, SessionInvariant, SessionType
<1>3. CASE SilenceStep /\ ~Reset /\ ~Settle
  <2>1. UNCHANGED Untouched /\ UNCHANGED conn /\ cpc' \notin {"retain", "begin", "create"}
    BY <1>3 DEF SilenceStep, AwaitCallback, RevokeMeasurements, PurgeMeasurements, HaltPoller,
                StopClient, JoinThreads, At, Then, ControlVars, SinkVars, SinkRest, QuietVars,
                shared, mutex, sdk, receiver, sampling, poller, publishing, history, Untouched
  <2> QED
    BY <2>1, UntouchedKeepsRevisions DEF Revisions
<1> QED
  BY <1>1, <1>2, <1>3

LEMMA RecordKeepsRevisions ==
  ASSUME SessionInvariant, Revisions, Locking, RecordStep
  PROVE  Revisions' /\ Locking'
<1>1. UNCHANGED Untouched /\ UNCHANGED conn
  BY DEF RecordStep, PauseRecorder, RequestPause, AwaitPaused, ResumeRecorder, RequestResume,
         RequestStop, AwaitStopped, RequestStart, PrepareFile, SpawnWriter, RearmReport,
         ControlVars, RecorderVars, shared, mutex, sdk, receiver, sampling, poller, publishing,
         history, Untouched
<1>2. cpc' \notin {"retain", "begin", "create"}
  BY DEF RecordStep, PauseRecorder, RequestPause, AwaitPaused, ResumeRecorder, RequestResume,
         RequestStop, AwaitStopped, RequestStart, PrepareFile, SpawnWriter, RearmReport, StopDone,
         Then
<1> QED
  BY <1>1, <1>2, UntouchedKeepsRevisions DEF Revisions

LEMMA ClientKeepsRevisions ==
  ASSUME SessionInvariant, Revisions, Locking, ClientStep
  PROVE  Revisions' /\ Locking'
<1>1. rpc \in {"session", "discover", "stream", "exit"} /\ rpc' \in {"session", "discover", "stream",
        "enter", "exit", "off"}
  BY DEF ClientStep, SessionBegins, Discover, Receive, FinishSession
<1>2. Served /\ client.rev \in Nat /\ shown[2] \in Nat /\ hcopy.rev \in Nat
  BY <1>1 DEF SessionInvariant, SessionType, Threads, Served, Revisions
<1>3. /\ client'.rev \in Nat /\ client'.rev >= client.rev
      /\ rpc' \in {"stream", "enter"} => client'.rev # 0
  BY <1>2, SessionConstants
     DEF ClientStep, SessionBegins, Discover, Receive, FinishSession, Ends, SessionInvariant,
         SessionType, Revisions
<1>4. UNCHANGED <<shown, conn, published, config, pub, lock, hpc, hcopy, timed, batch, copy, op,
                  cpc>>
  BY DEF ClientStep, SessionBegins, Discover, Receive, FinishSession, ReceiverVars, shared, mutex,
         sampling, poller, controller, publishing, history
<1>5. Locking'
  BY <1>1, <1>4 DEF Locking
<1>6. ~Inside'
  BY <1>1 DEF Inside
<1>7. /\ Served' /\ shown'[1] = conn'.gen => shown'[2] <= client'.rev
      /\ Served' => config' <= client'.rev
      /\ hpc' \in {"lock", "locked"} => hcopy'.rev <= client'.rev
  BY <1>2, <1>3, <1>4 DEF Revisions
<1> QED
  BY <1>3, <1>4, <1>5, <1>6, <1>7 DEF Revisions

LEMMA CallbackKeepsRevisions ==
  ASSUME SessionInvariant, RunsAreCurrent, Revisions, Locking, CallbackStep
  PROVE  Revisions' /\ Locking'
<1>1. rpc = "enter" \/ Inside
  BY DEF CallbackStep, SampleEnter, SampleSubmit, SamplePlot, SampleApply, SampleApplied,
         SampleCopies, SamplePushes, SampleReport, SampleLeave, Inside
<1>2. Served /\ client.rev \in Nat /\ client.rev # 0
  BY <1>1 DEF Inside, SessionInvariant, SessionType, Threads, Served, Revisions
<1>3. CASE SampleEnter
  <2>1. /\ UNCHANGED <<shown, conn, published, config, client, pub, lock, hpc, hcopy, batch, copy,
                       op, cpc>>
        /\ \/ timed'.rev = client.rev /\ rpc' = "submit"
           \/ timed' = timed /\ rpc' = "stream"
        /\ rpc = "enter"
    BY <1>3 DEF SampleEnter, mutex, sdk, controller, publishing, history
  <2>2. batch = NoPlot
    BY <2>1 DEF RunsAreCurrent, Inside
  <2> QED
    BY <1>2, <2>1, <2>2 DEF Revisions, Locking, Inside, Served
<1>4. CASE SamplePlot
  <2>1. /\ UNCHANGED <<shown, conn, published, config, client, pub, lock, hpc, hcopy, timed, copy,
                       op, cpc>>
        /\ batch' = NoPlot \/ batch'.rev = timed.rev
        /\ rpc = "plot" /\ rpc' = "apply"
    BY <1>4 DEF SamplePlot, shared, mutex, sdk, poller, controller, publishing, history
  <2> QED
    BY <2>1 DEF Revisions, Locking, Inside, Served
<1>5. CASE SampleApply
  <2>1. /\ UNCHANGED <<shown, conn, published, client, hpc, hcopy, timed, batch, copy, op, cpc>>
        /\ rpc = "apply" /\ lock = "free"
        /\ \/ rpc' = "sample" /\ UNCHANGED <<config, pub, lock>>
           \/ /\ rpc' = "applied" /\ lock' = "receiver" /\ pub' # "none"
              /\ config' \in {timed.rev, config}
              /\ pub' = "done" \/ config' = timed.rev
    BY <1>5 DEF SampleApply, Unlocked, PublishConfiguration, mutex, sdk, poller, controller,
                publishing, history
  <2>2. timed.rev = client.rev /\ Inside /\ Inside'
    BY <2>1 DEF Revisions, Inside
  <2>3. ~(op = "connect" /\ cpc \in {"retain", "begin", "create"})
    BY <2>1 DEF SessionInvariant, Threads
  <2>4. Locking'
    BY <2>1 DEF Locking
  <2> QED
    BY <1>2, <2>1, <2>2, <2>3, <2>4 DEF Revisions, Served
<1>6. CASE SampleApplied
  <2>1. /\ UNCHANGED <<shown, conn.gen, published, config, client, hpc, hcopy, timed, batch, copy,
                       op, cpc>>
        /\ conn'.state = "Streaming" /\ lock' = "free" /\ pub' = "none"
        /\ rpc = "applied" /\ rpc' \in {"sample", "changed"}
    BY <1>6 DEF SampleApplied, SessionInvariant, SessionType, sdk, sampling, poller, controller,
                publishing, history
  <2>2. conn.state # "Disconnected"
    BY <2>1 DEF SessionInvariant, Threads
  <2> QED
    BY <2>1, <2>2 DEF Revisions, Locking, Inside, Served
<1>7. CASE SampleLeave
  <2>1. /\ UNCHANGED <<shown, conn, published, config, client, pub, lock, hpc, hcopy, copy, op, cpc>>
        /\ batch' = NoPlot /\ rpc = "leave" /\ rpc' = "stream"
    BY <1>7 DEF SampleLeave, mutex, sdk, poller, controller, publishing, history
  <2> QED
    BY <1>2, <2>1 DEF Revisions, Locking, Inside, Served
<1>8. CASE CallbackStep /\ ~(SampleEnter \/ SamplePlot \/ SampleApply \/ SampleApplied \/ SampleLeave)
  <2>1. /\ UNCHANGED <<shown, conn, published, config, client, pub, lock, hpc, hcopy, timed, batch,
                       copy, op, cpc>>
        /\ Inside /\ Inside' /\ rpc # "applied"
    <3>1. UNCHANGED <<shown, conn, published, config, client, pub, lock, hpc, hcopy, timed, batch,
                      copy, op, cpc>>
      BY <1>8 DEF CallbackStep, SampleSubmit, SampleCopies, SamplePushes, SampleReport, shared,
                  mutex, sdk, sampling, poller, controller, publishing, history
    <3>2. Inside /\ Inside' /\ rpc # "applied"
      BY <1>8 DEF CallbackStep, SampleSubmit, SampleCopies, SamplePushes, SampleReport, Inside
    <3> QED
      BY <3>1, <3>2
  <2> QED
    BY <1>2, <2>1 DEF Revisions, Locking, Served
<1> QED
  BY <1>3, <1>4, <1>5, <1>6, <1>7, <1>8

LEMMA PollKeepsRevisions ==
  ASSUME SessionInvariant, Revisions, Locking, PollStep
  PROVE  Revisions' /\ Locking'
<1>1. hpc # "off"
  BY DEF PollStep, PollLoad, PollCopy, PollLock, PollApply, PollPushes, PollRecording, PollCheck,
         PollReport, PollWait
<1>2. Served /\ conn.state # "Disconnected" /\ ~(op = "connect" /\ cpc \in {"retain", "begin", "create"})
  BY <1>1 DEF SessionInvariant, Threads, Served
<1>3. UNCHANGED <<shown, conn.gen, published, client, rpc, timed, batch, copy, op, cpc>>
  BY DEF PollStep, PollLoad, PollCopy, PollLock, PollApply, PollPushes, PollRecording, PollCheck,
         PollReport, PollWait, PollerVars, SessionInvariant, SessionType, shared, sdk, receiver,
         sampling, controller, publishing, history
<1>4. Inside' <=> Inside
  BY <1>3 DEF Inside
<1>5. conn'.gen # 0
  BY <1>2, <1>3 DEF Revisions
<1>6. client.rev \in Nat
  BY DEF SessionInvariant, SessionType
<1>7. CASE PollCopy
  <2>1. UNCHANGED <<config, pub, lock>> /\ hcopy' = client /\ hpc = "copy" /\ hpc' = "lock"
    BY <1>7 DEF PollCopy, PollerVars, shared, mutex
  <2> QED
    BY <1>2, <1>3, <1>4, <1>5, <1>6, <2>1 DEF Revisions, Locking, Served
<1>8. CASE PollLock
  <2>1. /\ UNCHANGED hcopy /\ lock = "free" /\ hpc = "lock"
        /\ \/ hpc' = "wait" /\ UNCHANGED <<config, pub, lock>>
           \/ /\ hpc' = "locked" /\ lock' = "poller" /\ pub' # "none"
              /\ config' \in {hcopy.rev, config}
              /\ pub' = "done" \/ config' # 0
    BY <1>8 DEF PollLock, Unlocked, PublishConfiguration, mutex
  <2>2. hcopy.rev <= client.rev /\ hcopy.rev \in Nat
    BY <2>1 DEF Revisions, SessionInvariant, SessionType
  <2>3. Locking'
    BY <2>1 DEF Locking
  <2> QED
    BY <1>2, <1>3, <1>4, <1>5, <2>1, <2>2, <2>3 DEF Revisions, Served
<1>9. CASE PollApply
  <2>1. /\ UNCHANGED config /\ lock' = "free" /\ pub' = "none" /\ hpc' \in {"conn", "health"}
    BY <1>9 DEF PollApply
  <2> QED
    BY <1>2, <1>3, <1>4, <1>5, <2>1 DEF Revisions, Locking, Served
<1>10. CASE PollStep /\ ~PollCopy /\ ~PollLock /\ ~PollApply
  <2>1. /\ UNCHANGED <<config, pub, lock>> /\ hpc # "locked" /\ hpc' \notin {"lock", "locked"}
    BY <1>10 DEF PollStep, PollLoad, PollPushes, PollRecording, PollCheck, PollReport, PollWait,
                 PollerVars, shared, mutex
  <2> QED
    BY <1>2, <1>3, <1>4, <1>5, <2>1 DEF Revisions, Locking, Served
<1> QED
  BY <1>7, <1>8, <1>9, <1>10

LEMMA ConfigurationKeepsRevisions ==
  ASSUME SessionInvariant, Revisions, Locking, ConfigurationStep
  PROVE  Revisions' /\ Locking'
<1>1. /\ UNCHANGED <<shown, conn, config, client, lock, hpc, hcopy, rpc, timed, batch, copy, op, cpc>>
      /\ pub # "none" /\ pub' \in {"purge", "begin", "push", "done"}
      /\ pub' # "done" => pub \in {"revoke", "purge", "begin"}
      /\ published' = published \/ (published' = config /\ pub = "push")
  BY DEF ConfigurationStep, PubRevoke, PubPurge, PubBegin, PubPush, shared, sdk, receiver,
         sampling, poller, controller, publishing
<1>2. ~(op = "connect" /\ cpc \in {"retain", "begin", "create"})
  BY <1>1 DEF SessionInvariant, Threads, Locking
<1> QED
  BY <1>1, <1>2 DEF Revisions, Locking, Inside, Served

\* What is written was published in its connection.
LEMMA OutputKeepsRevisions ==
  ASSUME Revisions, Locking, InTime, SessionInvariant, WriteOut
  PROVE  Revisions' /\ Locking'
<1>1. UNCHANGED <<conn, published, client, config, pub, lock, hpc, hcopy, rpc, timed, batch, copy,
                  op, cpc>>
  BY DEF WriteOut, Others, shared, mutex, sdk, receiver, sampling, poller, controller, publishing
<1>2. Timely(held)
  BY DEF InTime, Orderly
<1>3. client.rev \in Nat /\ conn.gen \in Nat
  BY DEF SessionInvariant, SessionType
<1>4. /\ shown'[1] \in Nat /\ shown'[2] \in Nat /\ shown'[1] <= conn.gen
      /\ published = 0 /\ conn.gen > 0 => shown'[1] < conn.gen
      /\ Served /\ shown'[1] = conn.gen => shown'[2] <= client.rev
  <2>1. CASE shown' = shown
    BY <2>1 DEF Revisions
  <2>2. CASE /\ held.kind = "configuration" /\ held.gen = shown[1]
             /\ shown' = <<held.gen, Max({shown[2], held.body.rev})>>
    <3>1. shown[2] \in Nat /\ held.body.rev \in Nat
      BY <1>2, <2>2 DEF Revisions, Timely
    <3>2. Max({shown[2], held.body.rev}) \in {shown[2], held.body.rev}
      BY <3>1, MaxOfTwo
    <3> QED
      BY <1>2, <1>3, <2>2, <3>1, <3>2 DEF Revisions, Timely
  <2>3. CASE held.kind = "configuration" /\ shown' = <<held.gen, held.body.rev>>
    BY <1>2, <1>3, <2>3 DEF Timely
  <2> QED
    BY <2>1, <2>2, <2>3 DEF WriteOut
<1>5. (Served' <=> Served) /\ (Inside' <=> Inside)
  BY <1>1 DEF Served, Inside
<1> QED
  BY <1>1, <1>4, <1>5 DEF Revisions, Locking

LEMMA OthersKeepRevisions ==
  ASSUME Revisions, Locking,
         CopySnapshot \/ PushSnapshot \/ RecorderSettles \/ RecorderFails \/ Take
  PROVE  Revisions' /\ Locking'
<1>1. UNCHANGED <<shown, conn, published, client, config, pub, lock, hpc, hcopy, rpc, timed, batch,
                  op, cpc>>
  BY DEF CopySnapshot, PushSnapshot, RecorderSettles, RecorderFails, RecorderRest, Take, Others,
         shared, mutex, sdk, receiver, sampling, poller, controller, publishing, history
<1>2. copy'.kind # "configuration"
  BY DEF CopySnapshot, PushSnapshot, RecorderSettles, RecorderFails, RecorderRest, Take, Others,
         controller, publishing, Snapshot, NoEvent, Event, Revisions
<1> QED
  BY <1>1, <1>2 DEF Revisions, Locking, Inside, Served

LEMMA ConfigurationInvariantHolds == Spec => []ConfigurationInvariant
<1>1. Init => ConfigurationInvariant
  <2> SUFFICES ASSUME Init PROVE ConfigurationInvariant
    OBVIOUS
  <2>1. Revisions /\ Locking
    BY DEF Init, Revisions, Locking, Served, Inside, NoEvent, Event
  <2>2. events = <<>> /\ held = NoEvent
    BY DEF Init, SinkInit
  <2>3. Timely(NoEvent)
    BY DEF Timely, Current, IsMeasurement, NoEvent, Event
  <2>4. Len(events) = 0
    BY <2>2
  <2>5. InTime
    BY <2>2, <2>3, <2>4 DEF InTime, Orderly
  <2> QED
    BY <2>1, <2>5 DEF ConfigurationInvariant
<1>2. SessionInvariant /\ DeliveryInvariant /\ ConfigurationInvariant /\ [Next]_<<play, vars>>
        => ConfigurationInvariant'
  <2> SUFFICES ASSUME SessionInvariant, DeliveryInvariant, ConfigurationInvariant,
                      [Next]_<<play, vars>>
               PROVE  ConfigurationInvariant'
    OBVIOUS
  <2>1. SessionType /\ Contents /\ RunsAreCurrent /\ Revisions /\ Locking /\ InTime
    BY DEF SessionInvariant, DeliveryInvariant, ConfigurationInvariant
  <2>2. CASE UNCHANGED <<play, vars>>
    <3>1. /\ UNCHANGED <<events, held, conn, client, lease, shown, config, published, pub>>
          /\ UNCHANGED Untouched /\ UNCHANGED <<op, cpc>>
      BY <2>2 DEF vars, sink, queued, shared, mutex, sdk, receiver, sampling, poller, controller,
                  publishing, history, Untouched
    <3>2. Revisions' /\ Locking'
      BY <2>1, <3>1, UntouchedKeepsRevisions DEF Revisions
    <3>3. Onward
      BY <2>1, <3>1 DEF Onward, Served, Revoked, SessionType
    <3> QED
      BY <2>1, <3>2, <3>3, TimeGoesOn DEF ConfigurationInvariant
  <2>3. CASE Calls \/ ConnectStep \/ SilenceStep \/ RecordStep
    BY <2>1, <2>3, OperationsKeepTime, CallsKeepRevisions, ConnectKeepsRevisions,
       SilenceKeepsRevisions, RecordKeepsRevisions DEF ConfigurationInvariant
  <2>4. CASE ConfigurationStep
    BY <2>1, <2>4, ConfigurationKeepsTime, ConfigurationKeepsRevisions DEF ConfigurationInvariant
  <2>5. CASE ClientStep
    BY <2>1, <2>5, ClientGoesOn, TimeGoesOn, ClientKeepsRevisions DEF ConfigurationInvariant
  <2>6. CASE CallbackStep
    BY <2>1, <2>6, CallbackKeepsTime, CallbackKeepsRevisions DEF ConfigurationInvariant
  <2>7. CASE PollStep
    BY <2>1, <2>7, PollKeepsTime, PollKeepsRevisions DEF ConfigurationInvariant
  <2>8. CASE WriteOut
    BY <2>1, <2>8, OutputKeepsTime, OutputKeepsRevisions DEF ConfigurationInvariant
  <2>9. CASE CopySnapshot \/ PushSnapshot \/ RecorderSettles \/ RecorderFails \/ Take
    BY <2>1, <2>9, OthersKeepTime, OthersKeepRevisions DEF ConfigurationInvariant
  <2> QED
    BY <2>2, <2>3, <2>4, <2>5, <2>6, <2>7, <2>8, <2>9 DEF Next, ControlStep
<1> QED
  BY <1>1, <1>2, SessionInvariantHolds, DeliveryInvariantHolds, PTL DEF Spec

\* A measurement is never written after a newer configuration than its own: what was
\* measured under the old one is revoked before the new one is published
\* (session.cpp:696-699).
THEOREM ConfigurationIsNotBehind == Spec => ConfigurationNotBehind
<1> DEFINE NotBehind == \A e \in {held} : Delivers(e) /\ IsMeasurement(e) /\ shown[1] = e.gen
                          => shown[2] <= e.body.rev
<1>1. DeliveryInvariant /\ ConfigurationInvariant => [NotBehind]_vars
  <2> SUFFICES ASSUME DeliveryInvariant, ConfigurationInvariant, Delivers(held),
                      IsMeasurement(held), shown[1] = held.gen
               PROVE  shown[2] <= held.body.rev
    OBVIOUS
  <2>1. Current(held) /\ Timely(held)
    BY DEF Delivers, Deliverable, Current, ConfigurationInvariant, InTime, Orderly
  <2>2. held.gen = conn.gen
    BY <2>1 DEF DeliveryInvariant, Contents, Fits, Current
  <2> QED
    BY <2>1, <2>2 DEF Timely
<1> QED
  BY <1>1, DeliveryInvariantHolds, ConfigurationInvariantHolds, PTL DEF ConfigurationNotBehind
=============================================================================

---------------------------- MODULE RecorderStatus ----------------------------
(***************************************************************************)
(* What the recorder's callers see of it: the RecordingState and whether   *)
(* its writer thread is still to be joined.  Recorder implements it        *)
(* (StatusIsImplemented of RecorderRefinement); Session is built on it.    *)
(***************************************************************************)
VARIABLES recording,  \* Recorder::state_
          joinable    \* Recorder::writer_thread_.joinable()

status == <<recording, joinable>>

RecordingStates == {"Idle", "Starting", "Recording", "Pausing", "Paused",
                    "Stopping", "Error"}

StatusInit == recording = "Idle" /\ joinable = FALSE

\* start passed its checks, and later returns with a writer or without one.
StartAccepted == /\ recording \in {"Idle", "Error"} /\ ~joinable
                 /\ recording' = "Starting" /\ UNCHANGED joinable

StartOk == recording = "Starting" /\ recording' = "Recording" /\ UNCHANGED joinable

StartFailed == /\ recording = "Starting"
               /\ recording' \in {"Idle", "Error"} /\ UNCHANGED joinable

\* The thread is made even if a submit has failed the capture by then.
WriterStarts == /\ recording \in {"Recording", "Error"}
                /\ joinable' = TRUE /\ UNCHANGED recording

PauseAccepted ==
  recording = "Recording" /\ recording' = "Pausing" /\ UNCHANGED joinable

Resumed == recording = "Paused" /\ recording' = "Recording" /\ UNCHANGED joinable

StopAccepted == /\ recording \notin {"Idle", "Starting", "Error", "Stopping"}
                /\ recording' = "Stopping" /\ UNCHANGED joinable

Joined == recording \in {"Idle", "Error"} /\ joinable' = FALSE /\ UNCHANGED recording

\* The writer thread.
WriterPaused == recording = "Pausing" /\ recording' = "Paused" /\ UNCHANGED joinable

WriterStopped == recording = "Stopping" /\ recording' = "Idle" /\ UNCHANGED joinable

\* A storage operation failed, or a submit found the queue full.
Fails == /\ recording \in {"Recording", "Pausing", "Paused", "Stopping"}
         /\ recording' = "Error" /\ UNCHANGED joinable

StatusNext ==
  \/ StartAccepted \/ StartOk \/ StartFailed \/ WriterStarts \/ PauseAccepted
  \/ Resumed \/ StopAccepted \/ Joined \/ WriterPaused \/ WriterStopped \/ Fails

StatusSpec == StatusInit /\ [][StatusNext]_status
=============================================================================

-------------------------- MODULE RecorderRefinement --------------------------
(* The recorder implements Capture: the mapping. *)
EXTENDS Recorder

CaptureStatus == CASE state = "Idle"   -> "idle"
                   [] state = "Paused" -> "suspended"
                   [] state = "Error"  -> "failed"
                   [] OTHER            -> "running"

Abstract == INSTANCE Capture WITH Sample <- Samples, LastCapture <- MaxCaptures,
              status <- CaptureStatus, id <- cap, log <- admitted, output <- csv,
              deaths <- crashes

\* Every step of the three threads, of the storage and of the world outside is a
\* step of the abstract capture or none at all: the file at the output path is
\* only ever replaced by all of a capture's samples at once (recorder.cpp:574).
ImplementsCapture == Abstract!Spec

Status == INSTANCE RecorderStatus WITH
            recording <- state, joinable <- (wpc # "none")

\* As long as the process lives, the recorder's state and its thread move as
\* RecorderStatus says, which is all the session knows of them (recorder.cpp:468
\* stop, recorder.cpp:782 enter_error).
StatusIsImplemented ==
  Status!StatusInit /\ [][~Crash => [Status!StatusNext]_Status!status]_vars
=============================================================================

------------------------------ MODULE Recorder ------------------------------
(***************************************************************************)
(* The CSV recorder of core/viewer/src/recorder.cpp: three threads that    *)
(* share one capture.                                                      *)
(*                                                                         *)
(*   producer    the SDK's receive thread, inside Recorder::submit         *)
(*   controller  whichever thread holds operation_mutex_, inside start,    *)
(*               pause, resume or stop                                     *)
(*   writer      the thread start spawns, inside writer_loop               *)
(*                                                                         *)
(* Every load, store, compare-and-swap and fetch-add on an atomic is a     *)
(* step of its own, and so is every critical section of wait_mutex_ (two   *)
(* steps hold it: resume and the writer's condition wait).  Formatting,    *)
(* clocks and the contents of a row are abstracted: a row is the sample's  *)
(* identity.  A storage operation may fail whenever the interface lets it. *)
(***************************************************************************)
EXTENDS Naturals, Sequences

CONSTANTS Capacity,           \* RecordingQueue slots (65536 in the code)
          BatchSize,          \* writer_batch_size (512 in the code)
          MaxSubmits,         \* bound: calls of submit
          MaxCaptures,        \* bound: calls of start that get past the checks
          MaxPauses,          \* bound: pauses in one capture
          MaxCrashes          \* bound: deaths of the companion process

ASSUME RecorderConstants ==
  /\ Capacity \in Nat \ {0} /\ BatchSize \in Nat \ {0}
  /\ MaxSubmits \in Nat /\ MaxCaptures \in Nat
  /\ MaxPauses \in Nat /\ MaxCrashes \in Nat

VARIABLES
  state,        \* state_
  open,         \* submission_gate_: the open bit
  inFlight,     \* submission_gate_: how many submits are past it
  queue,        \* queue_, as the sequence of samples between read_ and write_
  accepted,     \* accepted_samples_
  written,      \* written_samples_
  overflowed,   \* failure_code_ = QueueOverflow
  pauses,       \* pause_count_
  writerDone,   \* writer_done_
  lock,         \* wait_mutex_: who holds it between two steps
  policy,       \* overwrite_
  ppc, sample,  \* the producer: next step of submit, and its sample
  cpc,          \* the controller: next step of the operation it runs
  wpc,          \* the writer: next step; "none" when writer_thread_ is empty
  seen,         \* the writer's local current: the state it loaded
  timed,        \* the writer waits with the flush deadline
  batch,        \* the writer's local batch
  fileOpen,     \* file_ # nullptr
  buf,          \* rows in the stdio buffer of file_, not yet in the file
  csvPartial,   \* <output>.partial
  csv,          \* <output>
  metaPartial,  \* <output>.metadata.json.partial: the capture that made it
  meta,         \* <output>.metadata.json
  cap,          \* history: number of the current capture
  admitted,     \* history: the samples pushed in the current capture
  ioFailed,     \* history: a storage operation failed in this capture
  calls,        \* history: calls of submit so far
  crashes       \* history: process deaths so far

gate     == <<open, inFlight>>
flags    == <<state, gate, lock, writerDone>>
counters == <<accepted, written, overflowed, pauses>>
flow     == <<queue, batch, buf, admitted>>
producer == <<ppc, sample, calls>>
writer   == <<wpc, seen, timed>>
csvFiles == <<fileOpen, csvPartial, csv>>
metas    == <<metaPartial, meta>>
history  == <<cap, ioFailed, crashes>>
disk     == <<csvFiles, metas>>

vars == <<flags, counters, flow, producer, writer, disk, history, policy, cpc>>

RecordingStates ==
  {"Idle", "Starting", "Recording", "Pausing", "Paused", "Stopping", "Error"}

Policies == {"Refuse", "Replace"}

(***************************************************************************)
(* Files.  Capture 0 is "no such file"; a file of capture Foreign was put  *)
(* there by another program.                                               *)
(***************************************************************************)
Foreign    == MaxCaptures + 1
NoFile     == [cap |-> 0, rows |-> <<>>]
NoMeta     == [cap |-> 0, accepted |-> 0, written |-> 0]
NewPartial == [cap |-> cap, rows |-> <<>>]

Samples == [cap : 0..MaxCaptures, n : 0..MaxSubmits]
CsvFile == [cap : 0..MaxCaptures + 1, rows : Seq(Samples)]
MetaFile == [cap : 0..MaxCaptures, accepted : Nat, written : Nat]

First(s, k) == SubSeq(s, 1, k)
Beyond(s, k) == SubSeq(s, k + 1, Len(s))

\* What an exclusive create that fails leaves behind: usually nothing, but the
\* empty file when the open succeeded and the stream could not be made.
AfterFailedCreate(file, none, new) == {file, IF file = none THEN new ELSE file}

\* Whether promote may put a file where `there` is.
MayPromoteOver(there) == policy = "Replace" \/ there.cap = 0
-----------------------------------------------------------------------------
(* SubmissionGate and the condition variable the writer sleeps on *)

Enter   == inFlight' = inFlight + 1 /\ UNCHANGED open
Leave   == inFlight' = inFlight - 1 /\ UNCHANGED open
Close   == open' = FALSE /\ UNCHANGED inFlight
Open    == open' = TRUE /\ UNCHANGED inFlight
CanOpen == ~open /\ inFlight = 0
Drained == inFlight = 0

\* writer_condition_.notify_one: lost unless the writer already sleeps.
NotifyWriter == wpc' = IF wpc = "asleep" THEN "wake" ELSE wpc

\* The transition enter_error and enter_overflow_error make.
ToError == state' = IF state = "Idle" THEN state ELSE "Error"
-----------------------------------------------------------------------------
Init ==
  /\ state = "Idle" /\ open = FALSE /\ inFlight = 0
  /\ queue = <<>> /\ batch = <<>> /\ buf = <<>> /\ admitted = <<>>
  /\ accepted = 0 /\ written = 0 /\ overflowed = FALSE /\ pauses = 0
  /\ writerDone = TRUE /\ lock = "free" /\ policy = "Refuse"
  /\ ppc = "idle" /\ sample = [cap |-> 0, n |-> 0] /\ calls = 0
  /\ cpc = "idle"
  /\ wpc = "none" /\ seen = "Idle" /\ timed = FALSE
  /\ fileOpen = FALSE /\ csvPartial = NoFile /\ csv = NoFile
  /\ metaPartial = 0 /\ meta = NoMeta
  /\ cap = 0 /\ ioFailed = FALSE /\ crashes = 0
-----------------------------------------------------------------------------
(* Producer: Recorder::submit *)

\* SubmissionGate::enter; a closed gate only reports the state and notifies.
SubmitEnter ==
  /\ ppc = "idle" /\ calls < MaxSubmits
  /\ calls' = calls + 1
  /\ sample' = [cap |-> cap, n |-> calls + 1]
  /\ IF open THEN Enter /\ ppc' = "push"
                  ELSE UNCHANGED gate /\ ppc' = "notify"
  /\ UNCHANGED <<state, lock, writerDone, counters, flow, writer, disk,
                 history, policy, cpc>>

SubmitPush ==
  /\ ppc = "push"
  /\ IF Len(queue) < Capacity
     THEN /\ queue' = Append(queue, sample)
          /\ admitted' = Append(admitted, sample)
          /\ ppc' = "count"
     ELSE ppc' = "full" /\ UNCHANGED <<queue, admitted>>
  /\ UNCHANGED <<flags, counters, batch, buf, sample, calls, writer, disk,
                 history, policy, cpc>>

SubmitCount ==
  /\ ppc = "count"
  /\ accepted' = accepted + 1
  /\ ppc' = "release"
  /\ UNCHANGED <<flags, written, overflowed, pauses, flow, sample, calls,
                 writer, disk, history, policy, cpc>>

\* The queue was full: the gate closes, then the recording turns to Error.
SubmitFull ==
  /\ ppc = "full"
  /\ Close
  /\ ppc' = "overflow"
  /\ UNCHANGED <<state, lock, writerDone, counters, flow, sample, calls,
                 writer, disk, history, policy, cpc>>

SubmitOverflow ==
  /\ ppc = "overflow"
  /\ overflowed' = TRUE
  /\ ToError
  /\ NotifyWriter
  /\ ppc' = "release"
  /\ UNCHANGED <<gate, lock, writerDone, accepted, written, pauses, flow,
                 sample, calls, seen, timed, disk, history, policy, cpc>>

SubmitRelease ==
  /\ ppc = "release"
  /\ Leave
  /\ ppc' = "notify"
  /\ UNCHANGED <<state, lock, writerDone, counters, flow, sample, calls,
                 writer, disk, history, policy, cpc>>

SubmitNotify ==
  /\ ppc = "notify"
  /\ NotifyWriter
  /\ ppc' = "idle"
  /\ UNCHANGED <<flags, counters, flow, sample, calls, seen, timed, disk,
                 history, policy, cpc>>

SubmitStep == \/ SubmitPush \/ SubmitCount \/ SubmitFull
              \/ SubmitOverflow \/ SubmitRelease \/ SubmitNotify
-----------------------------------------------------------------------------
(* Controller: Recorder::start *)

\* A recording that failed may start again once nothing of it is left running.
ClosedError == state = "Error" /\ ~fileOpen /\ Drained /\ writerDone

MayStart(p) ==
  /\ wpc = "none"
  /\ state = "Idle" \/ ClosedError
  /\ csvPartial.cap = 0
  /\ p = "Refuse" => csv.cap = 0

\* Mutant: the counters of the last recording are not reset.
StartCall_counters ==
  /\ cpc = "idle" /\ cap < MaxCaptures
  /\ \E p \in Policies : MayStart(p) /\ policy' = p
  /\ queue' = IF state = "Error" THEN <<>> ELSE queue
  /\ state' = "Starting"
  /\ writerDone' = FALSE
  /\ cap' = cap + 1 /\ admitted' = <<>> /\ ioFailed' = FALSE
  /\ cpc' = "create"
  /\ UNCHANGED <<counters, gate, lock, batch, buf, producer, writer, disk,
                 crashes>>

StartCall ==
  /\ cpc = "idle" /\ cap < MaxCaptures
  /\ \E p \in Policies : MayStart(p) /\ policy' = p
  /\ queue' = IF state = "Error" THEN <<>> ELSE queue
  /\ state' = "Starting"
  /\ accepted' = 0 /\ written' = 0 /\ pauses' = 0 /\ overflowed' = FALSE
  /\ writerDone' = FALSE
  /\ cap' = cap + 1 /\ admitted' = <<>> /\ ioFailed' = FALSE
  /\ cpc' = "create"
  /\ UNCHANGED <<gate, lock, batch, buf, producer, writer, disk, crashes>>

\* create_exclusive gives the file, or returns null (back to Idle), or throws.
StartCreate ==
  /\ cpc = "create"
  /\ \/ /\ csvPartial' = NewPartial /\ fileOpen' = TRUE
        /\ cpc' = "header"
        /\ UNCHANGED <<state, writerDone, ioFailed>>
     \/ /\ csvPartial' \in AfterFailedCreate(csvPartial, NoFile, NewPartial)
        /\ state' \in {"Idle", "Error"}
        /\ writerDone' = TRUE /\ ioFailed' = TRUE
        /\ cpc' = "idle"
        /\ UNCHANGED fileOpen
  /\ UNCHANGED <<gate, lock, counters, flow, producer, writer, csv, metas, cap,
                 crashes, policy>>

\* The header is written and flushed, then the state is published.
StartHeader ==
  /\ cpc = "header"
  /\ \/ state' = "Recording" /\ cpc' = "open"
        /\ UNCHANGED <<writerDone, fileOpen, ioFailed>>
     \/ /\ state' = "Error" /\ cpc' = "idle"
        /\ writerDone' = TRUE /\ fileOpen' = FALSE /\ ioFailed' = TRUE
  /\ UNCHANGED <<gate, lock, counters, flow, producer, writer, csvPartial, csv,
                 metas, cap, crashes, policy>>

StartOpen ==
  /\ cpc = "open"
  /\ IF CanOpen
     THEN /\ Open
          /\ cpc' = "spawn"
          /\ UNCHANGED <<state, writerDone, fileOpen>>
     ELSE /\ Close /\ ToError /\ cpc' = "idle"
          /\ writerDone' = TRUE /\ fileOpen' = FALSE
  /\ UNCHANGED <<lock, counters, flow, producer, writer, csvPartial, csv,
                 metas, history, policy>>

StartSpawn ==
  /\ cpc = "spawn"
  /\ \/ wpc' = "pop" /\ cpc' = "idle" /\ UNCHANGED <<gate, ioFailed>>
     \/ Close /\ cpc' = "noThread" /\ ioFailed' = TRUE /\ UNCHANGED wpc
  /\ UNCHANGED <<state, lock, writerDone, counters, flow, producer, seen,
                 timed, disk, cap, crashes, policy>>

\* std::thread threw: Error, the file closed, and nobody will read the queue.
StartNoThread ==
  /\ cpc = "noThread"
  /\ ToError
  /\ fileOpen' = FALSE /\ writerDone' = TRUE
  /\ cpc' = "idle"
  /\ UNCHANGED <<gate, lock, counters, flow, producer, writer, csvPartial, csv,
                 metas, history, policy>>
-----------------------------------------------------------------------------
(* Controller: Recorder::pause, Recorder::resume, Recorder::stop *)

PauseCall ==
  /\ cpc = "idle" /\ state = "Recording" /\ pauses < MaxPauses
  /\ Close
  /\ cpc' = "pause"
  /\ UNCHANGED <<state, lock, writerDone, counters, flow, producer, writer,
                 disk, history, policy>>

\* A failure that came in between is waited for like a pause.
PauseRequest ==
  /\ cpc = "pause" /\ lock = "free"
  /\ IF state \in {"Recording", "Error"}
     THEN /\ state' = IF state = "Recording" THEN "Pausing" ELSE state
          /\ pauses' = pauses + 1
          /\ NotifyWriter
          /\ cpc' = "pauseWait"
     ELSE cpc' = "idle" /\ UNCHANGED <<state, pauses, wpc>>
  /\ UNCHANGED <<gate, lock, writerDone, accepted, written, overflowed, flow,
                 producer, seen, timed, disk, history, policy>>

PauseReturn ==
  /\ cpc = "pauseWait" /\ lock = "free"
  /\ state = "Paused" \/ writerDone
  /\ cpc' = "idle"
  /\ UNCHANGED <<flags, counters, flow, producer, writer, disk, history,
                 policy>>

\* wait_mutex_ is held from the state change to the end of the call.
ResumeRequest ==
  /\ cpc = "idle" /\ lock = "free"
  /\ state = "Paused"
  /\ state' = "Recording"
  /\ lock' = "controller"
  /\ cpc' = "resume"
  /\ UNCHANGED <<gate, writerDone, counters, flow, producer, writer, disk,
                 history, policy>>

ResumeOpen ==
  /\ cpc = "resume"
  /\ IF CanOpen THEN Open /\ UNCHANGED state
                ELSE Close /\ ToError
  /\ NotifyWriter
  /\ lock' = "free"
  /\ cpc' = "idle"
  /\ UNCHANGED <<writerDone, counters, flow, producer, seen, timed, disk,
                 history, policy>>

StopCall ==
  /\ cpc = "idle"
  /\ state # "Idle" \/ wpc # "none"
  /\ Close
  /\ cpc' = "stop"
  /\ UNCHANGED <<state, lock, writerDone, counters, flow, producer, writer,
                 disk, history, policy>>

\* Mutant: stop does not notify the writer.
StopRequest_bug ==
  /\ cpc = "stop" /\ lock = "free"
  /\ state' = IF state \in {"Error", "Stopping"} THEN state ELSE "Stopping"
  /\ cpc' = "stopWait"
  /\ UNCHANGED <<gate, lock, writerDone, counters, flow, producer, writer, disk,
                 history, policy>>

\* Mutant: stop takes the recorder out of Error.
StopRequest_revives ==
  /\ cpc = "stop" /\ lock = "free"
  /\ state' = "Stopping"
  /\ cpc' = "stopWait"
  /\ NotifyWriter
  /\ UNCHANGED <<gate, lock, writerDone, counters, flow, producer, seen, timed,
                 disk, history, policy>>

StopRequest ==
  /\ cpc = "stop" /\ lock = "free"
  /\ state' = IF state \in {"Error", "Stopping"} THEN state ELSE "Stopping"
  /\ NotifyWriter
  /\ cpc' = "stopWait"
  /\ UNCHANGED <<gate, lock, writerDone, counters, flow, producer, seen, timed,
                 disk, history, policy>>

\* Waits for writer_done_, then joins the thread when there is one.
StopReturn ==
  /\ cpc = "stopWait" /\ lock = "free" /\ writerDone
  /\ wpc \in {"none", "exited"}
  /\ wpc' = "none"
  /\ cpc' = "idle"
  /\ UNCHANGED <<flags, counters, flow, producer, seen, timed, disk, history,
                 policy>>

Call == StartCall \/ PauseCall \/ ResumeRequest \/ StopCall

ControlStep ==
  \/ StartCreate \/ StartHeader \/ StartOpen \/ StartSpawn \/ StartNoThread
  \/ PauseRequest \/ PauseReturn \/ ResumeOpen \/ StopRequest \/ StopReturn
-----------------------------------------------------------------------------
(* Writer: Recorder::writer_loop *)

\* A flush or close that fails moves only some of the buffered rows.
SomeBufferedRowsReach(file) ==
  \E k \in 0..Len(buf) :
    file' = [csvPartial EXCEPT !.rows = @ \o First(buf, k)]

\* A failed storage operation: enter_error closes the gate, then (WriterError)
\* publishes Error.
FailTo(step) == Close /\ ioFailed' = TRUE /\ wpc' = step

\* write_available_batch: try_pop until the batch is full or the queue empty.
WriterPop ==
  /\ wpc = "pop" /\ queue # <<>> /\ Len(batch) < BatchSize
  /\ batch' = Append(batch, Head(queue))
  /\ queue' = Tail(queue)
  /\ UNCHANGED <<flags, counters, buf, admitted, producer, writer, disk,
                 history, policy, cpc>>

WriterPopped ==
  /\ wpc = "pop" /\ (queue = <<>> \/ Len(batch) = BatchSize)
  /\ wpc' = IF batch = <<>> THEN "load" ELSE "write"
  /\ UNCHANGED <<flags, counters, flow, producer, seen, timed, disk, history,
                 policy, cpc>>

WriterWrite ==
  /\ wpc = "write"
  /\ \/ /\ buf' = buf \o batch
        /\ written' = written + Len(batch)
        /\ wpc' = "load"
        /\ UNCHANGED <<gate, ioFailed>>
     \/ /\ \E k \in 0..Len(batch) : buf' = buf \o First(batch, k)
        /\ FailTo("error")
        /\ UNCHANGED written
  /\ batch' = <<>>
  /\ UNCHANGED <<state, lock, writerDone, accepted, overflowed, pauses, queue,
                 admitted, producer, seen, timed, disk, cap, crashes, policy,
                 cpc>>

WriterLoad ==
  /\ wpc = "load"
  /\ seen' = state
  /\ wpc' = IF state \in {"Pausing", "Stopping", "Error"} THEN "drained"
                                                          ELSE "due"
  /\ UNCHANGED <<flags, counters, flow, producer, timed, disk, history, policy,
                 cpc>>

\* Mutant: a submit that is past the gate is not waited for.
WriterDrained_bug ==
  /\ wpc = "drained"
  /\ wpc' = "size"
  /\ UNCHANGED <<flags, counters, flow, producer, seen, timed, disk, history,
                 policy, cpc>>

\* drain_complete observes the gate first and the queue second.
WriterDrained ==
  /\ wpc = "drained"
  /\ wpc' = IF Drained THEN "size" ELSE "due"
  /\ UNCHANGED <<flags, counters, flow, producer, seen, timed, disk, history,
                 policy, cpc>>

WriterSize ==
  /\ wpc = "size"
  /\ wpc' = IF queue # <<>> THEN "due"
            ELSE CASE seen = "Pausing"  -> "pauseFlush"
                   [] seen = "Stopping" -> "close"
                   [] OTHER             -> "finish"
  /\ UNCHANGED <<flags, counters, flow, producer, seen, timed, disk, history,
                 policy, cpc>>

\* Mutant: after a failed flush the buffered rows are written once more.
Flush_bug(next) ==
  \/ /\ csvPartial' = [csvPartial EXCEPT !.rows = @ \o buf]
     /\ buf' = <<>>
     /\ wpc' = next
     /\ UNCHANGED <<gate, ioFailed>>
  \/ /\ buf # <<>>
     /\ SomeBufferedRowsReach(csvPartial)
     /\ UNCHANGED buf
     /\ FailTo("error")

\* flush_file, and where the loop goes on after it; fflush has nothing to fail
\* at when nothing is buffered.
Flush(next) ==
  \/ /\ csvPartial' = [csvPartial EXCEPT !.rows = @ \o buf]
     /\ buf' = <<>>
     /\ wpc' = next
     /\ UNCHANGED <<gate, ioFailed>>
  \/ /\ buf # <<>>
     /\ SomeBufferedRowsReach(csvPartial)
     /\ buf' = <<>>
     /\ FailTo("error")

WriterPauseFlush ==
  /\ wpc = "pauseFlush"
  /\ Flush("pause")
  /\ UNCHANGED <<state, lock, writerDone, counters, queue, batch, admitted,
                 producer, seen, timed, fileOpen, csv, metas, cap, crashes,
                 policy, cpc>>

WriterPause ==
  /\ wpc = "pause" /\ lock = "free"
  /\ IF state = "Pausing" THEN state' = "Paused" /\ wpc' = "pop"
                          ELSE UNCHANGED state /\ wpc' = "finish"
  /\ UNCHANGED <<gate, lock, writerDone, counters, flow, producer, seen, timed,
                 disk, history, policy, cpc>>

\* Mutant: the result of close is not looked at.
WriterClose_bug ==
  /\ wpc = "close"
  /\ SomeBufferedRowsReach(csvPartial)
  /\ buf' = <<>> /\ fileOpen' = FALSE
  /\ wpc' = "promote"
  /\ UNCHANGED <<flags, counters, queue, batch, admitted, producer, seen, timed,
                 csv, metas, history, policy, cpc>>

\* flush_file and close_file of a recording that stops
WriterClose ==
  /\ wpc = "close"
  /\ \/ /\ csvPartial' = [csvPartial EXCEPT !.rows = @ \o buf]
        /\ fileOpen' = FALSE
        /\ wpc' = "promote"
        /\ UNCHANGED <<gate, ioFailed>>
     \/ /\ SomeBufferedRowsReach(csvPartial)
        /\ FailTo("error")
        /\ UNCHANGED fileOpen
  /\ buf' = <<>>
  /\ UNCHANGED <<state, lock, writerDone, counters, queue, batch, admitted,
                 producer, seen, timed, csv, metas, cap, crashes, policy, cpc>>

\* promote of the CSV: a rename, or a link that may not be followed by unlink.
WriterPromote ==
  /\ wpc = "promote"
  /\ \/ /\ MayPromoteOver(csv)
        /\ csv' = csvPartial /\ csvPartial' = NoFile
        /\ wpc' = "metadata"
        /\ UNCHANGED <<gate, ioFailed>>
     \/ /\ csv' = csv \/ (csv.cap = 0 /\ policy = "Refuse" /\ csv' = csvPartial)
        /\ FailTo("error")
        /\ UNCHANGED csvPartial
  /\ UNCHANGED <<state, lock, writerDone, counters, flow, producer, seen, timed,
                 fileOpen, metas, cap, crashes, policy, cpc>>

\* Mutant: a metadata file that cannot be created does not fail the recording.
WriterMetadata_bug ==
  /\ wpc = "metadata"
  /\ \/ metaPartial = 0 /\ metaPartial' = cap /\ wpc' = "summary"
     \/ UNCHANGED metaPartial /\ wpc' = "finished"
  /\ UNCHANGED <<flags, counters, flow, producer, seen, timed, csvFiles, meta,
                 history, policy, cpc>>

\* The metadata partial is created exclusively.
WriterMetadata ==
  /\ wpc = "metadata"
  /\ \/ /\ metaPartial = 0 /\ metaPartial' = cap
        /\ wpc' = "summary"
        /\ UNCHANGED <<gate, ioFailed>>
     \/ /\ metaPartial' \in AfterFailedCreate(metaPartial, 0, cap)
        /\ FailTo("error")
  /\ UNCHANGED <<state, lock, writerDone, counters, flow, producer, seen, timed,
                 csvFiles, meta, cap, crashes, policy, cpc>>

Summary == [cap |-> cap, accepted |-> accepted, written |-> written]

\* It is written, flushed, closed and promoted under the CSV's policy.
WriterSummary ==
  /\ wpc = "summary"
  /\ \/ /\ MayPromoteOver(meta)
        /\ meta' = Summary /\ metaPartial' = 0
        /\ wpc' = "finished"
        /\ UNCHANGED <<gate, ioFailed>>
     \/ /\ meta' = meta \/ (meta.cap = 0 /\ policy = "Refuse" /\ meta' = Summary)
        /\ FailTo("error")
        /\ UNCHANGED metaPartial
  /\ UNCHANGED <<state, lock, writerDone, counters, flow, producer, seen, timed,
                 csvFiles, cap, crashes, policy, cpc>>

WriterFinished ==
  /\ wpc = "finished" /\ lock = "free"
  /\ state' = IF state = "Stopping" THEN "Idle" ELSE state
  /\ wpc' = "done"
  /\ UNCHANGED <<gate, lock, writerDone, counters, flow, producer, seen, timed,
                 disk, history, policy, cpc>>

\* The second half of enter_error
WriterError ==
  /\ wpc = "error"
  /\ ToError
  /\ wpc' = "finish"
  /\ UNCHANGED <<gate, lock, writerDone, counters, flow, producer, seen, timed,
                 disk, history, policy, cpc>>

\* finish_error_file: flush and close, either of which may fail.
WriterFinishError ==
  /\ wpc = "finish"
  /\ IF fileOpen
     THEN /\ \E k \in 0..Len(buf) :
               /\ csvPartial' = [csvPartial EXCEPT !.rows = @ \o First(buf, k)]
               /\ ioFailed' = (ioFailed \/ k < Len(buf))
          /\ buf' = <<>> /\ fileOpen' = FALSE
     ELSE UNCHANGED <<csvPartial, ioFailed, buf, fileOpen>>
  /\ wpc' = "done"
  /\ UNCHANGED <<flags, counters, queue, batch, admitted, producer, seen, timed,
                 csv, metas, cap, crashes, policy, cpc>>

\* publish_writer_done, after which the thread returns.
WriterDone ==
  /\ wpc = "done" /\ lock = "free"
  /\ writerDone' = TRUE
  /\ wpc' = "exited"
  /\ UNCHANGED <<state, gate, lock, counters, flow, producer, seen, timed, disk,
                 history, policy, cpc>>

\* The periodic flush, when the interval has passed
WriterFlushDue ==
  /\ wpc = "due"
  /\ Flush("wait")
  /\ UNCHANGED <<state, lock, writerDone, counters, queue, batch, admitted,
                 producer, seen, timed, fileOpen, csv, metas, cap, crashes,
                 policy, cpc>>

WriterNotDue ==
  /\ wpc = "due"
  /\ wpc' = "wait"
  /\ UNCHANGED <<flags, counters, flow, producer, seen, timed, disk, history,
                 policy, cpc>>

\* The predicates of the two waits
Awaited(untilFlush) ==
  IF untilFlush
  THEN queue # <<>> \/ state \in {"Pausing", "Stopping", "Error"}
  ELSE state # "Paused"

\* The wait evaluates its predicate with wait_mutex_ held and goes to sleep
\* without letting go of it in between; wait_mutex_ does not stop a producer.
SleepUnless(awaited) ==
  IF awaited THEN wpc' = "pop" /\ UNCHANGED lock
             ELSE wpc' = "doze" /\ lock' = "writer"

WriterWait ==
  /\ wpc = "wait" /\ lock = "free"
  /\ timed' = (state # "Paused")
  /\ SleepUnless(Awaited(timed'))
  /\ UNCHANGED <<state, gate, writerDone, counters, flow, producer, seen, disk,
                 history, policy, cpc>>

WriterSleep ==
  /\ wpc = "doze"
  /\ wpc' = "asleep" /\ lock' = "free"
  /\ UNCHANGED <<state, gate, writerDone, counters, flow, producer, seen, timed,
                 disk, history, policy, cpc>>

WriterWake ==
  /\ wpc = "wake" /\ lock = "free"
  /\ SleepUnless(Awaited(timed))
  /\ UNCHANGED <<state, gate, writerDone, counters, flow, producer, seen, timed,
                 disk, history, policy, cpc>>

\* Mutant: the wait with the flush deadline and the one without are confused.
WriterTimeout_bug ==
  /\ wpc = "asleep" /\ ~timed /\ lock = "free"
  /\ wpc' = "pop"
  /\ UNCHANGED <<flags, counters, flow, producer, seen, timed, disk, history,
                 policy, cpc>>

\* The flush deadline passes; the loop goes on whatever the predicate says.
WriterTimeout ==
  /\ wpc = "asleep" /\ timed /\ lock = "free"
  /\ wpc' = "pop"
  /\ UNCHANGED <<flags, counters, flow, producer, seen, timed, disk, history,
                 policy, cpc>>

WriterStep ==
  \/ WriterPop \/ WriterPopped \/ WriterWrite
  \/ WriterLoad \/ WriterDrained \/ WriterSize
  \/ WriterPauseFlush \/ WriterPause
  \/ WriterClose \/ WriterPromote \/ WriterMetadata \/ WriterSummary
  \/ WriterFinished \/ WriterError \/ WriterFinishError \/ WriterDone
  \/ WriterFlushDue \/ WriterNotDue
  \/ WriterWait \/ WriterSleep \/ WriterWake \/ WriterTimeout
-----------------------------------------------------------------------------
(* The world outside the recorder *)

\* Another program creates the output file while there is none.
ForeignOutput ==
  /\ csv.cap = 0
  /\ csv' = [NoFile EXCEPT !.cap = Foreign]
  /\ UNCHANGED <<flags, counters, flow, producer, writer, fileOpen, csvPartial,
                 metas, history, policy, cpc>>

\* The user takes the recovery file of an earlier recording away.
RecoverPartial ==
  /\ cpc = "idle" /\ wpc = "none" /\ csvPartial.cap # 0
  /\ csvPartial' = NoFile
  /\ UNCHANGED <<flags, counters, flow, producer, writer, fileOpen, csv, metas,
                 history, policy, cpc>>

\* The companion process dies and is started again: files stay, with some
\* prefix of what was buffered; everything else is as at first.
Crash ==
  /\ crashes < MaxCrashes
  /\ crashes' = crashes + 1
  /\ IF fileOpen THEN SomeBufferedRowsReach(csvPartial)
                 ELSE UNCHANGED csvPartial
  /\ state' = "Idle" /\ open' = FALSE /\ inFlight' = 0
  /\ queue' = <<>> /\ batch' = <<>> /\ buf' = <<>>
  /\ accepted' = 0 /\ written' = 0 /\ overflowed' = FALSE /\ pauses' = 0
  /\ writerDone' = TRUE /\ lock' = "free"
  /\ ppc' = "idle" /\ cpc' = "idle"
  /\ wpc' = "none" /\ seen' = "Idle" /\ timed' = FALSE
  /\ fileOpen' = FALSE /\ ioFailed' = FALSE
  /\ UNCHANGED <<sample, calls, admitted, csv, metas, cap, policy>>

Environment == ForeignOutput \/ RecoverPartial \/ Crash

Next == \/ SubmitEnter \/ SubmitStep
        \/ Call \/ ControlStep
        \/ WriterStep
        \/ Environment

Spec == Init /\ [][Next]_vars

\* A thread that can run does; the deadline of a timed wait passes; a mutex
\* that is released again and again is not withheld from the controller for
\* ever.  Nobody has to call submit, start, pause, resume or stop.
Fairness == /\ WF_vars(SubmitStep) /\ WF_vars(WriterStep)
            /\ WF_vars(ControlStep)
            /\ SF_vars(PauseRequest) /\ SF_vars(PauseReturn)
            /\ SF_vars(StopRequest) /\ SF_vars(StopReturn)

FairSpec == Spec /\ Fairness
-----------------------------------------------------------------------------
(* Properties *)

IsPrefixOf(s, t) == Len(s) <= Len(t) /\ s = First(t, Len(s))

StepTypes ==
  /\ ppc \in {"idle", "push", "count", "full", "overflow", "release", "notify"}
  /\ cpc \in {"idle", "create", "header", "open", "spawn", "noThread", "pause",
              "pauseWait", "resume", "stop", "stopWait"}
  /\ wpc \in {"none", "pop", "write", "load", "drained", "size", "pauseFlush",
              "pause", "close", "promote", "metadata", "summary", "finished",
              "error", "finish", "done", "exited", "due", "wait", "doze",
              "asleep", "wake"}
  /\ state \in RecordingStates /\ seen \in RecordingStates
  /\ lock \in {"free", "controller", "writer"} /\ policy \in Policies

FlagTypes ==
  /\ open \in BOOLEAN /\ writerDone \in BOOLEAN /\ overflowed \in BOOLEAN
  /\ timed \in BOOLEAN /\ fileOpen \in BOOLEAN /\ ioFailed \in BOOLEAN

CountTypes ==
  /\ inFlight \in 0..1 /\ calls \in 0..MaxSubmits /\ crashes \in 0..MaxCrashes
  /\ cap \in 0..MaxCaptures
  /\ accepted \in Nat /\ written \in Nat /\ pauses \in Nat

SampleTypes ==
  /\ sample \in Samples /\ queue \in Seq(Samples) /\ batch \in Seq(Samples)
  /\ buf \in Seq(Samples) /\ admitted \in Seq(Samples)

FileTypes ==
  /\ csvPartial \in CsvFile /\ csv \in CsvFile
  /\ metaPartial \in 0..MaxCaptures /\ meta \in MetaFile

\* The shape of the state: the type of every variable.
TypeOK == StepTypes /\ FlagTypes /\ CountTypes /\ SampleTypes /\ FileTypes

\* A data file that carries the current capture's name holds exactly the samples
\* the capture admitted, in order: stop's drain loses, doubles and reorders
\* nothing, whatever submit was doing when the gate closed.
OutputIsComplete == csv.cap = cap /\ cap # 0 => csv.rows = admitted

\* What a failed or running capture leaves for recovery is a prefix of what it
\* admitted, after failures of any storage call and after a process death too.
PartialIsAPrefix ==
  csvPartial.cap = cap /\ cap # 0 => IsPrefixOf(csvPartial.rows, admitted)

\* No file holds a sample whose submit passed the gate in another capture: the
\* queue a failed recording left behind is discarded before the next one.
NoForeignRows ==
  \A file \in {csvPartial, csv} :
    \A i \in DOMAIN file.rows : file.rows[i].cap = file.cap

\* The summary beside the current capture's data tells the truth about it: the
\* counts agree with each other and with the rows of the file.
SummaryIsTrue ==
  meta.cap = cap /\ cap # 0 =>
    /\ csv.cap = cap
    /\ meta.accepted = Len(csv.rows) /\ meta.written = Len(csv.rows)

\* pause returns Ok on a recording that is really quiet: no submit is past the
\* gate, nothing is queued, and every admitted sample is flushed to the file.
PausedIsQuiet ==
  state = "Paused" =>
    /\ ~open /\ inFlight = 0
    /\ queue = <<>> /\ batch = <<>>
    /\ csvPartial.rows = admitted

\* start and resume always find the gate closed and drained, so the error
\* branches for a gate that did not drain are never taken.
ReopenFindsGateDrained == cpc \in {"open", "resume"} => CanOpen

\* Once the state is Error no further submit gets past the gate.
ErrorRefusesSubmissions == state = "Error" => ~open

\* stop returns Ok only when the data file and its summary are both in place.
StopOkMeansPublished ==
  cpc = "stopWait" /\ writerDone /\ state = "Idle" =>
    /\ csv.cap = cap /\ csv.rows = admitted
    /\ meta.cap = cap /\ csvPartial.cap = 0

\* A capture that overflowed still writes every sample it accepted when the
\* storage works.
OverflowKeepsAccepted ==
  wpc = "exited" /\ overflowed /\ ~ioFailed =>
    /\ admitted = IF csv.cap = cap THEN csv.rows ELSE csvPartial.rows
    /\ accepted = Len(admitted) /\ written = Len(admitted)

\* Under Refuse no step replaces an output file or a summary that exists, also
\* when another program created it while the recording ran.
RefuseNeverReplaces ==
  [][policy = "Refuse" => /\ csv.cap # 0 => UNCHANGED csv
                          /\ meta.cap # 0 => UNCHANGED meta]_vars

\* Every start, pause, resume and stop returns.
OperationsReturn == cpc # "idle" ~> cpc = "idle"

\* A notification that submit sends while the writer is about to sleep may be
\* lost; the queue is drained all the same unless the recording fails.
SamplesSettle == queue # <<>> ~> (queue = <<>> \/ state = "Error")

\* README.md:86, "Partial or failed captures do not receive a completed summary":
\* a capture that overflowed, and so lost samples, is never summed up as complete.
OverflowedCaptureHasNoSummary == overflowed /\ cap # 0 => meta.cap # cap
=============================================================================

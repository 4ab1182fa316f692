-------------------------- MODULE RecorderInvariant --------------------------
(***************************************************************************)
(* The inductive invariant behind the recorder's theorems, one conjunct    *)
(* per idea.  RecorderProofs proves it; MCRecorder checks it.              *)
(***************************************************************************)
EXTENDS Recorder

PastGate  == {"push", "count", "full", "overflow", "release"}
Beginning == {"create", "header", "open", "spawn", "noThread"}
Pausing   == {"pauseFlush", "pause"}
Closed    == {"promote", "metadata", "summary", "finished"}
Failing   == {"error", "finish", "done"}
Looping   == {"pop", "load", "due", "wait", "doze", "asleep", "wake"}

Alive == wpc \notin {"none", "exited"}
Shut  == ~open /\ inFlight = 0

\* The gate counts exactly the submit that is past it, and an overflow has
\* closed it.
GateFacts ==
  /\ inFlight = IF ppc \in PastGate THEN 1 ELSE 0
  /\ ppc = "overflow" => ~open
  /\ state = "Error" => ~open

\* What the controller's next step says about state, gate and writer.
ControlFacts ==
  /\ cpc = "idle" => /\ state \in {"Idle", "Recording", "Paused", "Error"}
                     /\ state = "Idle" => wpc = "none"
                     /\ state \in {"Recording", "Paused"} => Alive
  /\ cpc \in Beginning => wpc = "none" /\ cap # 0 /\ ~writerDone
  /\ cpc \in {"create", "header"} => state = "Starting"
  /\ cpc = "open" => state = "Recording"
  /\ cpc \in {"create", "header", "open"} => Shut
  /\ cpc \in {"spawn", "noThread"} => state \in {"Recording", "Error"}
  /\ cpc = "noThread" => ~open
  /\ cpc = "pause" => /\ state \in {"Recording", "Error"} /\ ~open
                      /\ wpc # "none" /\ (state = "Recording" => Alive)
  /\ cpc = "pauseWait" => /\ state \in {"Pausing", "Paused", "Error"}
                          /\ ~open /\ wpc # "none"
                          /\ state # "Error" => Alive
  /\ cpc = "resume" => state = "Recording"
  /\ cpc = "stop" => /\ state \in {"Recording", "Paused", "Error"}
                     /\ ~open /\ (state # "Error" => Alive)
  /\ cpc = "stopWait" => /\ state \in {"Stopping", "Error", "Idle"}
                         /\ ~open /\ (state = "Stopping" => Alive)

\* What the writer's next step says.
WriterFacts ==
  /\ Alive => ~writerDone /\ state # "Starting"
  /\ wpc # "none" => cap # 0
  /\ wpc = "exited" => state \in {"Idle", "Error"}
  /\ wpc = "error" => ~open /\ state # "Idle"
  /\ wpc = "finish" => state = "Error"
  /\ wpc = "done" => state \in {"Idle", "Error"}
  /\ state = "Idle" => Shut /\ queue = <<>> /\ wpc \in {"none", "done", "exited"}
  /\ wpc \in {"drained", "size"} =>
       /\ seen \in {"Pausing", "Stopping", "Error"}
       /\ seen = "Pausing" => cpc = "pauseWait" /\ state \in {"Pausing", "Error"}
       /\ seen = "Stopping" => cpc = "stopWait" /\ state \in {"Stopping", "Error"}
       /\ seen = "Error" => state = "Error"
  /\ wpc = "size" => inFlight = 0
  /\ wpc \in Pausing => /\ cpc = "pauseWait" /\ state \in {"Pausing", "Error"}
                        /\ Shut /\ queue = <<>>
  /\ wpc \in Closed \cup {"close"} =>
                        /\ cpc = "stopWait" /\ state \in {"Stopping", "Error"}
                        /\ Shut /\ queue = <<>>
  /\ wpc = "pause" => buf = <<>>

\* Nothing is on its way to the file while the recording is paused, nor until
\* resume opens the gate.
QuietFacts ==
  state = "Paused" \/ cpc = "resume" =>
    /\ Shut /\ queue = <<>> /\ batch = <<>> /\ buf = <<>>
    /\ wpc \in Looping

\* Who may hold samples, and which file they go to.
FileFacts ==
  /\ batch # <<>> => wpc \in {"pop", "write"}
  /\ fileOpen => csvPartial.cap = cap
  /\ csvPartial.cap = 0 => csvPartial = NoFile
  /\ wpc = "promote" => csvPartial.cap = cap
  /\ ~fileOpen => buf = <<>>
  /\ cpc \in Beginning => buf = <<>> /\ (fileOpen <=> cpc # "create")
  /\ Alive /\ wpc \notin Closed \cup Failing => fileOpen
  /\ wpc \in Closed \cup {"none", "done", "exited"} /\ cpc \notin Beginning => ~fileOpen
  /\ cpc = "create" => /\ csvPartial = NoFile
                       /\ queue = <<>> /\ admitted = <<>>
  /\ Alive /\ wpc \notin Failing => ~ioFailed
  /\ cpc \in Beginning \ {"noThread"} => ~ioFailed
  /\ csv.cap <= cap \/ csv.cap = Foreign
  /\ csv.cap = cap /\ cap # 0 =>
       /\ Shut /\ ~fileOpen
       /\ cpc = "stopWait" \/ (wpc = "none" /\ cpc \in {"idle", "stop"})
       /\ wpc \in {"none", "exited", "metadata", "summary", "finished"}
                  \cup Failing

Running == wpc # "none" \/ cpc \in Beginning

\* The way a sample takes, read from the file back to the queue.
Path == csvPartial.rows \o buf \o batch \o queue

\* Until storage fails or the file is promoted, every sample admitted is in
\* exactly one place on its way to the file, and in order.
Flow == ~ioFailed /\ csv.cap # cap /\ Running => Path = admitted

\* The conjuncts about what the threads are doing.
ThreadFacts == GateFacts /\ ControlFacts /\ WriterFacts /\ QuietFacts

Core == /\ TypeOK /\ ThreadFacts /\ FileFacts /\ Flow /\ OutputIsComplete
-----------------------------------------------------------------------------
(* What the files and the counters say about the capture they belong to *)

\* All samples of s passed the gate in capture c.
OwnedBy(s, c) == \A i \in DOMAIN s : s[i].cap = c

\* A sample on its way belongs to the current capture, a row to its file's.
OwnerFacts ==
  /\ ppc = "push" => sample.cap = cap
  /\ OwnedBy(queue, cap) /\ OwnedBy(batch, cap) /\ OwnedBy(buf, cap)
  /\ OwnedBy(csvPartial.rows, csvPartial.cap) /\ OwnedBy(csv.rows, csv.cap)

\* What has been counted, and what is about to be.
CountFacts ==
  Running =>
    /\ accepted + (IF ppc = "count" THEN 1 ELSE 0) = Len(admitted)
    /\ ~ioFailed => written + Len(batch) + Len(queue) = Len(admitted)

\* The rows of the partial file and of its buffer are the first ones admitted,
\* also when storage has failed.
ReachedFacts ==
  csvPartial.cap = cap /\ cap # 0 =>
    IsPrefixOf(csvPartial.rows \o buf, admitted)

\* What is in place at each step of a stop, and when the writer has ended.
PublishedFacts ==
  /\ wpc \in {"metadata", "summary", "finished"} =>
       csv.cap = cap /\ csvPartial.cap = 0
  /\ wpc = "finished" => meta.cap = cap
  /\ state = "Idle" /\ wpc \in {"done", "exited"} =>
       csv.cap = cap /\ csvPartial.cap = 0 /\ meta.cap = cap
  /\ cpc = "stopWait" /\ state = "Idle" => wpc # "none"
  /\ wpc = "error" => ioFailed
  /\ wpc \in {"finish", "done", "exited"} /\ ~ioFailed => Shut /\ queue = <<>>
  /\ meta.cap <= cap
  /\ cap = 0 => state = "Idle"

Books == OwnerFacts /\ CountFacts /\ ReachedFacts /\ PublishedFacts /\ SummaryIsTrue

IInv == Core /\ Books
=============================================================================

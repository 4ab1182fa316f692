--------------------------- MODULE RecorderProofs ---------------------------
(***************************************************************************)
(* Proofs about the recorder, for every size of its queue and its batch    *)
(* and for any number of samples, captures, pauses and process deaths.     *)
(* Everything rests on the inductive invariant of RecorderInvariant: one   *)
(* lemma says what a step does to each of its parts.  First Core, with     *)
(* what follows about samples and pauses; then Books, with what files and  *)
(* counters say; then that the recorder implements Capture.                *)
(***************************************************************************)
EXTENDS RecorderInvariant, RecorderRefinement, SequenceTheorems, TLAPS

-----------------------------------------------------------------------------
(* Facts about sequences and files *)

\* The first k elements of a sequence are a sequence of k elements.
LEMMA FirstType ==
  ASSUME NEW S, NEW s \in Seq(S), NEW k \in 0..Len(s)
  PROVE  First(s, k) \in Seq(S) /\ Len(First(s, k)) = k
<1>1. \A i \in 1..k : s[i] \in S
  BY ElementOfSeq, LenProperties
<1>2. QED
  BY <1>1, SubSeqProperties, LenProperties DEF First

\* Concatenation of sequences of samples is associative.
LEMMA Regroup ==
  \A s, t, u \in Seq(Samples) : (s \o t) \o u = s \o (t \o u)
BY ConcatAssociative

\* A sample appended to the last part of the path is appended to the path.
LEMMA AppendToPath ==
  ASSUME NEW S, NEW s \in Seq(S), NEW t \in Seq(S), NEW x \in S
  PROVE  s \o Append(t, x) = Append(s \o t, x)
<1>1. <<x>> \in Seq(S) /\ s \o t \in Seq(S)
  BY ConcatProperties
<1>2. (s \o t) \o <<x>> = s \o (t \o <<x>>)
  BY <1>1, ConcatAssociative
<1>3. Append(t, x) = t \o <<x>> /\ Append(s \o t, x) = (s \o t) \o <<x>>
  BY <1>1, AppendIsConcat
<1>4. QED
  BY <1>2, <1>3

\* Moving the head of the second part to the end of the first moves nothing.
LEMMA HeadToTail ==
  ASSUME NEW S, NEW s \in Seq(S), NEW t \in Seq(S), t # <<>>
  PROVE  Append(s, Head(t)) \o Tail(t) = s \o t
<1>1. /\ Head(t) \in S /\ Tail(t) \in Seq(S) /\ <<Head(t)>> \in Seq(S)
      /\ t = <<Head(t)>> \o Tail(t)
  <2>1. /\ Head(t) \in S /\ Tail(t) \in Seq(S) /\ Len(Tail(t)) = Len(t) - 1
        /\ \A i \in 1..Len(Tail(t)) : Tail(t)[i] = t[i + 1]
    BY HeadTailProperties
  <2>2. /\ <<Head(t)>> \in Seq(S) /\ Len(<<Head(t)>>) = 1
        /\ <<Head(t)>>[1] = t[1]
    BY <2>1
  <2>3. Len(t) \in Nat
    BY LenProperties
  <2>4. /\ <<Head(t)>> \o Tail(t) \in Seq(S)
        /\ Len(<<Head(t)>> \o Tail(t)) = Len(t)
        /\ \A i \in 1..Len(t) : (<<Head(t)>> \o Tail(t))[i] =
              IF i <= 1 THEN <<Head(t)>>[i] ELSE Tail(t)[i - 1]
    BY <2>1, <2>2, <2>3, ConcatProperties
  <2>5. \A i \in 1..Len(t) : (<<Head(t)>> \o Tail(t))[i] = t[i]
    BY <2>1, <2>2, <2>3, <2>4
  <2>6. QED
    BY <2>1, <2>2, <2>4, <2>5, SeqEqual
<1>2. (s \o <<Head(t)>>) \o Tail(t) = s \o (<<Head(t)>> \o Tail(t))
  BY <1>1, ConcatAssociative
<1>3. Append(s, Head(t)) = s \o <<Head(t)>>
  BY <1>1, AppendIsConcat
<1>4. QED
  BY <1>1, <1>2, <1>3

\* Rows added to a file change its rows alone.
LEMMA RowsAdded ==
  ASSUME NEW file \in CsvFile, NEW s \in Seq(Samples)
  PROVE  /\ [file EXCEPT !.rows = @ \o s] \in CsvFile
         /\ [file EXCEPT !.rows = @ \o s].cap = file.cap
         /\ [file EXCEPT !.rows = @ \o s].rows = file.rows \o s
<1>1. file.rows \o s \in Seq(Samples)
  BY ConcatProperties DEF CsvFile
<1>2. QED
  BY <1>1 DEF CsvFile

\* The files that appear out of nothing are files.
LEMMA EmptyFiles ==
  ASSUME TypeOK
  PROVE  /\ NewPartial \in CsvFile /\ NoFile \in CsvFile
         /\ [NoFile EXCEPT !.cap = Foreign] \in CsvFile
<1>1. \A c \in 0..MaxCaptures + 1 : [cap |-> c, rows |-> <<>>] \in CsvFile
  <2>1. <<>> \in Seq(Samples)
    BY EmptySeq
  <2>2. QED
    BY <2>1 DEF CsvFile
<1>2. /\ cap \in 0..MaxCaptures + 1 /\ Foreign \in 0..MaxCaptures + 1
      /\ 0 \in 0..MaxCaptures + 1
  BY RecorderConstants DEF TypeOK, CountTypes, Foreign, RecorderConstants
<1>3. [NoFile EXCEPT !.cap = Foreign] = [cap |-> Foreign, rows |-> <<>>]
  BY DEF NoFile
<1>4. QED
  BY <1>1, <1>2, <1>3 DEF NewPartial, NoFile

\* Whatever a flush, a close or a process death moves, the partial file stays
\* the file of its capture.
LEMMA FlushKeepsCapture ==
  ASSUME TypeOK,
         \/ WriterPauseFlush \/ WriterFlushDue \/ WriterClose
         \/ WriterFinishError \/ Crash
  PROVE  csvPartial' \in CsvFile /\ csvPartial'.cap = csvPartial.cap
<1>1. \/ SomeBufferedRowsReach(csvPartial)
      \/ csvPartial' = [csvPartial EXCEPT !.rows = @ \o buf]
      \/ UNCHANGED csvPartial
  BY DEF WriterPauseFlush, WriterFlushDue, WriterClose, Flush,
         WriterFinishError, Crash, SomeBufferedRowsReach
<1>2. CASE SomeBufferedRowsReach(csvPartial)
  <2>1. PICK k \in 0..Len(buf) :
          csvPartial' = [csvPartial EXCEPT !.rows = @ \o First(buf, k)]
    BY <1>2 DEF SomeBufferedRowsReach
  <2>2. First(buf, k) \in Seq(Samples)
    BY FirstType DEF TypeOK, SampleTypes
  <2>3. QED
    BY <2>1, <2>2, RowsAdded DEF TypeOK, FileTypes
<1>3. CASE csvPartial' = [csvPartial EXCEPT !.rows = @ \o buf]
  BY <1>3, RowsAdded DEF TypeOK, FileTypes, SampleTypes
<1>4. QED
  BY <1>1, <1>2, <1>3 DEF TypeOK, FileTypes
-----------------------------------------------------------------------------
(* Who moves what *)

Bystander == /\ UNCHANGED <<flow, sample, csvPartial, csv, metas, cap>>
             /\ ioFailed => ioFailed'
             /\ Running' => Running

\* Every step but these leaves the samples and the files where they are.
LEMMA WhoMovesData ==
  ASSUME [Next]_vars
  PROVE  \/ Bystander
         \/ SubmitEnter \/ SubmitPush \/ StartCall \/ StartCreate
         \/ WriterPop \/ WriterWrite \/ WriterPauseFlush \/ WriterFlushDue
         \/ WriterClose \/ WriterFinishError
         \/ WriterPromote \/ WriterMetadata \/ WriterSummary \/ Environment
<1> USE DEF flags, counters, flow, producer, writer, csvFiles, metas, history,
            disk, Running, Bystander
<1>1. CASE SubmitStep
  BY <1>1
    DEF SubmitStep, SubmitCount, SubmitFull, SubmitOverflow, SubmitRelease,
        SubmitNotify, NotifyWriter
<1>2. CASE Call \/ ControlStep
  BY <1>2
    DEF Call, ControlStep, StartHeader, StartOpen, StartSpawn, StartNoThread,
        PauseCall, PauseRequest, PauseReturn, ResumeRequest, ResumeOpen,
        StopCall, StopRequest, StopReturn, NotifyWriter, Beginning
<1>3. CASE WriterStep
  BY <1>3
    DEF WriterStep, WriterPopped, WriterLoad, WriterDrained, WriterSize,
        WriterPause, WriterFinished, WriterError, WriterDone, WriterNotDue,
        WriterWait, WriterSleep, WriterWake, WriterTimeout
<1>4. CASE UNCHANGED vars
  BY <1>4 DEF vars
<1>5. QED
  BY <1>1, <1>2, <1>3, <1>4 DEF Next
-----------------------------------------------------------------------------
(* Types *)

\* Steps, states, locks and policies keep their types.
LEMMA StepTypesStep ==
  ASSUME TypeOK, [Next]_vars PROVE StepTypes'
<1> USE DEF TypeOK, StepTypes, RecordingStates, flags, producer, writer
<1>1. CASE SubmitEnter \/ SubmitStep
  BY <1>1
    DEF SubmitEnter, SubmitStep, SubmitPush, SubmitCount, SubmitFull,
        SubmitOverflow, SubmitRelease, SubmitNotify, NotifyWriter, ToError
<1>2. CASE Call \/ ControlStep
  BY <1>2
    DEF Call, StartCall, PauseCall, ResumeRequest, StopCall, ControlStep,
        StartCreate, StartHeader, StartOpen, StartSpawn, StartNoThread,
        PauseRequest, PauseReturn, ResumeOpen, StopRequest, StopReturn,
        NotifyWriter, ToError, Policies
<1>3. CASE WriterStep
  BY <1>3
    DEF WriterStep, WriterPop, WriterPopped, WriterWrite, WriterLoad,
        WriterDrained, WriterSize, WriterPauseFlush, WriterPause, WriterClose,
        WriterPromote, WriterMetadata, WriterSummary, WriterFinished,
        WriterError, WriterFinishError, WriterDone, WriterFlushDue,
        WriterNotDue, WriterWait, WriterSleep, WriterWake, WriterTimeout,
        Flush, FailTo, SleepUnless, ToError
<1>4. CASE Environment
  BY <1>4 DEF Environment, ForeignOutput, RecoverPartial, Crash
<1>5. CASE UNCHANGED vars
  BY <1>5 DEF vars
<1>6. QED
  BY <1>1, <1>2, <1>3, <1>4, <1>5 DEF Next

\* The flags keep their type.
LEMMA FlagTypesStep ==
  ASSUME TypeOK, [Next]_vars PROVE FlagTypes'
<1> USE DEF TypeOK, FlagTypes, gate, flags, counters, writer, csvFiles,
            history, disk
<1>1. CASE SubmitEnter \/ SubmitStep
  BY <1>1
    DEF SubmitEnter, SubmitStep, SubmitPush, SubmitCount, SubmitFull,
        SubmitOverflow, SubmitRelease, SubmitNotify, Enter, Leave, Close
<1>2. CASE Call \/ ControlStep
  BY <1>2
    DEF Call, StartCall, PauseCall, ResumeRequest, StopCall, ControlStep,
        StartCreate, StartHeader, StartOpen, StartSpawn, StartNoThread,
        PauseRequest, PauseReturn, ResumeOpen, StopRequest, StopReturn, Close,
        Open
<1>3. CASE WriterStep
  BY <1>3, ZenonT(60)
    DEF WriterStep, WriterPop, WriterPopped, WriterWrite, WriterLoad,
        WriterDrained, WriterSize, WriterPauseFlush, WriterPause, WriterClose,
        WriterPromote, WriterMetadata, WriterSummary, WriterFinished,
        WriterError, WriterFinishError, WriterDone, WriterFlushDue,
        WriterNotDue, WriterWait, WriterSleep, WriterWake, WriterTimeout,
        Flush, FailTo, Close
<1>4. CASE Environment
  BY <1>4 DEF Environment, ForeignOutput, RecoverPartial, Crash
<1>5. CASE UNCHANGED vars
  BY <1>5 DEF vars
<1>6. QED
  BY <1>1, <1>2, <1>3, <1>4, <1>5 DEF Next

\* The counters keep their types; the gate's, because only a submit that is past
\* the gate leaves it.
LEMMA CountTypesStep ==
  ASSUME TypeOK, GateFacts, [Next]_vars PROVE CountTypes'
<1> USE DEF TypeOK, CountTypes, gate, flags, counters, producer, history
<1>1. CASE SubmitEnter \/ SubmitStep
  BY <1>1, RecorderConstants
    DEF SubmitEnter, SubmitStep, SubmitPush, SubmitCount, SubmitFull,
        SubmitOverflow, SubmitRelease, SubmitNotify, Enter, Leave, Close,
        GateFacts, PastGate, RecorderConstants
<1>2. CASE Call \/ ControlStep
  BY <1>2, RecorderConstants
    DEF Call, StartCall, PauseCall, ResumeRequest, StopCall, ControlStep,
        StartCreate, StartHeader, StartOpen, StartSpawn, StartNoThread,
        PauseRequest, PauseReturn, ResumeOpen, StopRequest, StopReturn, Close,
        Open, RecorderConstants
<1>3. CASE WriterStep
  <2>1. CASE WriterWrite
    BY <2>1, LenProperties DEF WriterWrite, FailTo, Close, SampleTypes
  <2>2. CASE ~WriterWrite
    BY <1>3, <2>2
      DEF WriterStep, WriterPop, WriterPopped, WriterLoad, WriterDrained,
          WriterSize, WriterPauseFlush, WriterPause, WriterClose,
          WriterPromote, WriterMetadata, WriterSummary, WriterFinished,
          WriterError, WriterFinishError, WriterDone, WriterFlushDue,
          WriterNotDue, WriterWait, WriterSleep, WriterWake, WriterTimeout,
          Flush, FailTo, Close
  <2>3. QED
    BY <2>1, <2>2
<1>4. CASE Environment
  BY <1>4, RecorderConstants
    DEF Environment, ForeignOutput, RecoverPartial, Crash, RecorderConstants
<1>5. CASE UNCHANGED vars
  BY <1>5 DEF vars
<1>6. QED
  BY <1>1, <1>2, <1>3, <1>4, <1>5 DEF Next

\* The queue, the batch, the buffer and the history hold samples.
LEMMA SampleTypesStep ==
  ASSUME TypeOK, [Next]_vars PROVE SampleTypes'
<1> USE DEF SampleTypes, flow, producer
<1>1. CASE Bystander \/ StartCreate \/ WriterPromote \/ WriterMetadata
           \/ WriterSummary \/ ForeignOutput \/ RecoverPartial
  <2>1. UNCHANGED <<flow, sample>>
    BY <1>1
      DEF Bystander, StartCreate, WriterPromote, WriterMetadata, WriterSummary,
          ForeignOutput, RecoverPartial
  <2>2. QED
    BY <2>1 DEF TypeOK
<1>2. CASE SubmitEnter
  <2>1. cap \in 0..MaxCaptures /\ calls + 1 \in 0..MaxSubmits
    BY <1>2, RecorderConstants
      DEF SubmitEnter, TypeOK, CountTypes, RecorderConstants
  <2>2. sample' \in Samples
    BY <2>1, <1>2 DEF SubmitEnter, Samples
  <2>3. QED
    BY <1>2, <2>2 DEF SubmitEnter, TypeOK
<1>3. CASE SubmitPush
  <2>1. UNCHANGED <<sample, batch, buf>>
    BY <1>3 DEF SubmitPush
  <2>2. CASE UNCHANGED <<queue, admitted>>
    BY <2>1, <2>2 DEF TypeOK
  <2>3. CASE /\ queue' = Append(queue, sample)
             /\ admitted' = Append(admitted, sample)
    <3>1. queue' \in Seq(Samples) /\ admitted' \in Seq(Samples)
      BY <2>3, AppendProperties DEF TypeOK
    <3>2. QED
      BY <2>1, <3>1 DEF TypeOK
  <2>4. QED
    BY <1>3, <2>2, <2>3 DEF SubmitPush
<1>4. CASE StartCall
  BY <1>4, EmptySeq DEF StartCall, TypeOK
<1>5. CASE WriterPop
  BY <1>5, AppendProperties, HeadTailProperties DEF WriterPop, TypeOK
<1>6. CASE WriterWrite
  <2>1. batch' = <<>> /\ UNCHANGED <<queue, admitted, sample>>
    BY <1>6 DEF WriterWrite
  <2>2. buf' \in Seq(Samples)
    <3>1. CASE buf' = buf \o batch
      BY <3>1, ConcatProperties DEF TypeOK
    <3>2. CASE \E k \in 0..Len(batch) : buf' = buf \o First(batch, k)
      BY <3>2, ConcatProperties, FirstType DEF TypeOK
    <3>3. QED
      BY <1>6, <3>1, <3>2 DEF WriterWrite
  <2>3. QED
    BY <2>1, <2>2, EmptySeq DEF TypeOK
<1>7. CASE WriterClose \/ WriterFinishError \/ WriterPauseFlush
           \/ WriterFlushDue
  <2>1. buf' \in {buf, <<>>} /\ UNCHANGED <<queue, batch, admitted, sample>>
    BY <1>7
      DEF WriterClose, WriterFinishError, WriterPauseFlush, WriterFlushDue,
          Flush
  <2>2. QED
    BY <2>1, EmptySeq DEF TypeOK
<1>8. CASE Crash
  BY <1>8, EmptySeq DEF Crash, TypeOK
<1>9. QED
  BY <1>1, <1>2, <1>3, <1>4, <1>5, <1>6, <1>7, <1>8, WhoMovesData
    DEF Environment

\* The files keep their types.
LEMMA FileTypesStep ==
  ASSUME TypeOK, [Next]_vars PROVE FileTypes'
<1>1. CASE Bystander \/ SubmitEnter \/ SubmitPush \/ StartCall \/ WriterPop
           \/ WriterWrite
  <2>1. UNCHANGED <<csvPartial, csv, metaPartial, meta>>
    BY <1>1
      DEF Bystander, SubmitEnter, SubmitPush, StartCall, WriterPop,
          WriterWrite, disk, csvFiles, metas
  <2>2. QED
    BY <2>1 DEF TypeOK, FileTypes
<1>2. CASE WriterPauseFlush \/ WriterFlushDue \/ WriterClose
           \/ WriterFinishError \/ Crash
  <2>1. UNCHANGED <<csv, metaPartial, meta>>
    BY <1>2
      DEF WriterPauseFlush, WriterFlushDue, WriterClose, WriterFinishError,
          Crash, metas
  <2>2. QED
    BY <1>2, <2>1, FlushKeepsCapture DEF TypeOK, FileTypes
<1>3. CASE StartCreate \/ ForeignOutput \/ RecoverPartial
  <2>1. /\ csvPartial' \in {csvPartial, NewPartial, NoFile}
        /\ csv' \in {csv, [NoFile EXCEPT !.cap = Foreign]}
        /\ UNCHANGED <<metaPartial, meta>>
    BY <1>3
      DEF StartCreate, ForeignOutput, RecoverPartial, AfterFailedCreate, metas
  <2>2. QED
    BY <2>1, EmptyFiles DEF TypeOK, FileTypes
<1>4. CASE WriterPromote
  BY <1>4, EmptyFiles DEF WriterPromote, metas, TypeOK, FileTypes
<1>5. CASE WriterMetadata
  <2>1. /\ metaPartial' \in {metaPartial, cap}
        /\ UNCHANGED <<csvPartial, csv, meta>>
    BY <1>5 DEF WriterMetadata, AfterFailedCreate, csvFiles
  <2>2. metaPartial' \in 0..MaxCaptures
    BY <2>1 DEF TypeOK, FileTypes, CountTypes
  <2>3. QED
    BY <2>1, <2>2 DEF TypeOK, FileTypes
<1>6. CASE WriterSummary
  <2>1. Summary \in MetaFile
    BY DEF Summary, MetaFile, TypeOK, CountTypes
  <2>2. QED
    BY <1>6, <2>1, RecorderConstants
      DEF WriterSummary, csvFiles, TypeOK, FileTypes, RecorderConstants
<1>7. QED
  BY <1>1, <1>2, <1>3, <1>4, <1>5, <1>6, WhoMovesData DEF Environment
-----------------------------------------------------------------------------
(* The threads and the files *)

\* What the steps of the three threads say about each other.
LEMMA ThreadFactsStep ==
  ASSUME TypeOK, ThreadFacts, FileFacts, [Next]_vars PROVE ThreadFacts'
<1> USE DEF TypeOK, StepTypes, FlagTypes, CountTypes, gate, flags, counters,
            flow, producer, writer, csvFiles, metas, history, disk,
            ThreadFacts, GateFacts, ControlFacts, WriterFacts, QuietFacts,
            FileFacts, PastGate, Beginning, Pausing, Closed, Failing, Looping,
            Alive, Shut
<1>1. CASE SubmitEnter
  BY <1>1 DEF SubmitEnter, Enter
<1>2. CASE SubmitStep
  <2>1. CASE SubmitPush
    BY <2>1 DEF SubmitPush
  <2>2. CASE SubmitCount
    BY <2>2 DEF SubmitCount
  <2>3. CASE SubmitFull
    BY <2>3 DEF SubmitFull, Close
  <2>4. CASE SubmitOverflow
    BY <2>4 DEF SubmitOverflow, ToError, NotifyWriter
  <2>5. CASE SubmitRelease
    BY <2>5 DEF SubmitRelease, Leave
  <2>6. CASE SubmitNotify
    BY <2>6 DEF SubmitNotify, NotifyWriter
  <2>7. QED
    BY <1>2, <2>1, <2>2, <2>3, <2>4, <2>5, <2>6 DEF SubmitStep
<1>3. CASE Call
  <2>1. CASE StartCall
    BY <2>1 DEF StartCall, MayStart, ClosedError, Drained
  <2>2. CASE PauseCall
    BY <2>2 DEF PauseCall, Close
  <2>3. CASE ResumeRequest
    BY <2>3 DEF ResumeRequest
  <2>4. CASE StopCall
    BY <2>4 DEF StopCall, Close
  <2>5. QED
    BY <1>3, <2>1, <2>2, <2>3, <2>4 DEF Call
<1>4. CASE ControlStep
  <2>1. CASE StartCreate
    BY <2>1 DEF StartCreate, NewPartial, NoFile, AfterFailedCreate
  <2>2. CASE StartHeader
    <3>1. CASE state' = "Recording" /\ cpc' = "open" /\ UNCHANGED writerDone
      BY <2>2, <3>1 DEF StartHeader
    <3>2. CASE state' = "Error" /\ cpc' = "idle"
      BY <2>2, <3>2 DEF StartHeader
    <3>3. QED
      BY <2>2, <3>1, <3>2 DEF StartHeader
  <2>3. CASE StartOpen
    <3>1. cpc = "open" /\ CanOpen /\ ppc \notin PastGate
      BY <2>3 DEF StartOpen, CanOpen
    <3>2. /\ Open /\ cpc' = "spawn"
          /\ UNCHANGED <<state, ppc, wpc, writerDone, fileOpen, cap, queue,
                         batch, buf, seen>>
      BY <2>3, <3>1 DEF StartOpen
    <3>3. QED
      BY <2>3, <3>1, <3>2 DEF Open, CanOpen
  <2>4. CASE StartSpawn
    BY <2>4 DEF StartSpawn, Close
  <2>5. CASE StartNoThread
    BY <2>5 DEF StartNoThread, ToError
  <2>6. CASE PauseRequest
    BY <2>6 DEF PauseRequest, NotifyWriter
  <2>7. CASE PauseReturn
    BY <2>7 DEF PauseReturn
  <2>8. CASE ResumeOpen
    BY <2>8 DEF ResumeOpen, CanOpen, Close, ToError, NotifyWriter, Open
  <2>9. CASE StopRequest
    BY <2>9 DEF StopRequest, NotifyWriter
  <2>10. CASE StopReturn
    BY <2>10 DEF StopReturn
  <2>11. QED
    BY <1>4, <2>1, <2>2, <2>3, <2>4, <2>5, <2>6, <2>7, <2>8, <2>9, <2>10
      DEF ControlStep
<1>5. CASE WriterStep
  <2>1. CASE WriterPop
    BY <2>1 DEF WriterPop
  <2>2. CASE WriterPopped
    BY <2>2 DEF WriterPopped
  <2>3. CASE WriterWrite
    <3>1. GateFacts'
      BY <2>3 DEF WriterWrite, FailTo, Close, First
    <3>2. ControlFacts'
      BY <2>3 DEF WriterWrite, FailTo, Close, First
    <3>3. WriterFacts'
      BY <2>3 DEF WriterWrite, FailTo, Close, First
    <3>4. QuietFacts'
      BY <2>3 DEF WriterWrite, FailTo, Close, First
    <3>5. QED
      BY <3>1, <3>2, <3>3, <3>4 DEF ThreadFacts
  <2>4. CASE WriterLoad
    BY <2>4 DEF WriterLoad
  <2>5. CASE WriterDrained
    BY <2>5 DEF WriterDrained, Drained
  <2>6. CASE WriterSize
    BY <2>6 DEF WriterSize
  <2>7. CASE WriterPauseFlush
    BY <2>7
      DEF WriterPauseFlush, Flush, FailTo, Close, SomeBufferedRowsReach, First
  <2>8. CASE WriterPause
    BY <2>8 DEF WriterPause
  <2>9. CASE WriterClose
    <3>1. /\ \/ wpc' = "promote" /\ UNCHANGED gate
             \/ wpc' = "error" /\ Close
          /\ buf' = <<>>
          /\ UNCHANGED <<state, ppc, cpc, writerDone, cap, queue, batch, seen>>
      BY <2>9 DEF WriterClose, FailTo
    <3>2. wpc = "close"
      BY <2>9 DEF WriterClose
    <3>3. QED
      BY <3>1, <3>2 DEF Close
  <2>10. CASE WriterPromote
    BY <2>10 DEF WriterPromote, FailTo, Close, MayPromoteOver, NoFile
  <2>11. CASE WriterMetadata
    BY <2>11 DEF WriterMetadata, FailTo, Close, AfterFailedCreate
  <2>12. CASE WriterSummary
    BY <2>12 DEF WriterSummary, FailTo, Close, MayPromoteOver, Summary
  <2>13. CASE WriterFinished
    BY <2>13 DEF WriterFinished
  <2>14. CASE WriterError
    BY <2>14 DEF WriterError, ToError
  <2>15. CASE WriterFinishError
    BY <2>15 DEF WriterFinishError, First
  <2>16. CASE WriterDone
    BY <2>16 DEF WriterDone
  <2>17. CASE WriterFlushDue
    <3>1. GateFacts'
      BY <2>17
        DEF WriterFlushDue, Flush, FailTo, Close, SomeBufferedRowsReach, First
    <3>2. ControlFacts'
      BY <2>17
        DEF WriterFlushDue, Flush, FailTo, Close, SomeBufferedRowsReach, First
    <3>3. WriterFacts'
      BY <2>17
        DEF WriterFlushDue, Flush, FailTo, Close, SomeBufferedRowsReach, First
    <3>4. QuietFacts'
      BY <2>17
        DEF WriterFlushDue, Flush, FailTo, Close, SomeBufferedRowsReach, First
    <3>5. QED
      BY <3>1, <3>2, <3>3, <3>4 DEF ThreadFacts
  <2>18. CASE WriterNotDue
    BY <2>18 DEF WriterNotDue
  <2>19. CASE WriterWait
    BY <2>19 DEF WriterWait, Awaited, SleepUnless
  <2>20. CASE WriterSleep
    BY <2>20 DEF WriterSleep
  <2>21. CASE WriterWake
    BY <2>21 DEF WriterWake, Awaited, SleepUnless
  <2>22. CASE WriterTimeout
    BY <2>22 DEF WriterTimeout
  <2>23. QED
    BY <1>5, <2>1, <2>2, <2>3, <2>4, <2>5, <2>6, <2>7, <2>8, <2>9, <2>10,
       <2>11, <2>12, <2>13, <2>14, <2>15, <2>16, <2>17, <2>18, <2>19, <2>20,
       <2>21, <2>22
      DEF WriterStep
<1>6. CASE Environment
  <2>1. CASE ForeignOutput
    BY <2>1 DEF ForeignOutput, NoFile
  <2>2. CASE RecoverPartial
    BY <2>2 DEF RecoverPartial, NoFile
  <2>3. CASE Crash
    BY <2>3 DEF Crash, SomeBufferedRowsReach, First
  <2>4. QED
    BY <1>6, <2>1, <2>2, <2>3 DEF Environment
<1>7. CASE UNCHANGED vars
  BY <1>7 DEF vars
<1>8. QED
  BY <1>1, <1>2, <1>3, <1>4, <1>5, <1>6, <1>7 DEF Next

\* Which file is open, whose it is, and who holds samples for it.
LEMMA FileFactsStep ==
  ASSUME TypeOK, ThreadFacts, FileFacts, [Next]_vars PROVE FileFacts'
<1> USE DEF TypeOK, StepTypes, FlagTypes, FileTypes, CountTypes, gate, flags,
            counters, flow, producer, writer, csvFiles, metas, history, disk,
            FileFacts, Closed, Failing, Beginning, Alive, Shut, ThreadFacts,
            GateFacts, ControlFacts, WriterFacts, QuietFacts, Looping, PastGate
<1>1. CASE SubmitEnter
  BY <1>1 DEF SubmitEnter, Enter
<1>2. CASE SubmitStep
  <2>1. CASE SubmitPush
    BY <2>1 DEF SubmitPush
  <2>2. CASE SubmitCount
    BY <2>2 DEF SubmitCount
  <2>3. CASE SubmitFull
    BY <2>3 DEF SubmitFull, Close
  <2>4. CASE SubmitOverflow
    BY <2>4 DEF SubmitOverflow, ToError, NotifyWriter
  <2>5. CASE SubmitRelease
    BY <2>5 DEF SubmitRelease, Leave
  <2>6. CASE SubmitNotify
    BY <2>6 DEF SubmitNotify, NotifyWriter
  <2>7. QED
    BY <1>2, <2>1, <2>2, <2>3, <2>4, <2>5, <2>6 DEF SubmitStep
<1>3. CASE Call
  <2>1. CASE StartCall
    <3>1. /\ cpc = "idle" /\ wpc = "none" /\ csvPartial.cap = 0
          /\ cap < MaxCaptures
          /\ csv.cap \in 0..MaxCaptures + 1 /\ cap \in 0..MaxCaptures
      BY <2>1 DEF StartCall, MayStart, CsvFile
    <3>2. cpc' = "create" /\ cap' = cap + 1
          /\ UNCHANGED <<wpc, csvPartial, csv, gate, batch, buf, fileOpen>>
          /\ ~ioFailed' /\ admitted' = <<>> /\ queue' = <<>>
      BY <2>1 DEF StartCall, MayStart
    <3>3. csv'.cap # cap' /\ (csv'.cap <= cap' \/ csv'.cap = Foreign)
      BY <3>1, <3>2, RecorderConstants DEF Foreign, RecorderConstants
    <3>4. QED
      BY <3>1, <3>2, <3>3
  <2>2. CASE PauseCall
    BY <2>2 DEF PauseCall, Close
  <2>3. CASE ResumeRequest
    BY <2>3 DEF ResumeRequest
  <2>4. CASE StopCall
    BY <2>4 DEF StopCall, Close
  <2>5. QED
    BY <1>3, <2>1, <2>2, <2>3, <2>4 DEF Call
<1>4. CASE ControlStep
  <2>1. CASE StartCreate
    BY <2>1 DEF StartCreate, NewPartial, NoFile, AfterFailedCreate
  <2>2. CASE StartHeader
    <3>1. /\ cpc = "header" /\ wpc = "none" /\ batch = <<>> /\ buf = <<>>
          /\ fileOpen /\ cap # 0 /\ csvPartial.cap = cap /\ csv.cap # cap
          /\ ~ioFailed
          /\ UNCHANGED <<wpc, csvPartial, csv, cap, queue, batch, buf,
                         admitted>>
      BY <2>2 DEF StartHeader
    <3>2. CASE cpc' = "open" /\ UNCHANGED <<fileOpen, ioFailed>>
      BY <3>1, <3>2
    <3>3. CASE cpc' = "idle" /\ fileOpen' = FALSE
      BY <3>1, <3>3
    <3>4. QED
      BY <2>2, <3>2, <3>3 DEF StartHeader
  <2>3. CASE StartOpen
    BY <2>3 DEF StartOpen, CanOpen, Close, ToError, Open
  <2>4. CASE StartSpawn
    BY <2>4 DEF StartSpawn, Close
  <2>5. CASE StartNoThread
    BY <2>5 DEF StartNoThread, ToError
  <2>6. CASE PauseRequest
    BY <2>6 DEF PauseRequest, NotifyWriter
  <2>7. CASE PauseReturn
    BY <2>7 DEF PauseReturn
  <2>8. CASE ResumeOpen
    BY <2>8 DEF ResumeOpen, CanOpen, Close, ToError, NotifyWriter, Open
  <2>9. CASE StopRequest
    BY <2>9 DEF StopRequest, NotifyWriter
  <2>10. CASE StopReturn
    BY <2>10 DEF StopReturn
  <2>11. QED
    BY <1>4, <2>1, <2>2, <2>3, <2>4, <2>5, <2>6, <2>7, <2>8, <2>9, <2>10
      DEF ControlStep
<1>5. CASE WriterStep
  <2>1. CASE WriterPop
    BY <2>1 DEF WriterPop
  <2>2. CASE WriterPopped
    BY <2>2 DEF WriterPopped
  <2>3. CASE WriterWrite
    <3>1. /\ batch' = <<>>
          /\ wpc' \in {"load", "error"}
          /\ wpc' # "error" => UNCHANGED ioFailed
          /\ UNCHANGED <<fileOpen, csvPartial, cpc, cap, csv, queue, admitted>>
          /\ inFlight' = inFlight /\ (open' => open)
      BY <2>3 DEF WriterWrite, FailTo, Close
    <3>2. wpc = "write"
      BY <2>3 DEF WriterWrite
    <3>3. QED
      BY <3>1, <3>2
  <2>4. CASE WriterLoad
    BY <2>4 DEF WriterLoad
  <2>5. CASE WriterDrained
    BY <2>5 DEF WriterDrained, Drained
  <2>6. CASE WriterSize
    BY <2>6 DEF WriterSize
  <2>7. CASE WriterPauseFlush
    <3>1. csvPartial'.cap = csvPartial.cap
      BY <2>7, FlushKeepsCapture
    <3>2. /\ csvPartial'.cap = csvPartial.cap
          /\ buf' = <<>> /\ wpc' \in {"pause", "wait", "error"}
          /\ wpc' # "error" => UNCHANGED ioFailed
          /\ UNCHANGED <<fileOpen, batch, cpc, cap, csv, queue, admitted>>
          /\ inFlight' = inFlight /\ (open' => open)
      BY <2>7, <3>1 DEF WriterPauseFlush, Flush, FailTo, Close
    <3>3. wpc \in {"pauseFlush", "due"}
      BY <2>7 DEF WriterPauseFlush
    <3>4. QED
      BY <3>2, <3>3
  <2>8. CASE WriterPause
    BY <2>8 DEF WriterPause
  <2>9. CASE WriterClose
    <3>1. csvPartial'.cap = csvPartial.cap
      BY <2>9, FlushKeepsCapture
    <3>2. /\ wpc = "close" /\ cpc = "stopWait"
          /\ fileOpen /\ cap # 0 /\ csvPartial.cap = cap /\ csv.cap # cap
          /\ ~ioFailed /\ batch = <<>>
          /\ UNCHANGED <<batch, cpc, cap, csv, queue, admitted>> /\ buf' = <<>>
      BY <2>9 DEF WriterClose
    <3>3. CASE /\ fileOpen' = FALSE /\ wpc' = "promote"
               /\ UNCHANGED <<gate, ioFailed>>
      BY <3>1, <3>2, <3>3
    <3>4. CASE FailTo("error") /\ UNCHANGED fileOpen
      BY <3>1, <3>2, <3>4 DEF FailTo, Close
    <3>5. QED
      BY <2>9, <3>3, <3>4 DEF WriterClose
  <2>10. CASE WriterPromote
    BY <2>10, RecorderConstants
      DEF WriterPromote, FailTo, Close, NoFile, Foreign, RecorderConstants
  <2>11. CASE WriterMetadata
    BY <2>11 DEF WriterMetadata, FailTo, Close, AfterFailedCreate
  <2>12. CASE WriterSummary
    BY <2>12 DEF WriterSummary, FailTo, Close, MayPromoteOver, Summary
  <2>13. CASE WriterFinished
    BY <2>13 DEF WriterFinished
  <2>14. CASE WriterError
    BY <2>14 DEF WriterError, ToError
  <2>15. CASE WriterFinishError
    <3>1. /\ csvPartial'.cap = csvPartial.cap
          /\ buf' = <<>> /\ ~fileOpen' /\ wpc' = "done"
          /\ UNCHANGED <<batch, cpc, cap, csv, queue, admitted, gate>>
          /\ ~fileOpen => UNCHANGED csvPartial
      BY <2>15, FlushKeepsCapture DEF WriterFinishError
    <3>2. wpc = "finish"
      BY <2>15 DEF WriterFinishError
    <3>3. QED
      BY <3>1, <3>2
  <2>16. CASE WriterDone
    BY <2>16 DEF WriterDone
  <2>17. CASE WriterFlushDue
    <3>1. csvPartial'.cap = csvPartial.cap
      BY <2>17, FlushKeepsCapture
    <3>2. /\ csvPartial'.cap = csvPartial.cap
          /\ buf' = <<>> /\ wpc' \in {"pause", "wait", "error"}
          /\ wpc' # "error" => UNCHANGED ioFailed
          /\ UNCHANGED <<fileOpen, batch, cpc, cap, csv, queue, admitted>>
          /\ inFlight' = inFlight /\ (open' => open)
      BY <2>17, <3>1 DEF WriterFlushDue, Flush, FailTo, Close
    <3>3. wpc \in {"pauseFlush", "due"}
      BY <2>17 DEF WriterFlushDue
    <3>4. QED
      BY <3>2, <3>3
  <2>18. CASE WriterNotDue
    BY <2>18 DEF WriterNotDue
  <2>19. CASE WriterWait
    BY <2>19 DEF WriterWait, Awaited, SleepUnless
  <2>20. CASE WriterSleep
    BY <2>20 DEF WriterSleep
  <2>21. CASE WriterWake
    BY <2>21 DEF WriterWake, Awaited, SleepUnless
  <2>22. CASE WriterTimeout
    BY <2>22 DEF WriterTimeout
  <2>23. QED
    BY <1>5, <2>1, <2>2, <2>3, <2>4, <2>5, <2>6, <2>7, <2>8, <2>9, <2>10,
       <2>11, <2>12, <2>13, <2>14, <2>15, <2>16, <2>17, <2>18, <2>19, <2>20,
       <2>21, <2>22
      DEF WriterStep
<1>6. CASE Environment
  <2>1. CASE ForeignOutput
    BY <2>1, RecorderConstants
      DEF ForeignOutput, NoFile, Foreign, RecorderConstants
  <2>2. CASE RecoverPartial
    BY <2>2 DEF RecoverPartial, NoFile
  <2>3. CASE Crash
    <3>1. /\ csvPartial'.cap = csvPartial.cap
          /\ (~fileOpen => UNCHANGED csvPartial)
      BY <2>3, FlushKeepsCapture DEF Crash
    <3>2. /\ queue' = <<>> /\ batch' = <<>> /\ buf' = <<>>
          /\ ~open' /\ inFlight' = 0 /\ ~fileOpen'
          /\ cpc' = "idle" /\ wpc' = "none" /\ UNCHANGED <<cap, csv>>
      BY <2>3 DEF Crash
    <3>3. QED
      BY <3>1, <3>2
  <2>4. QED
    BY <1>6, <2>1, <2>2, <2>3 DEF Environment
<1>7. CASE UNCHANGED vars
  BY <1>7 DEF vars
<1>8. QED
  BY <1>1, <1>2, <1>3, <1>4, <1>5, <1>6, <1>7 DEF Next
-----------------------------------------------------------------------------
(* The samples *)

\* No step of a writer that works loses, doubles or reorders a sample, wherever
\* the samples are.
LEMMA FlowStep ==
  ASSUME TypeOK, ThreadFacts, FileFacts, Flow, [Next]_vars
  PROVE  Flow'
<1> SUFFICES ASSUME ~ioFailed', csv'.cap # cap', Running'
             PROVE  Path' = admitted'
  BY DEF Flow
<1>1. CASE Bystander \/ SubmitEnter \/ WriterMetadata \/ WriterSummary
  <2>1. /\ UNCHANGED <<queue, batch, buf, admitted, csvPartial, csv, cap>>
        /\ ioFailed => ioFailed'
        /\ Running' => Running
    BY <1>1
      DEF Bystander, SubmitEnter, WriterMetadata, WriterSummary, FailTo,
          Running, flow, disk, csvFiles, history, writer
  <2>2. Path = admitted
    BY <2>1 DEF Flow
  <2>3. QED
    BY <2>1, <2>2 DEF Path
<1>2. CASE SubmitPush
  <2>1. Path = admitted
    BY <1>2 DEF SubmitPush, Flow, Running, history, disk, csvFiles, writer
  <2>2. CASE UNCHANGED <<queue, admitted>>
    BY <1>2, <2>1, <2>2 DEF SubmitPush, Path, disk, csvFiles
  <2>3. CASE /\ queue' = Append(queue, sample)
             /\ admitted' = Append(admitted, sample)
    <3>1. csvPartial.rows \o buf \o batch \in Seq(Samples)
      BY ConcatProperties DEF TypeOK, SampleTypes, FileTypes, CsvFile
    <3>2. \A s, t \in Seq(Samples), x \in Samples :
            s \o Append(t, x) = Append(s \o t, x)
      BY AppendToPath
    <3>3. (csvPartial.rows \o buf \o batch) \o Append(queue, sample)
            = Append(Path, sample)
      BY <3>1, <3>2 DEF TypeOK, SampleTypes, Path
    <3>4. QED
      BY <1>2, <2>1, <2>3, <3>3 DEF SubmitPush, Path, disk, csvFiles
  <2>4. QED
    BY <1>2, <2>2, <2>3 DEF SubmitPush
<1>3. CASE StartCall
  <2>1. /\ UNCHANGED <<csvPartial, buf, batch>>
        /\ queue' = <<>> /\ admitted' = <<>>
    BY <1>3
      DEF StartCall, MayStart, ClosedError, ThreadFacts, WriterFacts, disk,
          csvFiles
  <2>2. csvPartial = NoFile /\ buf = <<>> /\ batch = <<>>
    BY <1>3 DEF StartCall, MayStart, FileFacts, Closed, Beginning
  <2>3. QED
    BY <2>1, <2>2, EmptySeq, ConcatEmptySeq DEF NoFile, Path
<1>4. CASE StartCreate
  <2>1. csvPartial' = NewPartial /\ UNCHANGED flow
    BY <1>4 DEF StartCreate
  <2>2. csvPartial'.rows = <<>> /\ csvPartial.rows = <<>>
    BY <1>4, <2>1 DEF StartCreate, FileFacts, NoFile, NewPartial
  <2>3. Path = admitted
    BY <1>4 DEF StartCreate, Flow, Running, Beginning, FileFacts
  <2>4. QED
    BY <2>1, <2>2, <2>3 DEF Path, flow
<1>5. ASSUME WriterStep PROVE Path = admitted
  <2>1. wpc # "none" /\ (ioFailed => ioFailed') /\ csv.cap # cap
    <3> USE <1>5
      DEF WriterStep, WriterPop, WriterPopped, WriterWrite, WriterLoad,
          WriterDrained, WriterSize, WriterPauseFlush, WriterPause,
          WriterClose, WriterPromote, WriterMetadata, WriterSummary,
          WriterFinished, WriterError, WriterFinishError, WriterDone,
          WriterFlushDue, WriterNotDue, WriterWait, WriterSleep, WriterWake,
          WriterTimeout, Flush, FailTo, disk, csvFiles, history
    <3>1. wpc # "none"
      OBVIOUS
    <3>2. ioFailed => ioFailed'
      OBVIOUS
    <3>3. csv.cap # cap
      BY DEF FileFacts, ThreadFacts, WriterFacts, Failing
    <3>4. QED
      BY <3>1, <3>2, <3>3
  <2>2. QED
    BY <2>1 DEF Flow, Running
<1>6. CASE WriterPop
  <2>1. csvPartial.rows \o buf \in Seq(Samples)
    BY ConcatProperties DEF TypeOK, SampleTypes, FileTypes, CsvFile
  <2>2. /\ queue # <<>> /\ batch' = Append(batch, Head(queue))
        /\ queue' = Tail(queue)
        /\ UNCHANGED <<buf, csvPartial, admitted>>
    BY <1>6 DEF WriterPop, disk, csvFiles
  <2>3. /\ Head(queue) \in Samples /\ Tail(queue) \in Seq(Samples)
    BY <2>2, HeadTailProperties DEF TypeOK, SampleTypes
  <2>4. Append(batch, Head(queue)) \in Seq(Samples)
    BY <2>3, AppendProperties DEF TypeOK, SampleTypes
  <2>5. Path' = ((csvPartial.rows \o buf) \o Append(batch, Head(queue)))
                  \o Tail(queue)
    BY <2>2 DEF Path
  <2>6. Path' = (csvPartial.rows \o buf)
                  \o (Append(batch, Head(queue)) \o Tail(queue))
    BY <2>1, <2>3, <2>4, <2>5, Regroup
  <2>7. Path' = (csvPartial.rows \o buf) \o (batch \o queue)
    BY <2>2, <2>6, HeadToTail DEF TypeOK, SampleTypes
  <2>8. Path' = Path
    BY <2>1, <2>7, Regroup DEF Path, TypeOK, SampleTypes
  <2>9. QED
    BY <1>5, <1>6, <2>2, <2>8 DEF WriterStep
<1>7. CASE WriterWrite
  <2>1. /\ buf' = buf \o batch /\ batch' = <<>>
        /\ UNCHANGED <<queue, admitted, csvPartial>>
    BY <1>7 DEF WriterWrite, FailTo, disk, csvFiles
  <2>2. /\ csvPartial.rows \in Seq(Samples) /\ buf \in Seq(Samples)
        /\ batch \in Seq(Samples) /\ buf \o batch \in Seq(Samples)
    BY ConcatProperties DEF TypeOK, SampleTypes, FileTypes, CsvFile
  <2>3. csvPartial.rows \o (buf \o batch) = csvPartial.rows \o buf \o batch
    BY <2>2, Regroup
  <2>4. csvPartial.rows \o (buf \o batch) \in Seq(Samples)
    BY <2>2, ConcatProperties
  <2>5. Path' = Path
    BY <2>1, <2>3, <2>4, ConcatEmptySeq DEF Path
  <2>6. QED
    BY <1>5, <1>7, <2>1, <2>5 DEF WriterStep
<1>8. CASE WriterPauseFlush \/ WriterFlushDue \/ WriterClose
           \/ WriterFinishError
  <2>1. /\ UNCHANGED <<queue, batch, admitted>>
        /\ \/ /\ csvPartial' = [csvPartial EXCEPT !.rows = @ \o buf]
              /\ buf' = <<>>
           \/ UNCHANGED <<csvPartial, buf>>
    <3>1. CASE WriterPauseFlush \/ WriterFlushDue \/ WriterClose
      BY <3>1 DEF WriterPauseFlush, WriterFlushDue, WriterClose, Flush, FailTo
    <3>2. CASE WriterFinishError /\ fileOpen
      <4>1. PICK k \in 0..Len(buf) :
              /\ csvPartial' = [csvPartial EXCEPT !.rows = @ \o First(buf, k)]
              /\ ioFailed' = (ioFailed \/ k < Len(buf))
        BY <3>2 DEF WriterFinishError
      <4>2. ~(k < Len(buf)) /\ Len(buf) \in Nat
        BY <4>1, LenProperties DEF TypeOK, SampleTypes
      <4>3. k = Len(buf)
        BY <4>2
      <4>4. First(buf, k) = buf
        BY <4>3, SubSeqFull DEF First, TypeOK, SampleTypes
      <4>5. QED
        BY <3>2, <4>1, <4>4 DEF WriterFinishError
    <3>3. CASE WriterFinishError /\ ~fileOpen
      BY <3>3 DEF WriterFinishError
    <3>4. QED
      BY <1>8, <3>1, <3>2, <3>3
  <2>2. CASE csvPartial' = [csvPartial EXCEPT !.rows = @ \o buf] /\ buf' = <<>>
    <3>1. csvPartial'.rows = csvPartial.rows \o buf
      BY <2>2, RowsAdded DEF TypeOK, SampleTypes, FileTypes
    <3>2. csvPartial.rows \o buf \in Seq(Samples)
      BY ConcatProperties DEF TypeOK, SampleTypes, FileTypes, CsvFile
    <3>3. csvPartial'.rows \o <<>> = csvPartial'.rows
      BY <3>1, <3>2, ConcatEmptySeq
    <3>4. QED
      BY <1>5, <1>8, <2>1, <2>2, <3>1, <3>3 DEF Path, WriterStep
  <2>3. CASE UNCHANGED <<csvPartial, buf>>
    BY <1>5, <1>8, <2>1, <2>3 DEF Path, WriterStep
  <2>4. QED
    BY <2>1, <2>2, <2>3
<1>9. CASE WriterPromote
  BY <1>9 DEF WriterPromote, FailTo, FileFacts, history
<1>10. CASE ForeignOutput
  BY <1>10
    DEF ForeignOutput, Flow, Path, Running, flow, history, writer, FileFacts,
        ThreadFacts, ControlFacts, WriterFacts, Beginning
<1>11. CASE RecoverPartial \/ Crash
  BY <1>11 DEF RecoverPartial, Crash, Running, Beginning, writer
<1>12. QED
  BY <1>1, <1>2, <1>3, <1>4, <1>6, <1>7, <1>8, <1>9, <1>10, <1>11, WhoMovesData
    DEF Environment

\* The file that is promoted holds every sample, and nothing is admitted after.
LEMMA OutputStep ==
  ASSUME TypeOK, ThreadFacts, FileFacts, Flow, OutputIsComplete, [Next]_vars
  PROVE  OutputIsComplete'
<1> SUFFICES ASSUME csv'.cap = cap', cap' # 0
             PROVE  csv'.rows = admitted'
  BY DEF OutputIsComplete
<1>1. CASE UNCHANGED <<csv, cap, admitted>>
  BY <1>1 DEF OutputIsComplete
<1>2. CASE SubmitPush
  <2>1. csv.cap # cap
    BY <1>2
      DEF SubmitPush, FileFacts, ThreadFacts, GateFacts, PastGate, Shut, disk,
          csvFiles, history
  <2>2. QED
    BY <1>2, <2>1 DEF SubmitPush, disk, csvFiles, history
<1>3. CASE StartCall
  BY <1>3, RecorderConstants
    DEF StartCall, FileFacts, disk, csvFiles, Foreign, TypeOK, CountTypes,
        FileTypes, CsvFile, RecorderConstants
<1>4. CASE WriterPromote
  <2>1. Path = admitted
    BY <1>4
      DEF WriterPromote, Flow, Running, FileFacts, ThreadFacts, Alive, Failing,
          WriterFacts
  <2>2. buf = <<>> /\ batch = <<>> /\ queue = <<>>
    BY <1>4
      DEF WriterPromote, FileFacts, ThreadFacts, WriterFacts, Closed, Beginning
  <2>3. csvPartial.rows = admitted
    BY <2>1, <2>2, ConcatEmptySeq DEF Path, TypeOK, FileTypes, CsvFile
  <2>4. QED
    BY <1>4, <2>3 DEF WriterPromote, OutputIsComplete, flow
<1>5. CASE ForeignOutput
  BY <1>5, RecorderConstants
    DEF ForeignOutput, history, Foreign, NoFile, TypeOK, CountTypes,
        RecorderConstants
<1>6. QED
  <2>1. \/ UNCHANGED <<csv, cap, admitted>>
        \/ SubmitPush \/ StartCall \/ WriterPromote \/ ForeignOutput
    BY WhoMovesData
      DEF Bystander, SubmitEnter, StartCreate, WriterPop, WriterWrite,
          WriterPauseFlush, WriterFlushDue, WriterClose, WriterFinishError,
          WriterMetadata, WriterSummary, Environment, RecoverPartial, Crash,
          disk, csvFiles, history, flow
  <2>2. QED
    BY <2>1, <1>1, <1>2, <1>3, <1>4, <1>5
-----------------------------------------------------------------------------
(* The theorems *)

\* The invariant holds in the state a Recorder is constructed in.
LEMMA InitCore == Init => Core
<1> SUFFICES ASSUME Init PROVE Core
  OBVIOUS
<1>1. StepTypes /\ FlagTypes
  BY DEF Init, StepTypes, FlagTypes, RecordingStates, Policies
<1>2. CountTypes
  BY RecorderConstants DEF Init, CountTypes, RecorderConstants
<1>3. SampleTypes /\ FileTypes
  <2>1. <<>> \in Seq(Samples) /\ [cap |-> 0, n |-> 0] \in Samples
    BY EmptySeq, RecorderConstants DEF Samples, RecorderConstants
  <2>2. NoFile \in CsvFile /\ NoMeta \in MetaFile /\ 0 \in 0..MaxCaptures
    BY <2>1, RecorderConstants
      DEF NoFile, NoMeta, CsvFile, MetaFile, RecorderConstants
  <2>3. QED
    BY <2>1, <2>2 DEF Init, SampleTypes, FileTypes
<1>4. ThreadFacts
  BY DEF Init, ThreadFacts, GateFacts, ControlFacts, WriterFacts, QuietFacts,
         Shut, Alive, PastGate, Beginning, Pausing, Closed
<1>5. FileFacts
  BY DEF Init, FileFacts, Beginning, Closed, Failing, Alive, Shut, NoFile
<1>6. Flow /\ OutputIsComplete
  BY DEF Init, Flow, Running, Beginning, OutputIsComplete
<1>7. QED
  BY <1>1, <1>2, <1>3, <1>4, <1>5, <1>6 DEF Core, TypeOK

\* Every step of every thread keeps it.
LEMMA NextCore == Core /\ [Next]_vars => Core'
<1> SUFFICES ASSUME Core, [Next]_vars PROVE Core'
  OBVIOUS
<1>1. TypeOK /\ ThreadFacts /\ FileFacts /\ Flow /\ OutputIsComplete
  BY DEF Core
<1>2. TypeOK'
  BY <1>1, StepTypesStep, FlagTypesStep, CountTypesStep, SampleTypesStep,
     FileTypesStep
    DEF TypeOK, ThreadFacts
<1>3. ThreadFacts' /\ FileFacts'
  BY <1>1, ThreadFactsStep, FileFactsStep
<1>4. Flow' /\ OutputIsComplete'
  BY <1>1, FlowStep, OutputStep
<1>5. QED
  BY <1>2, <1>3, <1>4 DEF Core

\* The first half of the inductive invariant.
THEOREM CoreInvariance == Spec => []Core
<1>1. QED
  BY InitCore, NextCore, PTL DEF Spec

\* Every variable keeps its type.
THEOREM TypeCorrect == Spec => []TypeOK
<1>1. Core => TypeOK
  BY DEF Core
<1>2. QED
  BY <1>1, CoreInvariance, PTL

\* A data file of the current capture holds every sample it admitted, in order,
\* whatever submit was doing when stop closed the gate.
THEOREM OutputComplete == Spec => []OutputIsComplete
<1>1. Core => OutputIsComplete
  BY DEF Core
<1>2. QED
  BY <1>1, CoreInvariance, PTL

\* A paused recording is quiet and everything it admitted is in the file.
THEOREM PausedQuiet == Spec => []PausedIsQuiet
<1>1. ASSUME Core, state = "Paused" PROVE PausedIsQuiet
  <2>1. /\ Shut /\ queue = <<>> /\ batch = <<>> /\ buf = <<>>
        /\ wpc \in Looping
    BY <1>1 DEF Core, ThreadFacts, QuietFacts
  <2>2. csv.cap # cap /\ ~ioFailed /\ Running
    BY <1>1, <2>1
      DEF Core, FileFacts, ThreadFacts, WriterFacts, Looping, Failing, Alive,
          Running
  <2>3. Path = admitted
    BY <1>1, <2>2 DEF Core, Flow
  <2>4. csvPartial.rows = admitted
    BY <1>1, <2>1, <2>3, ConcatEmptySeq
      DEF Path, Core, TypeOK, FileTypes, CsvFile
  <2>5. QED
    BY <2>1, <2>4 DEF PausedIsQuiet, Shut
<1>2. Core => PausedIsQuiet
  BY <1>1 DEF PausedIsQuiet
<1>3. QED
  BY <1>2, CoreInvariance, PTL

\* start and resume find the gate closed and drained.
THEOREM ReopenDrained == Spec => []ReopenFindsGateDrained
<1>1. Core => ReopenFindsGateDrained
  BY DEF Core, ThreadFacts, ControlFacts, QuietFacts, Shut,
         ReopenFindsGateDrained, CanOpen
<1>2. QED
  BY <1>1, CoreInvariance, PTL

\* A recording that failed lets no further submit in.
THEOREM ErrorRefuses == Spec => []ErrorRefusesSubmissions
<1>1. Core => ErrorRefusesSubmissions
  BY DEF Core, ThreadFacts, GateFacts, ErrorRefusesSubmissions
<1>2. QED
  BY <1>1, CoreInvariance, PTL

\* Under Refuse no step touches an output file or a summary that exists.
THEOREM NeverReplaces == Spec => RefuseNeverReplaces
<1>1. ASSUME [Next]_vars, policy = "Refuse"
      PROVE  /\ csv.cap # 0 => UNCHANGED csv
             /\ meta.cap # 0 => UNCHANGED meta
  BY <1>1, WhoMovesData
    DEF Bystander, SubmitEnter, SubmitPush, StartCall, StartCreate, WriterPop,
        WriterWrite, WriterPauseFlush, WriterFlushDue, WriterClose,
        WriterFinishError, WriterPromote, WriterMetadata, WriterSummary,
        Environment, ForeignOutput, RecoverPartial, Crash, MayPromoteOver,
        disk, csvFiles, metas
<1>2. QED
  BY <1>1, PTL DEF Spec, RefuseNeverReplaces
-----------------------------------------------------------------------------
(* Facts about owners and prefixes *)

\* Parts of sequences of one owner, and sequences made of them, have that owner.
LEMMA OwnedParts ==
  ASSUME NEW c, NEW s \in Seq(Samples), OwnedBy(s, c)
  PROVE  /\ \A k \in 0..Len(s) : OwnedBy(First(s, k), c)
         /\ \A t \in Seq(Samples) : OwnedBy(t, c) => OwnedBy(s \o t, c)
         /\ \A x \in Samples : x.cap = c => OwnedBy(Append(s, x), c)
         /\ s # <<>> => Head(s).cap = c /\ OwnedBy(Tail(s), c)
<1>1. \A t \in Seq(Samples) : DOMAIN t = 1..Len(t) /\ Len(t) \in Nat
  BY LenProperties
<1>2. ASSUME NEW k \in 0..Len(s) PROVE OwnedBy(First(s, k), c)
  <2>1. First(s, k) \in Seq(Samples) /\ Len(First(s, k)) = k
    BY FirstType
  <2>2. \A i \in 1..Len(s) : s[i] \in Samples
    BY ElementOfSeq
  <2>3. \A i \in 1..k : First(s, k)[i] = s[i]
    BY <1>1, <2>2, SubSeqProperties DEF First
  <2>4. QED
    BY <1>1, <2>1, <2>3 DEF OwnedBy
<1>3. ASSUME NEW t \in Seq(Samples), OwnedBy(t, c) PROVE OwnedBy(s \o t, c)
  BY <1>1, <1>3, ConcatProperties DEF OwnedBy
<1>4. ASSUME NEW x \in Samples, x.cap = c PROVE OwnedBy(Append(s, x), c)
  <2>1. /\ Append(s, x) \in Seq(Samples) /\ Len(Append(s, x)) = Len(s) + 1
        /\ \A i \in 1..Len(s) : Append(s, x)[i] = s[i]
        /\ Append(s, x)[Len(s) + 1] = x
    BY AppendProperties
  <2>2. QED
    BY <1>1, <1>4, <2>1 DEF OwnedBy
<1>5. ASSUME s # <<>> PROVE Head(s).cap = c /\ OwnedBy(Tail(s), c)
  <2>1. /\ Tail(s) \in Seq(Samples) /\ Len(Tail(s)) = Len(s) - 1
        /\ \A i \in 1..Len(Tail(s)) : Tail(s)[i] = s[i + 1]
    BY <1>5, HeadTailProperties
  <2>2. Len(s) \in Nat \ {0}
    BY <1>5, EmptySeq
  <2>3. QED
    BY <1>1, <2>1, <2>2 DEF OwnedBy
<1>6. QED
  BY <1>2, <1>3, <1>4, <1>5

\* A prefix is what something was appended to.
LEMMA PrefixIsPart ==
  ASSUME NEW s \in Seq(Samples), NEW u \in Seq(Samples)
  PROVE  IsPrefixOf(s, s \o u)
<1>1. /\ s \o u \in Seq(Samples) /\ Len(s \o u) = Len(s) + Len(u)
      /\ Len(s) \in Nat /\ Len(u) \in Nat
      /\ \A i \in 1..Len(s) + Len(u) : (s \o u)[i] =
            IF i <= Len(s) THEN s[i] ELSE u[i - Len(s)]
  BY ConcatProperties, LenProperties
<1>2. \A i \in 1..Len(s \o u) : (s \o u)[i] \in Samples
  BY <1>1, ElementOfSeq
<1>3. /\ First(s \o u, Len(s)) \in Seq(Samples)
      /\ Len(First(s \o u, Len(s))) = Len(s)
      /\ \A i \in 1..Len(s) : First(s \o u, Len(s))[i] = s[i]
  BY <1>1, <1>2, SubSeqProperties DEF First
<1>4. QED
  BY <1>1, <1>3, SeqEqual DEF IsPrefixOf

\* A sequence is its first elements and those beyond.
LEMMA CutInTwo ==
  ASSUME NEW s \in Seq(Samples), NEW k \in 0..Len(s)
  PROVE  /\ First(s, k) \in Seq(Samples) /\ Beyond(s, k) \in Seq(Samples)
         /\ s = First(s, k) \o Beyond(s, k)
<1>1. Len(s) \in Nat /\ \A i \in 1..Len(s) : s[i] \in Samples
  BY ElementOfSeq, LenProperties
<1>2. 1 \in 1..Len(s) + 1 /\ k \in (1 - 1)..Len(s) /\ Len(s) \in k..Len(s)
  BY <1>1
<1>3. First(s, k) \o Beyond(s, k) = SubSeq(s, 1, Len(s))
  BY <1>2, ConcatAdjacentSubSeq DEF First, Beyond
<1>4. Beyond(s, k) \in Seq(Samples)
  <2>1. k + 1 \in Int /\ Len(s) \in Int /\ \A i \in k + 1..Len(s) : s[i] \in Samples
    BY <1>1
  <2>2. QED
    BY <2>1, SubSeqProperties DEF Beyond
<1>5. QED
  BY <1>3, <1>4, FirstType, SubSeqFull

\* And nothing else is.
LEMMA PartOfPrefix ==
  ASSUME NEW s \in Seq(Samples), NEW t \in Seq(Samples), IsPrefixOf(s, t)
  PROVE  \E u \in Seq(Samples) : t = s \o u
<1>1. Len(s) \in Nat /\ Len(t) \in Nat /\ Len(s) <= Len(t)
  BY LenProperties DEF IsPrefixOf
<1>2. Len(s) \in 0..Len(t)
  BY <1>1
<1>3. QED
  BY <1>2, CutInTwo DEF IsPrefixOf

\* The first of the parts of a sequence are a prefix of it.
LEMMA MiddleCut ==
  \A s, a, b, v \in Seq(Samples) : IsPrefixOf(s \o a, (s \o (a \o b)) \o v)
<1> TAKE s, a, b, v \in Seq(Samples)
<1>1. s \o (a \o b) = (s \o a) \o b
  BY ConcatAssociative, SMTT(30)
<1>2. s \o a \in Seq(Samples) /\ b \o v \in Seq(Samples)
  BY ConcatProperties
<1>3. ((s \o a) \o b) \o v = (s \o a) \o (b \o v)
  <2>1. \A x \in Seq(Samples) : (x \o b) \o v = x \o (b \o v)
    BY Regroup, ZenonT(60)
  <2> QED
    BY <1>2, <2>1, Zenon
<1>4. IsPrefixOf(s \o a, (s \o a) \o (b \o v))
  BY <1>2, PrefixIsPart
<1>5. QED
  BY <1>1, <1>3, <1>4, Zenon

\* So are the first two and a part of the third.
LEMMA LaterCut ==
  \A r, s, a, b, v \in Seq(Samples) :
    IsPrefixOf(r \o (s \o a), ((r \o s) \o (a \o b)) \o v)
<1> TAKE r, s, a, b, v \in Seq(Samples)
<1>1. (r \o s) \o a = r \o (s \o a)
  BY ConcatAssociative, SMTT(30)
<1>2. r \o s \in Seq(Samples)
  BY ConcatProperties
<1>3. IsPrefixOf((r \o s) \o a, ((r \o s) \o (a \o b)) \o v)
  BY <1>2, MiddleCut
<1>4. QED
  BY <1>1, <1>3, Zenon

\* What is cut off at either end leaves a prefix.
LEMMA PrefixOfPrefix ==
  ASSUME NEW s \in Seq(Samples), NEW u \in Seq(Samples), NEW t \in Seq(Samples),
         IsPrefixOf(s \o u, t)
  PROVE  /\ IsPrefixOf(s, t)
         /\ \A k \in 0..Len(u) : IsPrefixOf(s \o First(u, k), t)
         /\ \A x \in Samples : IsPrefixOf(s \o u, Append(t, x))
<1>1. s \o u \in Seq(Samples)
  BY ConcatProperties
<1>2. PICK v \in Seq(Samples) : t = (s \o u) \o v
  BY <1>1, PartOfPrefix
<1>3. IsPrefixOf(s, t)
  <2>1. t = s \o (u \o v) /\ u \o v \in Seq(Samples)
    BY <1>2, ConcatAssociative, ConcatProperties
  <2>2. QED
    BY <2>1, PrefixIsPart
<1>4. ASSUME NEW k \in 0..Len(u) PROVE IsPrefixOf(s \o First(u, k), t)
  <2>1. PICK a \in Seq(Samples), b \in Seq(Samples) :
          a = First(u, k) /\ u = a \o b
    BY CutInTwo
  <2>2. IsPrefixOf(s \o a, (s \o (a \o b)) \o v)
    BY MiddleCut
  <2>3. QED
    BY <1>2, <2>1, <2>2, Zenon
<1>5. ASSUME NEW x \in Samples PROVE IsPrefixOf(s \o u, Append(t, x))
  <2>1. (s \o u) \o Append(v, x) = Append((s \o u) \o v, x)
    BY <1>1, AppendToPath
  <2>2. Append(v, x) \in Seq(Samples)
    BY AppendProperties
  <2>3. QED
    BY <1>1, <1>2, <2>1, <2>2, PrefixIsPart
<1>6. QED
  BY <1>3, <1>4, <1>5
-----------------------------------------------------------------------------
(* Who counts and who promises *)

\* Only submit counts and brings a sample, only the writer and start count
\* otherwise.
LEMMA WhoCounts ==
  ASSUME [Next]_vars
  PROVE  \/ SubmitEnter \/ SubmitPush \/ SubmitCount \/ StartCall
         \/ WriterWrite \/ Crash
         \/ /\ UNCHANGED <<accepted, written, sample, cap>>
            /\ ppc' = "count" <=> ppc = "count"
            /\ ppc' = "push" => ppc = "push"
<1> USE DEF flags, counters, producer, history
<1>1. CASE SubmitStep
  BY <1>1
    DEF SubmitStep, SubmitFull, SubmitOverflow, SubmitRelease, SubmitNotify
<1>2. CASE Call \/ ControlStep
  BY <1>2
    DEF Call, ControlStep, StartCreate, StartHeader, StartOpen, StartSpawn,
        StartNoThread, PauseCall, PauseRequest, PauseReturn, ResumeRequest,
        ResumeOpen, StopCall, StopRequest, StopReturn
<1>3. CASE WriterStep
  BY <1>3
    DEF WriterStep, WriterPop, WriterPopped, WriterLoad, WriterDrained,
        WriterSize, WriterPauseFlush, WriterPause, WriterClose, WriterPromote,
        WriterMetadata, WriterSummary, WriterFinished, WriterError,
        WriterFinishError, WriterDone, WriterFlushDue, WriterNotDue,
        WriterWait, WriterSleep, WriterWake, WriterTimeout
<1>4. CASE ForeignOutput \/ RecoverPartial \/ UNCHANGED vars
  BY <1>4 DEF ForeignOutput, RecoverPartial, vars
<1>5. QED
  BY <1>1, <1>2, <1>3, <1>4 DEF Next, Environment

\* What a flush, a close or a process death adds to the partial file: some of
\* the rows that were buffered for it, or none.
LEMMA FlushAdds ==
  ASSUME TypeOK,
         \/ WriterPauseFlush \/ WriterFlushDue \/ WriterClose
         \/ WriterFinishError \/ Crash
  PROVE  \/ \E k \in 0..Len(buf) :
               csvPartial'.rows = csvPartial.rows \o First(buf, k)
         \/ csvPartial'.rows = csvPartial.rows \o buf
         \/ UNCHANGED csvPartial
<1>1. \/ \E k \in 0..Len(buf) :
            csvPartial' = [csvPartial EXCEPT !.rows = @ \o First(buf, k)]
      \/ csvPartial' = [csvPartial EXCEPT !.rows = @ \o buf]
      \/ UNCHANGED csvPartial
  BY DEF WriterPauseFlush, WriterFlushDue, WriterClose, Flush,
         WriterFinishError, Crash, SomeBufferedRowsReach
<1>2. csvPartial \in CsvFile /\ buf \in Seq(Samples)
  BY DEF TypeOK, FileTypes, SampleTypes
<1>3. \A k \in 0..Len(buf) : First(buf, k) \in Seq(Samples)
  BY <1>2, FirstType
<1>4. \A x \in Seq(Samples) :
        [csvPartial EXCEPT !.rows = @ \o x].rows = csvPartial.rows \o x
  BY <1>2, RowsAdded
<1>5. QED
  BY <1>1, <1>2, <1>3, <1>4

\* A capture begins with nothing of the one before on its way.
LEMMA StartIsClean ==
  ASSUME TypeOK, ThreadFacts, FileFacts, StartCall
  PROVE  /\ queue' = <<>> /\ batch' = <<>> /\ buf' = <<>> /\ admitted' = <<>>
         /\ UNCHANGED <<csvPartial, csv, metaPartial, meta, ppc>>
         /\ csvPartial = NoFile /\ inFlight = 0 /\ ppc \notin PastGate
         /\ cap \in Nat /\ cap' = cap + 1 /\ accepted' = 0 /\ written' = 0
<1>1. inFlight = 0 /\ queue' = <<>>
  BY DEF StartCall, MayStart, ClosedError, Drained, ThreadFacts, WriterFacts,
         Shut
<1>2. csvPartial = NoFile /\ buf = <<>> /\ batch = <<>>
  BY DEF StartCall, MayStart, FileFacts, Closed, Beginning
<1>3. QED
  BY <1>1, <1>2
    DEF StartCall, ThreadFacts, GateFacts, disk, csvFiles, metas, producer,
        TypeOK, CountTypes

\* A sample on its way belongs to the current capture, a row to its file's.
LEMMA OwnerStep ==
  ASSUME TypeOK, ThreadFacts, FileFacts, OwnerFacts, [Next]_vars
  PROVE  OwnerFacts'
<1> USE DEF OwnerFacts
<1>1. ppc' = "push" => sample'.cap = cap'
  <2>1. CASE SubmitEnter
    BY <2>1 DEF SubmitEnter, history
  <2>2. CASE StartCall
    BY <2>2, StartIsClean DEF PastGate
  <2>3. CASE ~SubmitEnter /\ ~StartCall
    BY <2>3, WhoCounts
      DEF SubmitPush, SubmitCount, WriterWrite, Crash, producer, history
  <2>4. QED
    BY <2>1, <2>2, <2>3
<1>2. \A c : OwnedBy(<<>>, c)
  BY DEF OwnedBy
<1>3. \A c : \A s, t \in Seq(Samples) :
        OwnedBy(s, c) /\ OwnedBy(t, c) => OwnedBy(s \o t, c)
  BY OwnedParts
<1>4. \A c : \A s \in Seq(Samples) :
        OwnedBy(s, c) => \A k \in 0..Len(s) : OwnedBy(First(s, k), c)
  BY OwnedParts
<1>5. CASE Bystander \/ SubmitEnter \/ WriterMetadata \/ WriterSummary
  <2>1. UNCHANGED <<queue, batch, buf, csvPartial, csv, cap>>
    BY <1>5
      DEF Bystander, SubmitEnter, WriterMetadata, WriterSummary, flow, disk,
          csvFiles, history
  <2>2. QED
    BY <2>1, <1>1
<1>6. CASE SubmitPush
  <2>1. /\ UNCHANGED <<batch, buf, csvPartial, csv, cap>>
        /\ queue' \in {queue, Append(queue, sample)} /\ ppc = "push"
    BY <1>6 DEF SubmitPush, disk, csvFiles, history
  <2>2. OwnedBy(Append(queue, sample), cap)
    BY <2>1, OwnedParts DEF TypeOK, SampleTypes
  <2>3. QED
    BY <2>1, <2>2, <1>1
<1>7. CASE StartCall
  BY <1>7, <1>1, <1>2, StartIsClean
<1>8. CASE WriterPop
  <2>1. /\ UNCHANGED <<buf, csvPartial, csv, cap>> /\ queue # <<>>
        /\ batch' = Append(batch, Head(queue)) /\ queue' = Tail(queue)
    BY <1>8 DEF WriterPop, disk, csvFiles, history
  <2>2. Head(queue) \in Samples /\ Head(queue).cap = cap /\ OwnedBy(Tail(queue), cap)
    BY <2>1, OwnedParts, HeadTailProperties DEF TypeOK, SampleTypes
  <2>3. OwnedBy(Append(batch, Head(queue)), cap)
    BY <2>2, OwnedParts DEF TypeOK, SampleTypes
  <2>4. QED
    BY <2>1, <2>2, <2>3, <1>1
<1>9. CASE WriterWrite
  <2>1. /\ UNCHANGED <<queue, csvPartial, csv, cap>> /\ batch' = <<>>
        /\ \/ buf' = buf \o batch
           \/ \E k \in 0..Len(batch) : buf' = buf \o First(batch, k)
    BY <1>9 DEF WriterWrite, disk, csvFiles
  <2>2. OwnedBy(buf \o batch, cap)
    BY <1>3 DEF TypeOK, SampleTypes
  <2>3. ASSUME NEW k \in 0..Len(batch)
        PROVE  OwnedBy(buf \o First(batch, k), cap)
    <3>1. First(batch, k) \in Seq(Samples)
      BY FirstType DEF TypeOK, SampleTypes
    <3>2. OwnedBy(First(batch, k), cap)
      BY <1>4 DEF TypeOK, SampleTypes
    <3>3. QED
      BY <1>3, <3>1, <3>2 DEF TypeOK, SampleTypes
  <2>4. QED
    BY <2>1, <2>2, <2>3, <1>1, <1>2
<1>10. CASE WriterPauseFlush \/ WriterFlushDue \/ WriterClose
            \/ WriterFinishError \/ Crash
  <2>1. OwnedBy(buf, csvPartial.cap)
    BY <1>2 DEF FileFacts
  <2>2. OwnedBy(csvPartial'.rows, csvPartial'.cap)
    <3>1. csvPartial'.cap = csvPartial.cap
      BY <1>10, FlushKeepsCapture
    <3>2. csvPartial.rows \in Seq(Samples) /\ buf \in Seq(Samples)
      BY DEF TypeOK, FileTypes, SampleTypes, CsvFile
    <3>3. CASE \E k \in 0..Len(buf) :
                 csvPartial'.rows = csvPartial.rows \o First(buf, k)
      <4>1. PICK k \in 0..Len(buf) :
              csvPartial'.rows = csvPartial.rows \o First(buf, k)
        BY <3>3
      <4>2. First(buf, k) \in Seq(Samples) /\ OwnedBy(First(buf, k), csvPartial.cap)
        BY <1>4, <2>1, <3>2, FirstType
      <4>3. QED
        BY <1>3, <3>1, <3>2, <4>1, <4>2
    <3>4. CASE csvPartial'.rows = csvPartial.rows \o buf
      BY <1>3, <2>1, <3>1, <3>2, <3>4
    <3>5. CASE UNCHANGED csvPartial
      BY <3>5
    <3>6. QED
      BY <1>10, <3>3, <3>4, <3>5, FlushAdds
  <2>3. /\ UNCHANGED <<csv, cap>>
        /\ queue' \in {queue, <<>>} /\ batch' \in {batch, <<>>}
        /\ buf' \in {buf, <<>>}
    BY <1>10
      DEF WriterPauseFlush, WriterFlushDue, WriterClose, WriterFinishError,
          Crash, Flush
  <2>4. QED
    BY <2>2, <2>3, <1>1, <1>2
<1>11. CASE StartCreate \/ WriterPromote \/ ForeignOutput \/ RecoverPartial
  <2>1. /\ UNCHANGED <<queue, batch, buf, cap>>
        /\ csvPartial' \in {csvPartial, NewPartial, NoFile}
        /\ csv' \in {csv, csvPartial, [NoFile EXCEPT !.cap = Foreign]}
    BY <1>11
      DEF StartCreate, WriterPromote, ForeignOutput, RecoverPartial,
          AfterFailedCreate, flow, history
  <2>2. NewPartial.rows = <<>> /\ NoFile.rows = <<>>
        /\ [NoFile EXCEPT !.cap = Foreign].rows = <<>>
    BY DEF NewPartial, NoFile
  <2>3. QED
    BY <2>1, <2>2, <1>1, <1>2
<1>12. QED
  BY <1>5, <1>6, <1>7, <1>8, <1>9, <1>10, <1>11, WhoMovesData DEF Environment

\* What has been counted, and what is about to be.
LEMMA CountStep ==
  ASSUME TypeOK, ThreadFacts, FileFacts, CountFacts, [Next]_vars
  PROVE  CountFacts'
<1> SUFFICES ASSUME Running'
             PROVE  /\ accepted' + (IF ppc' = "count" THEN 1 ELSE 0)
                         = Len(admitted')
                    /\ ~ioFailed' => written' + Len(batch') + Len(queue')
                                       = Len(admitted')
  BY DEF CountFacts
<1> USE DEF CountFacts
<1>1. /\ \A s \in Seq(Samples) : Len(s) \in Nat
      /\ \A s \in Seq(Samples), x \in Samples : Len(Append(s, x)) = Len(s) + 1
      /\ \A s \in Seq(Samples) : s # <<>> => Len(Tail(s)) = Len(s) - 1
      /\ Len(<<>>) = 0
  BY LenProperties, AppendProperties, HeadTailProperties, EmptySeq
<1>2. CASE SubmitPush
  <2>1. /\ Running /\ UNCHANGED <<accepted, written, batch, ioFailed>>
        /\ ppc = "push"
        /\ \/ ppc' = "full" /\ UNCHANGED <<queue, admitted>>
           \/ /\ ppc' = "count" /\ queue' = Append(queue, sample)
              /\ admitted' = Append(admitted, sample)
    BY <1>2 DEF SubmitPush, Running, counters, history, writer
  <2>2. QED
    BY <1>1, <2>1, SMTT(30) DEF TypeOK, SampleTypes, CountTypes
<1>3. CASE SubmitCount
  <2>1. /\ Running /\ UNCHANGED <<written, batch, queue, admitted, ioFailed>>
        /\ ppc = "count" /\ ppc' = "release" /\ accepted' = accepted + 1
    BY <1>3 DEF SubmitCount, Running, flow, history, writer
  <2>2. QED
    BY <2>1, <1>1 DEF TypeOK, SampleTypes, CountTypes
<1>4. CASE StartCall
  BY <1>1, <1>4, StartIsClean DEF PastGate
<1>5. CASE WriterWrite
  <2>1. /\ Running /\ UNCHANGED <<accepted, ppc, queue, admitted>>
        /\ batch' = <<>>
        /\ \/ written' = written + Len(batch) /\ UNCHANGED ioFailed
           \/ ioFailed'
    BY <1>5 DEF WriterWrite, Running, FailTo, producer
  <2>2. QED
    BY <2>1, <1>1 DEF TypeOK, SampleTypes, CountTypes
<1>6. CASE WriterPop
  <2>1. /\ Running /\ UNCHANGED <<accepted, written, ppc, admitted, ioFailed>>
        /\ queue # <<>> /\ queue' = Tail(queue)
        /\ batch' = Append(batch, Head(queue))
    BY <1>6 DEF WriterPop, Running, producer, counters, history, writer
  <2>2. Head(queue) \in Samples
    BY <2>1, HeadTailProperties DEF TypeOK, SampleTypes
  <2>3. QED
    BY <2>1, <2>2, <1>1 DEF TypeOK, SampleTypes, CountTypes
<1>7. CASE ~(SubmitPush \/ SubmitCount \/ StartCall \/ WriterWrite \/ WriterPop)
  <2>1. ~Crash
    BY DEF Crash, Running, Beginning
  <2>2. UNCHANGED <<accepted, written>> /\ (ppc' = "count" <=> ppc = "count")
    <3>1. CASE SubmitEnter
      BY <3>1 DEF SubmitEnter, counters
    <3>2. CASE ~SubmitEnter
      BY <1>7, <2>1, <3>2, WhoCounts
    <3>3. QED
      BY <3>1, <3>2
  <2>3. /\ Running /\ UNCHANGED <<queue, batch, admitted>>
        /\ ioFailed => ioFailed'
    <3>1. CASE Bystander
      BY <3>1 DEF Bystander, flow
    <3>2. CASE SubmitEnter \/ StartCreate \/ ForeignOutput \/ RecoverPartial
      BY <3>2
        DEF SubmitEnter, StartCreate, ForeignOutput, RecoverPartial, Running,
            Beginning, flow, history, writer
    <3>3. CASE WriterPauseFlush \/ WriterFlushDue \/ WriterClose
               \/ WriterFinishError \/ WriterPromote \/ WriterMetadata
               \/ WriterSummary
      <4> USE <3>3
        DEF WriterPauseFlush, WriterFlushDue, WriterClose, WriterFinishError,
            WriterPromote, WriterMetadata, WriterSummary, Flush, FailTo
      <4>1. Running
        BY DEF Running
      <4>2. UNCHANGED <<queue, batch, admitted>>
        BY DEF flow
      <4>3. ioFailed => ioFailed'
        OBVIOUS
      <4>4. QED
        BY <4>1, <4>2, <4>3
    <3>4. QED
      BY <1>7, <2>1, <3>1, <3>2, <3>3, WhoMovesData DEF Environment
  <2>4. QED
    BY <2>2, <2>3
<1>8. QED
  BY <1>2, <1>3, <1>4, <1>5, <1>6, <1>7

\* While storage works, the writer's batch comes next after what is buffered.
LEMMA BatchIsNext ==
  ASSUME TypeOK, Path = admitted
  PROVE  /\ IsPrefixOf(csvPartial.rows \o (buf \o batch), admitted)
         /\ \A k \in 0..Len(batch) :
              IsPrefixOf(csvPartial.rows \o (buf \o First(batch, k)), admitted)
<1>1. /\ csvPartial.rows \in Seq(Samples) /\ buf \in Seq(Samples)
      /\ batch \in Seq(Samples) /\ queue \in Seq(Samples)
      /\ csvPartial.rows \o buf \in Seq(Samples)
  BY ConcatProperties DEF TypeOK, SampleTypes, FileTypes, CsvFile
<1>2. ASSUME NEW k \in 0..Len(batch)
      PROVE  IsPrefixOf(csvPartial.rows \o (buf \o First(batch, k)), admitted)
  <2>1. PICK a \in Seq(Samples), b \in Seq(Samples) :
          a = First(batch, k) /\ batch = a \o b
    BY <1>1, CutInTwo
  <2>2. IsPrefixOf(csvPartial.rows \o (buf \o a),
                   ((csvPartial.rows \o buf) \o (a \o b)) \o queue)
    BY <1>1, LaterCut
  <2>3. QED
    BY <2>1, <2>2, Zenon DEF Path
<1>3. Len(batch) \in 0..Len(batch) /\ First(batch, Len(batch)) = batch
  BY <1>1, LenProperties, SubSeqFull DEF First
<1>4. QED
  BY <1>2, <1>3

\* The rows of the partial file and of its buffer stay the first ones admitted.
LEMMA ReachedStep ==
  ASSUME Core, ReachedFacts, [Next]_vars
  PROVE  ReachedFacts'
<1> SUFFICES ASSUME csvPartial'.cap = cap', cap' # 0
             PROVE  IsPrefixOf(csvPartial'.rows \o buf', admitted')
  BY DEF ReachedFacts
<1>1. TypeOK /\ ThreadFacts /\ FileFacts /\ Flow
  BY DEF Core
<1>2. /\ csvPartial.rows \in Seq(Samples) /\ buf \in Seq(Samples)
      /\ batch \in Seq(Samples) /\ admitted \in Seq(Samples)
      /\ sample \in Samples /\ <<>> \in Seq(Samples)
  BY <1>1, EmptySeq DEF TypeOK, SampleTypes, FileTypes, CsvFile
<1>3. CASE Bystander \/ SubmitEnter \/ WriterMetadata \/ WriterSummary
           \/ WriterPop \/ ForeignOutput
  BY <1>3
    DEF Bystander, SubmitEnter, WriterMetadata, WriterSummary, WriterPop,
        ForeignOutput, ReachedFacts, flow, disk, csvFiles, history
<1>4. CASE SubmitPush
  <2>1. /\ UNCHANGED <<csvPartial, buf, cap>>
        /\ admitted' \in {admitted, Append(admitted, sample)}
    BY <1>4 DEF SubmitPush, disk, csvFiles, history
  <2>2. IsPrefixOf(csvPartial.rows \o buf, admitted)
    BY <2>1 DEF ReachedFacts
  <2>3. IsPrefixOf(csvPartial.rows \o buf, Append(admitted, sample))
    BY <1>2, <2>2, PrefixOfPrefix
  <2>4. QED
    BY <2>1, <2>2, <2>3
<1>5. CASE StartCall \/ RecoverPartial
  <2>1. csvPartial'.cap = 0
    BY <1>1, <1>5, StartIsClean DEF RecoverPartial, NoFile
  <2>2. QED
    BY <2>1
<1>6. CASE StartCreate
  <2>1. /\ csvPartial'.rows = <<>> /\ buf' = <<>> /\ admitted' = <<>>
    BY <1>1, <1>6
      DEF StartCreate, FileFacts, Beginning, NewPartial, NoFile,
          AfterFailedCreate, flow
  <2>2. IsPrefixOf(<<>>, <<>> \o <<>>) /\ <<>> \o <<>> = <<>>
    BY <1>2, PrefixIsPart, ConcatEmptySeq
  <2>3. QED
    BY <2>1, <2>2
<1>7. CASE WriterWrite
  <2>1. Path = admitted
    BY <1>1, <1>7
      DEF WriterWrite, Flow, Running, FileFacts, Alive, Closed, Failing
  <2>2. /\ UNCHANGED <<csvPartial, admitted>>
        /\ \/ buf' = buf \o batch
           \/ \E k \in 0..Len(batch) : buf' = buf \o First(batch, k)
    BY <1>7 DEF WriterWrite, disk, csvFiles
  <2>3. QED
    BY <1>1, <2>1, <2>2, BatchIsNext
<1>8. CASE WriterPauseFlush \/ WriterFlushDue \/ WriterClose
           \/ WriterFinishError \/ Crash
  <2>1. UNCHANGED <<admitted, cap>> /\ csvPartial'.cap = csvPartial.cap
    BY <1>1, <1>8, FlushKeepsCapture
      DEF WriterPauseFlush, WriterFlushDue, WriterClose, WriterFinishError,
          Crash
  <2>2. buf' = <<>> \/ UNCHANGED <<csvPartial, buf>>
    BY <1>8
      DEF WriterPauseFlush, WriterFlushDue, WriterClose, WriterFinishError,
          Crash, Flush
  <2>3. IsPrefixOf(csvPartial.rows \o buf, admitted)
    BY <2>1 DEF ReachedFacts
  <2>4. /\ IsPrefixOf(csvPartial.rows, admitted)
        /\ \A k \in 0..Len(buf) :
             IsPrefixOf(csvPartial.rows \o First(buf, k), admitted)
    BY <1>2, <2>3, PrefixOfPrefix
  <2>5. IsPrefixOf(csvPartial'.rows, admitted)
    BY <1>1, <1>8, <2>3, <2>4, FlushAdds
  <2>6. csvPartial'.rows \o <<>> = csvPartial'.rows
    BY <1>1, <1>8, FlushKeepsCapture, ConcatEmptySeq DEF CsvFile
  <2>7. QED
    BY <2>1, <2>2, <2>3, <2>5, <2>6
<1>9. CASE WriterPromote
  BY <1>9
    DEF WriterPromote, ReachedFacts, NoFile, flow
<1>10. QED
  BY <1>3, <1>4, <1>5, <1>6, <1>7, <1>8, <1>9, WhoMovesData DEF Environment

\* What is in place at each step of a stop.
LEMMA PublishedStep ==
  ASSUME TypeOK, ThreadFacts, FileFacts, PublishedFacts, [Next]_vars
  PROVE  PublishedFacts'
<1> USE DEF TypeOK, StepTypes, CountTypes, FileTypes, MetaFile, gate, flags,
            counters, flow, producer, writer, csvFiles, metas, history, disk,
            PublishedFacts, FileFacts, Closed, Failing, Alive, Shut,
            ThreadFacts, GateFacts, ControlFacts, WriterFacts, PastGate,
            Beginning
<1>1. CASE SubmitEnter \/ SubmitStep
  BY <1>1
    DEF SubmitEnter, SubmitStep, SubmitPush, SubmitCount, SubmitFull,
        SubmitOverflow, SubmitRelease, SubmitNotify, ToError, NotifyWriter,
        Enter, Leave, Close
<1>2. CASE Call
  BY <1>2
    DEF Call, StartCall, MayStart, PauseCall, ResumeRequest, StopCall, Close
<1>3. CASE ControlStep
  BY <1>3
    DEF ControlStep, StartCreate, StartHeader, StartOpen, StartSpawn,
        StartNoThread, PauseRequest, PauseReturn, ResumeOpen, StopRequest,
        StopReturn, Close, Open, ToError, NotifyWriter
<1>4. CASE WriterStep
  <2>1. CASE WriterPop \/ WriterPopped \/ WriterLoad \/ WriterDrained
    BY <2>1 DEF WriterPop, WriterPopped, WriterLoad, WriterDrained, Drained
  <2>2. CASE WriterWrite
    BY <2>2 DEF WriterWrite, FailTo, Close
  <2>3. CASE WriterSize
    BY <2>3 DEF WriterSize
  <2>4. CASE WriterPause
    BY <2>4 DEF WriterPause, Pausing
  <2>5. CASE WriterPauseFlush \/ WriterFlushDue \/ WriterClose
    BY <2>5
      DEF WriterPauseFlush, WriterFlushDue, WriterClose, Flush, FailTo, Close
  <2>6. CASE WriterPromote
    BY <2>6 DEF WriterPromote, FailTo, Close, NoFile
  <2>7. CASE WriterMetadata \/ WriterSummary
    BY <2>7 DEF WriterMetadata, WriterSummary, Summary, FailTo, Close
  <2>8. CASE WriterFinished
    BY <2>8 DEF WriterFinished
  <2>9. CASE WriterError
    BY <2>9 DEF WriterError, ToError
  <2>10. CASE WriterFinishError
    BY <2>10 DEF WriterFinishError
  <2>11. CASE WriterDone
    BY <2>11 DEF WriterDone
  <2>12. CASE WriterNotDue \/ WriterWait \/ WriterSleep \/ WriterWake
              \/ WriterTimeout
    BY <2>12
      DEF WriterNotDue, WriterWait, WriterSleep, WriterWake, WriterTimeout,
          SleepUnless
  <2>13. QED
    BY <1>4, <2>1, <2>2, <2>3, <2>4, <2>5, <2>6, <2>7, <2>8, <2>9, <2>10,
       <2>11, <2>12
      DEF WriterStep
<1>5. CASE Environment
  BY <1>5
    DEF Environment, ForeignOutput, RecoverPartial, Crash, NoFile
<1>6. CASE UNCHANGED vars
  BY <1>6 DEF vars
<1>7. QED
  BY <1>1, <1>2, <1>3, <1>4, <1>5, <1>6 DEF Next

\* A summary is written when the counts are final and the data are in place.
LEMMA SummaryStep ==
  ASSUME Core, CountFacts, PublishedFacts, SummaryIsTrue, [Next]_vars
  PROVE  SummaryIsTrue'
<1> SUFFICES ASSUME meta'.cap = cap', cap' # 0
             PROVE  /\ csv'.cap = cap'
                    /\ meta'.accepted = Len(csv'.rows)
                    /\ meta'.written = Len(csv'.rows)
  BY DEF SummaryIsTrue
<1>1. TypeOK /\ ThreadFacts /\ FileFacts /\ OutputIsComplete
  BY DEF Core
<1>2. CASE UNCHANGED <<meta, csv, cap>>
  BY <1>2 DEF SummaryIsTrue
<1>3. CASE StartCall
  BY <1>1, <1>3, StartIsClean
    DEF PublishedFacts, TypeOK, FileTypes, MetaFile
<1>4. CASE WriterPromote \/ ForeignOutput
  BY <1>1, <1>4
    DEF WriterPromote, ForeignOutput, SummaryIsTrue, FileFacts, metas, history,
        Failing
<1>5. CASE WriterSummary
  <2>1. UNCHANGED <<csv, cap>> /\ meta' \in {meta, Summary} /\ wpc = "summary"
    BY <1>5 DEF WriterSummary, csvFiles
  <2>2. csv.cap = cap /\ csv.rows = admitted
    BY <1>1, <2>1 DEF PublishedFacts, OutputIsComplete
  <2>3. accepted = Len(admitted) /\ written = Len(admitted)
    <3>1. queue = <<>> /\ batch = <<>> /\ ~ioFailed /\ ppc # "count" /\ Running
      BY <1>1, <2>1
        DEF ThreadFacts, WriterFacts, FileFacts, GateFacts, PastGate, Closed,
            Failing, Alive, Shut, Running
    <3>2. QED
      BY <1>1, <3>1, EmptySeq DEF CountFacts, TypeOK, CountTypes
  <2>4. QED
    BY <2>1, <2>2, <2>3 DEF Summary, SummaryIsTrue
<1>6. QED
  BY <1>2, <1>3, <1>4, <1>5, WhoMovesData
    DEF Bystander, SubmitEnter, SubmitPush, StartCreate, WriterPop,
        WriterWrite, WriterPauseFlush, WriterFlushDue, WriterClose,
        WriterFinishError, WriterMetadata, Environment, RecoverPartial, Crash,
        disk, csvFiles, metas, history
-----------------------------------------------------------------------------
(* The theorems *)

\* Both parts of the invariant hold at first, and every step keeps them.
LEMMA InitBooks == Init => Books
<1> SUFFICES ASSUME Init PROVE Books
  OBVIOUS
<1>1. \A c : OwnedBy(<<>>, c)
  BY DEF OwnedBy
<1>2. OwnerFacts
  BY <1>1 DEF Init, OwnerFacts, NoFile
<1>3. CountFacts /\ ReachedFacts /\ SummaryIsTrue
  BY DEF Init, CountFacts, Running, Beginning, ReachedFacts, SummaryIsTrue
<1>4. PublishedFacts
  BY DEF Init, PublishedFacts, NoMeta
<1>5. QED
  BY <1>2, <1>3, <1>4 DEF Books

LEMMA NextBooks == Core /\ Books /\ [Next]_vars => Books'
BY OwnerStep, CountStep, ReachedStep, PublishedStep, SummaryStep DEF Core, Books

\* The inductive invariant of the recorder.
THEOREM Invariance == Spec => []IInv
<1>1. Init => IInv
  BY InitCore, InitBooks DEF IInv
<1>2. IInv /\ [Next]_vars => IInv'
  BY NextCore, NextBooks DEF IInv
<1>3. QED
  BY <1>1, <1>2, PTL DEF Spec

\* What a failed or running capture leaves in its partial file is a prefix of
\* what it admitted.
THEOREM PartialPrefix == Spec => []PartialIsAPrefix
<1>1. ASSUME IInv, csvPartial.cap = cap, cap # 0
      PROVE  IsPrefixOf(csvPartial.rows, admitted)
  <2>1. /\ csvPartial.rows \in Seq(Samples) /\ buf \in Seq(Samples)
        /\ admitted \in Seq(Samples)
    BY <1>1
      DEF IInv, Core, TypeOK, SampleTypes, FileTypes, CsvFile
  <2>2. IsPrefixOf(csvPartial.rows \o buf, admitted)
    BY <1>1 DEF IInv, Books, ReachedFacts
  <2>3. QED
    BY <2>1, <2>2, PrefixOfPrefix
<1>2. IInv => PartialIsAPrefix
  BY <1>1 DEF PartialIsAPrefix
<1>3. QED
  BY <1>2, Invariance, PTL

\* No file holds a row of another capture.
THEOREM OwnRows == Spec => []NoForeignRows
<1>1. IInv => NoForeignRows
  BY DEF IInv, Books, OwnerFacts, OwnedBy, NoForeignRows
<1>2. QED
  BY <1>1, Invariance, PTL

\* A summary agrees with the data it stands beside.
THEOREM SummaryTrue == Spec => []SummaryIsTrue
<1>1. IInv => SummaryIsTrue
  BY DEF IInv, Books
<1>2. QED
  BY <1>1, Invariance, PTL

\* When stop returns Ok the data file and its summary are in place.
THEOREM StopPublishes == Spec => []StopOkMeansPublished
<1>1. IInv => StopOkMeansPublished
  BY DEF IInv, Books, Core, ThreadFacts, WriterFacts, PublishedFacts,
         OutputIsComplete, StopOkMeansPublished
<1>2. QED
  BY <1>1, Invariance, PTL

\* A capture that overflowed still has every sample it accepted in its file.
THEOREM OverflowKeeps == Spec => []OverflowKeepsAccepted
<1>1. ASSUME IInv, wpc = "exited", ~ioFailed
      PROVE  /\ admitted = IF csv.cap = cap THEN csv.rows ELSE csvPartial.rows
             /\ accepted = Len(admitted) /\ written = Len(admitted)
  <2>1. /\ cap # 0 /\ Running /\ ppc # "count"
        /\ queue = <<>> /\ batch = <<>>
    BY <1>1
      DEF IInv, Core, Books, ThreadFacts, WriterFacts, GateFacts, PastGate,
          FileFacts, PublishedFacts, Shut, Running
  <2>2. buf = <<>>
    <3>1. ~fileOpen
      BY <1>1
        DEF IInv, Core, FileFacts, ThreadFacts, ControlFacts
    <3>2. QED
      BY <1>1, <3>1 DEF IInv, Core, FileFacts
  <2>3. ASSUME csv.cap # cap PROVE admitted = csvPartial.rows
    <3>1. Path = admitted
      BY <1>1, <2>1, <2>3 DEF IInv, Core, Flow
    <3>2. QED
      BY <1>1, <2>1, <2>2, <3>1, ConcatEmptySeq
        DEF Path, IInv, Core, TypeOK, FileTypes, CsvFile
  <2>4. csv.cap = cap => admitted = csv.rows
    BY <1>1, <2>1 DEF IInv, Core, OutputIsComplete
  <2>5. accepted = Len(admitted) /\ written = Len(admitted)
    BY <1>1, <2>1, EmptySeq
      DEF IInv, Core, Books, CountFacts, TypeOK, CountTypes
  <2>6. QED
    BY <2>3, <2>4, <2>5
<1>2. IInv => OverflowKeepsAccepted
  BY <1>1 DEF OverflowKeepsAccepted
<1>3. QED
  BY <1>2, Invariance, PTL
-----------------------------------------------------------------------------
(* The refinement: a step of the recorder moves nothing that Capture sees, or its
   status alone, or it is one of the five steps that move more. *)

\* How a step that leaves samples and output alone may change the status.
StatusMove ==
  \/ CaptureStatus' = CaptureStatus
  \/ CaptureStatus = "running" /\ CaptureStatus' = "suspended" /\ csv.cap # cap
  \/ CaptureStatus = "suspended" /\ CaptureStatus' = "running"
  \/ /\ CaptureStatus = "running" /\ CaptureStatus' = "idle"
     /\ csv.cap = cap \/ admitted = <<>>
  \/ CaptureStatus \in {"running", "suspended"} /\ CaptureStatus' = "failed"

Unseen == <<cap, admitted, csv, crashes>>

\* The steps of the threads that change the state do so in one of these ways.
LEMMA ThreadsMoveStatus ==
  ASSUME IInv, [Next]_vars, ~StartCall, ~Crash
  PROVE  StatusMove
<1> USE DEF StatusMove, CaptureStatus, flags, gate
<1>1. /\ StepTypes /\ ThreadFacts /\ FileFacts /\ PublishedFacts
  BY DEF IInv, Core, Books, TypeOK
<1>2. CASE UNCHANGED state
  BY <1>2
<1>3. CASE SubmitOverflow
  BY <1>1, <1>3
    DEF SubmitOverflow, ToError, StepTypes, RecordingStates, ThreadFacts,
        GateFacts, WriterFacts, PastGate, Shut
<1>4. CASE StartCreate
  BY <1>1, <1>4
    DEF StartCreate, ThreadFacts, ControlFacts, FileFacts
<1>5. CASE StartHeader
  BY <1>1, <1>5 DEF StartHeader, ThreadFacts, ControlFacts
<1>6. CASE StartOpen \/ StartNoThread \/ ResumeOpen
  BY <1>1, <1>6
    DEF StartOpen, StartNoThread, ResumeOpen, ToError, ThreadFacts,
        ControlFacts, Beginning
<1>7. CASE PauseRequest \/ ResumeRequest
  BY <1>7 DEF PauseRequest, ResumeRequest
<1>8. CASE StopRequest
  BY <1>1, <1>8 DEF StopRequest, ThreadFacts, ControlFacts
<1>9. CASE WriterPause
  BY <1>1, <1>9
    DEF WriterPause, FileFacts, ThreadFacts, WriterFacts, Pausing
<1>10. CASE WriterFinished
  BY <1>1, <1>10 DEF WriterFinished, PublishedFacts
<1>11. CASE WriterError
  BY <1>1, <1>11
    DEF WriterError, ToError, StepTypes, RecordingStates
<1>12. UNCHANGED state
       \/ SubmitOverflow \/ StartCreate \/ StartHeader \/ StartOpen
       \/ StartNoThread \/ ResumeOpen \/ PauseRequest \/ ResumeRequest
       \/ StopRequest \/ WriterPause \/ WriterFinished \/ WriterError
  <2>1. CASE SubmitEnter \/ SubmitStep
    BY <2>1
      DEF SubmitEnter, SubmitStep, SubmitPush, SubmitCount, SubmitFull,
          SubmitRelease, SubmitNotify
  <2>2. CASE Call \/ ControlStep
    BY <2>2
      DEF Call, PauseCall, StopCall, ControlStep, StartSpawn, PauseReturn,
          StopReturn
  <2>3. CASE WriterStep
    BY <2>3
      DEF WriterStep, WriterPop, WriterPopped, WriterWrite, WriterLoad,
          WriterDrained, WriterSize, WriterPauseFlush, WriterClose,
          WriterPromote, WriterMetadata, WriterSummary, WriterFinishError,
          WriterDone, WriterFlushDue, WriterNotDue, WriterWait, WriterSleep,
          WriterWake, WriterTimeout
  <2>4. CASE ForeignOutput \/ RecoverPartial \/ UNCHANGED vars
    BY <2>4 DEF ForeignOutput, RecoverPartial, vars
  <2>5. QED
    BY <2>1, <2>2, <2>3, <2>4 DEF Next, Environment
<1>13. QED
  BY <1>2, <1>3, <1>4, <1>5, <1>6, <1>7, <1>8, <1>9, <1>10, <1>11, <1>12

\* Every step of the recorder is one of the capture, or none.
LEMMA StepImplementsCapture ==
  ASSUME IInv, IInv', [Next]_vars
  PROVE  [Abstract!Next]_(Abstract!vars)
<1> USE DEF Abstract!Next, Abstract!vars, Abstract!Published
<1>1. TypeOK /\ ThreadFacts /\ FileFacts /\ Flow
  BY DEF IInv, Core
<1>2. CASE StatusMove /\ UNCHANGED Unseen
  BY <1>2
    DEF StatusMove, Unseen, Abstract!Suspend, Abstract!Continue,
        Abstract!Finish, Abstract!Fail
<1>3. CASE StartCall
  <2>1. /\ CaptureStatus \in {"idle", "failed"} /\ CaptureStatus' = "running"
        /\ cap' = cap + 1 /\ admitted' = <<>> /\ UNCHANGED <<csv, crashes>>
    BY <1>3
      DEF StartCall, MayStart, ClosedError, CaptureStatus, disk, csvFiles
  <2>2. QED
    BY <2>1 DEF Abstract!Begin
<1>4. CASE SubmitPush
  <2>1. UNCHANGED <<state, cap, csv, crashes>> /\ ppc = "push"
    BY <1>4 DEF SubmitPush, flags, disk, csvFiles, history
  <2>2. CASE UNCHANGED admitted
    BY <2>1, <2>2 DEF CaptureStatus
  <2>3. CASE admitted' = Append(admitted, sample)
    <3>1. inFlight = 1
      BY <1>1, <2>1 DEF ThreadFacts, GateFacts, PastGate
    <3>2. state \notin {"Idle", "Paused"}
      BY <1>1, <3>1 DEF ThreadFacts, WriterFacts, QuietFacts, Shut
    <3>3. csv.cap # cap
      <4>1. cap # 0
        BY <3>2 DEF IInv, Books, PublishedFacts
      <4>2. QED
        BY <1>1, <3>1, <4>1 DEF FileFacts, Shut
    <3>4. sample \in Samples
      BY <1>1 DEF TypeOK, SampleTypes
    <3>5. CaptureStatus \in {"running", "failed"} /\ CaptureStatus' = CaptureStatus
      BY <2>1, <3>2 DEF CaptureStatus
    <3>6. QED
      BY <2>1, <2>3, <3>3, <3>4, <3>5 DEF Abstract!Admit
  <2>4. QED
    BY <1>4, <2>2, <2>3 DEF SubmitPush
<1>5. CASE WriterPromote
  <2>1. /\ UNCHANGED <<state, cap, admitted, crashes>> /\ wpc = "promote"
        /\ csv' \in {csv, csvPartial}
    BY <1>5 DEF WriterPromote, flow
  <2>2. CaptureStatus \in {"running", "failed"} /\ CaptureStatus' = CaptureStatus
    BY <1>1, <2>1 DEF ThreadFacts, WriterFacts, Closed, CaptureStatus
  <2>3. csv.cap # cap /\ cap # 0 /\ csvPartial.cap = cap
    BY <1>1, <2>1
      DEF FileFacts, ThreadFacts, WriterFacts, Alive, Failing, Closed
  <2>4. ASSUME csv' = csvPartial PROVE csv' = [cap |-> cap, rows |-> admitted]
    <3>1. csv' \in CsvFile /\ csv'.cap = cap
      BY <1>1, <2>3, <2>4 DEF TypeOK, FileTypes
    <3>2. csv'.rows = admitted
      BY <2>1, <2>3, <3>1 DEF IInv, Core, OutputIsComplete
    <3>3. QED
      BY <3>1, <3>2 DEF CsvFile
  <2>5. QED
    BY <2>1, <2>2, <2>3, <2>4 DEF Abstract!Publish
<1>6. CASE ForeignOutput
  BY <1>6
    DEF ForeignOutput, Foreign, NoFile, CaptureStatus, Abstract!Intrude, flags,
        history, flow
<1>7. CASE Crash
  BY <1>7 DEF Crash, CaptureStatus, Abstract!Die
<1>8. \/ StartCall \/ SubmitPush \/ WriterPromote \/ ForeignOutput \/ Crash
      \/ UNCHANGED Unseen
  <2>1. CASE SubmitEnter \/ SubmitStep
    BY <2>1
      DEF SubmitEnter, SubmitStep, SubmitCount, SubmitFull, SubmitOverflow,
          SubmitRelease, SubmitNotify, Unseen, flow, disk, csvFiles, history
  <2>2. CASE Call \/ ControlStep
    BY <2>2
      DEF Call, PauseCall, ResumeRequest, StopCall, ControlStep, StartCreate,
          StartHeader, StartOpen, StartSpawn, StartNoThread, PauseRequest,
          PauseReturn, ResumeOpen, StopRequest, StopReturn, Unseen, flow, disk,
          csvFiles, history
  <2>3. CASE WriterStep
    BY <2>3
      DEF WriterStep, WriterPop, WriterPopped, WriterWrite, WriterLoad,
          WriterDrained, WriterSize, WriterPauseFlush, WriterPause,
          WriterClose, WriterMetadata, WriterSummary, WriterFinished,
          WriterError, WriterFinishError, WriterDone, WriterFlushDue,
          WriterNotDue, WriterWait, WriterSleep, WriterWake, WriterTimeout,
          Unseen, flow, disk, csvFiles, history
  <2>4. CASE RecoverPartial \/ UNCHANGED vars
    BY <2>4 DEF RecoverPartial, vars, Unseen, flow, disk, csvFiles, history
  <2>5. QED
    BY <2>1, <2>2, <2>3, <2>4 DEF Next, Environment
<1>9. QED
  BY <1>2, <1>3, <1>4, <1>5, <1>6, <1>7, <1>8, ThreadsMoveStatus

\* The recorder implements the abstract capture.
THEOREM Implements == Spec => ImplementsCapture
<1>1. Init => Abstract!Init
  BY DEF Init, Abstract!Init, CaptureStatus, NoFile
<1>2. IInv /\ IInv' /\ [Next]_vars => [Abstract!Next]_(Abstract!vars)
  BY StepImplementsCapture
<1>3. QED
  BY <1>1, <1>2, Invariance, PTL DEF Spec, ImplementsCapture, Abstract!Spec
-----------------------------------------------------------------------------
(* What the session knows of the recorder *)

Joinable == wpc # "none"

\* While the process lives every step is one of RecorderStatus, or none.
LEMMA StepImplementsStatus ==
  ASSUME IInv, [Next]_vars, ~Crash
  PROVE  [Status!StatusNext]_(Status!status)
<1> USE DEF Status!StatusNext, Status!status, flags, gate, writer
<1>1. StepTypes /\ ThreadFacts
  BY DEF IInv, Core, TypeOK
<1>2. CASE UNCHANGED state /\ (Joinable' <=> Joinable)
  BY <1>2 DEF Joinable
<1>3. CASE StartCall
  BY <1>3
    DEF StartCall, MayStart, ClosedError, Status!StartAccepted
<1>4. CASE StartCreate \/ StartHeader
  BY <1>1, <1>4
    DEF StartCreate, StartHeader, ThreadFacts, ControlFacts, Status!StartOk,
        Status!StartFailed
<1>5. CASE StartOpen \/ StartNoThread
  BY <1>1, <1>5
    DEF StartOpen, StartNoThread, ToError, ThreadFacts, ControlFacts,
        Status!Fails
<1>6. CASE StartSpawn
  BY <1>1, <1>6
    DEF StartSpawn, ThreadFacts, ControlFacts, Beginning, Status!WriterStarts
<1>7. CASE PauseRequest \/ ResumeRequest
  BY <1>7
    DEF PauseRequest, ResumeRequest, NotifyWriter, Status!PauseAccepted,
        Status!Resumed
<1>8. CASE ResumeOpen
  BY <1>1, <1>8
    DEF ResumeOpen, NotifyWriter, ToError, ThreadFacts, ControlFacts,
        Status!Fails
<1>9. CASE StopRequest
  BY <1>1, <1>9
    DEF StopRequest, NotifyWriter, ThreadFacts, ControlFacts,
        Status!StopAccepted
<1>10. CASE StopReturn
  BY <1>1, <1>10
    DEF StopReturn, ThreadFacts, WriterFacts, Status!Joined
<1>11. CASE WriterPause \/ WriterFinished
  BY <1>11
    DEF WriterPause, WriterFinished, Status!WriterPaused, Status!WriterStopped
<1>12. CASE WriterError
  BY <1>1, <1>12
    DEF WriterError, ToError, StepTypes, RecordingStates, ThreadFacts,
        WriterFacts, Alive, Status!Fails
<1>13. CASE SubmitOverflow
  <2>1. /\ ppc = "overflow" /\ state' = "Error" /\ (Joinable' <=> Joinable)
        /\ state # "Idle"
    BY <1>1, <1>13
      DEF SubmitOverflow, ToError, NotifyWriter, Joinable, ThreadFacts,
          GateFacts, WriterFacts, PastGate, Shut
  <2>2. state # "Starting"
    BY <1>1, <2>1
      DEF StepTypes, ThreadFacts, GateFacts, ControlFacts, PastGate, Shut
  <2>3. QED
    BY <1>1, <2>1, <2>2 DEF StepTypes, RecordingStates, Joinable, Status!Fails
<1>14. (UNCHANGED state /\ (Joinable' <=> Joinable))
       \/ SubmitOverflow \/ StartCall \/ StartCreate \/ StartHeader
       \/ StartOpen \/ StartSpawn \/ StartNoThread \/ ResumeOpen
       \/ PauseRequest \/ ResumeRequest \/ StopRequest \/ StopReturn
       \/ WriterPause \/ WriterFinished \/ WriterError
  <2> USE DEF Joinable
  <2>1. CASE SubmitEnter \/ SubmitStep
    BY <2>1
      DEF SubmitEnter, SubmitStep, SubmitPush, SubmitCount, SubmitFull,
          SubmitRelease, SubmitNotify, NotifyWriter
  <2>2. CASE Call \/ ControlStep
    BY <2>2 DEF Call, PauseCall, StopCall, ControlStep, PauseReturn
  <2>3. CASE WriterStep
    BY <2>3
      DEF WriterStep, WriterPop, WriterPopped, WriterWrite, WriterLoad,
          WriterDrained, WriterSize, WriterPauseFlush, WriterClose,
          WriterPromote, WriterMetadata, WriterSummary, WriterFinishError,
          WriterDone, WriterFlushDue, WriterNotDue, WriterWait, WriterSleep,
          WriterWake, WriterTimeout, Flush, FailTo, SleepUnless
  <2>4. CASE ForeignOutput \/ RecoverPartial \/ UNCHANGED vars
    BY <2>4 DEF ForeignOutput, RecoverPartial, vars
  <2>5. QED
    BY <2>1, <2>2, <2>3, <2>4 DEF Next, Environment
<1>15. QED
  BY <1>2, <1>3, <1>4, <1>5, <1>6, <1>7, <1>8, <1>9, <1>10, <1>11, <1>12,
     <1>13, <1>14

\* The recorder is what the session takes it for, until the process dies.
THEOREM StatusImplemented == Spec => StatusIsImplemented
<1>1. Init => Status!StatusInit
  BY DEF Init, Status!StatusInit
<1>2. IInv /\ [Next]_vars => [~Crash => [Status!StatusNext]_(Status!status)]_vars
  BY StepImplementsStatus
<1>3. QED
  BY <1>1, <1>2, Invariance, PTL DEF Spec, StatusIsImplemented
=============================================================================

--------------------------- MODULE CompanionProofs ---------------------------
(***************************************************************************)
(* How the companion says goodbye, for any number of commands and events   *)
(* and any capacity of the queue.                                          *)
(***************************************************************************)
EXTENDS Companion, SequenceLemmas

Lines == [kind : {"event", "answer", "goodbye"}, n : Nat]

CompanionType ==
  /\ mpc \in {"next", "connect", "dispatch", "submit", "await", "stop", "disconnect", "finish",
              "drain", "close", "join", "return", "ended"}
  /\ wpc \in {"response", "write", "complete", "read", "event", "progress", "check",
              "idle", "fail", "notify", "exited"}
  /\ shutdown \in BOOLEAN /\ session \in BOOLEAN
  /\ finishing \in BOOLEAN /\ closed \in BOOLEAN
  /\ closing \in BOOLEAN /\ failed \in BOOLEAN /\ finished \in BOOLEAN /\ ends \in BOOLEAN
  /\ ticket \in Nat /\ pending \in Nat /\ completed \in Nat /\ taken \in Nat
  /\ said \in Seq(Lines)

\* Main is past the session: it has been destroyed, and no thread of its is left.
Past == \/ mpc \in {"finish", "drain", "close", "join", "return", "ended"}
        \/ shutdown /\ mpc # "disconnect"

\* One answer is under way at most, and main waits for it: when a line is read, and
\* while shutdown takes the session down, none is.
OneAnswer ==
  /\ completed <= ticket
  /\ mpc \in {"next", "connect", "dispatch", "submit"} => completed = ticket
  /\ shutdown /\ mpc \in {"disconnect", "finish", "drain"} => completed = ticket
  /\ pending # 0 => pending = ticket /\ completed < ticket
  /\ pending # 0 /\ ~failed => mpc = "await"
  /\ wpc \in {"write", "complete"} =>
       pending = 0 /\ taken = ticket /\ completed < ticket /\ mpc = "await"
  /\ failed => wpc \in {"notify", "exited"}
  /\ closing => mpc \in {"join", "return", "ended"}

\* What the writer read last: nothing is left once it was told that there is no more,
\* because the sink was finished after the session had gone.
NothingLeft ==
  /\ Past => ~session
  /\ closed => finishing /\ events = <<>>
  /\ finishing => Past
  /\ ends => finishing /\ events = <<>> /\ wpc \notin {"event", "progress"}
  /\ finished => ends
  /\ wpc # "event" => held = NoEvent
  /\ shutdown /\ mpc \in {"submit", "await", "close", "join", "return", "ended"} =>
       finished \/ failed
  /\ shutdown => mpc \notin {"next", "connect", "dispatch", "stop"}

\* After goodbye there is nothing to write, and nobody who would have it written.
Goodbye ==
  \A i \in 1..Len(said) : said[i].kind = "goodbye" =>
    /\ i = Len(said) /\ shutdown /\ finished
    /\ mpc \in {"await", "close", "join", "return", "ended"}
    /\ pending = 0 /\ wpc # "write"

CompanionInvariant == CompanionType /\ OneAnswer /\ NothingLeft /\ Goodbye
-----------------------------------------------------------------------------
\* The main thread keeps its part.
LEMMA MainKeepsInvariant ==
  ASSUME CompanionInvariant, ReadLine \/ InputEnds \/ MainStep
  PROVE  CompanionInvariant'
<1> USE DEF CompanionInvariant, CompanionType, OneAnswer, NothingLeft, Goodbye, Past,
            MainOnly, sink, queued, lease, ended, output, thread, world, seen
<1>1. CASE ReadLine
  <2>0. mpc = "next" /\ ~shutdown /\ pending = 0 /\ wpc \notin {"write", "complete"}
    BY <1>1 DEF ReadLine
  <2>1. CASE mpc' \in {"dispatch", "submit"} /\ UNCHANGED <<shutdown, cancelled, result>>
    BY <1>1, <2>0, <2>1 DEF ReadLine
  <2>2. CASE mpc' = "disconnect" /\ shutdown' = TRUE
    BY <1>1, <2>0, <2>2 DEF ReadLine
  <2>3. CASE mpc' = "stop" /\ shutdown' = shutdown
    BY <1>1, <2>0, <2>3 DEF ReadLine
  <2>4. CASE mpc' = "connect" /\ UNCHANGED <<shutdown, cancelled, result>>
    BY <1>1, <2>0, <2>4 DEF ReadLine
  <2> QED
    BY <1>1, <2>1, <2>2, <2>3, <2>4 DEF ReadLine
<1>2. CASE InputEnds
  BY <1>2 DEF InputEnds
<1>3. CASE InputCancelled
  BY <1>3 DEF InputCancelled
<1>4. CASE Dispatched
  BY <1>4 DEF Dispatched
<1>5. CASE Submit
  <2>1. CASE NotAnswered /\ UNCHANGED <<ticket, pending>>
    BY <1>5, <2>1 DEF Submit, NotAnswered
  <2>2. CASE ticket' = ticket + 1 /\ pending' = ticket + 1 /\ mpc' = "await" /\ ~failed
    BY <1>5, <2>2 DEF Submit
  <2> QED
    BY <1>5, <2>1, <2>2 DEF Submit
<1>6. CASE AwaitWritten
  <2>1. CASE completed >= ticket /\ ~failed
    BY <1>6, <2>1 DEF AwaitWritten, Answered
  <2>2. CASE ~(completed >= ticket /\ ~failed)
    BY <1>6, <2>2 DEF AwaitWritten, NotAnswered
  <2> QED
    BY <2>1, <2>2
<1>7. CASE Stop
  BY <1>7 DEF Stop
<1>8. CASE DisconnectSession
  BY <1>8 DEF DisconnectSession
<1>9. CASE FinishEvents
  <2>1. CASE finishing \/ closed
    BY <1>9, <2>1 DEF FinishEvents
  <2>2. CASE ~finishing /\ ~closed
    <3>1. finishing' = TRUE /\ closed' = FALSE /\ ~ends /\ ~finished
      BY <1>9, <2>2 DEF FinishEvents, Finish
    <3>2. mpc = "finish" /\ mpc' = "drain" /\ UNCHANGED <<held, shutdown, session, output, thread, said>>
      BY <1>9 DEF FinishEvents
    <3> QED
      BY <3>1, <3>2
  <2> QED
    BY <2>1, <2>2
<1>10. CASE AwaitDrained
  BY <1>10 DEF AwaitDrained
<1>11. CASE Close
  BY <1>11 DEF Close
<1>12. CASE Join
  BY <1>12 DEF Join
<1>13. CASE Return
  BY <1>13 DEF Return, CloseSink
<1>14. CASE Connect
  <2>1. ~finishing /\ ~closed /\ ~ends
    BY <1>14 DEF Connect
  <2> QED
    BY <1>14, <2>1 DEF Connect
<1> QED
  BY <1>1, <1>2, <1>3, <1>4, <1>5, <1>6, <1>7, <1>8, <1>9, <1>10, <1>11, <1>12, <1>13, <1>14
     DEF MainStep

\* A line that is not goodbye is written only before goodbye.
LEMMA WritingKeepsGoodbye ==
  ASSUME CompanionInvariant, NEW r \in Lines, said' = Append(said, r),
         \A i \in 1..Len(said) : said[i].kind # "goodbye"
  PROVE  /\ said' \in Seq(Lines) /\ Len(said') = Len(said) + 1
         /\ \A i \in 1..Len(said') : said'[i].kind = "goodbye" =>
              i = Len(said') /\ r.kind = "goodbye"
<1>1. said \in Seq(Lines) /\ Len(said) \in Nat
  BY LenProperties DEF CompanionInvariant, CompanionType
<1>2. /\ said' \in Seq(Lines) /\ Len(said') = Len(said) + 1
      /\ \A i \in 1..Len(said) : said'[i] = said[i]
      /\ said'[Len(said) + 1] = r
  BY <1>1, AppendProperties
<1> QED
  BY <1>1, <1>2

\* The writer keeps its part.
LEMMA WriterKeepsInvariant ==
  ASSUME CompanionInvariant, WriterStep
  PROVE  CompanionInvariant'
<1> USE DEF CompanionInvariant, CompanionType, OneAnswer, NothingLeft, Goodbye, Past,
            sink, queued, lease, ended, main, output, thread, world, seen
<1>1. CASE TakeResponse
  BY <1>1 DEF TakeResponse
<1>2. CASE WriteResponse
  <2>1. CASE broken
    BY <1>2, <2>1 DEF WriteResponse
  <2>2. CASE ~broken
    <3> DEFINE r == [kind |-> IF shutdown THEN "goodbye" ELSE "answer", n |-> taken]
    <3>1. /\ wpc = "write" /\ wpc' = "complete" /\ said' = Append(said, r)
          /\ UNCHANGED <<sink, main, output, taken, ends>>
      BY <1>2, <2>2 DEF WriteResponse, Says
    <3>2. r \in Lines /\ (r.kind = "goodbye" => shutdown)
      BY DEF Lines
    <3>3. \A i \in 1..Len(said) : said[i].kind # "goodbye"
      BY <3>1
    <3> HIDE DEF r
    <3>4. /\ said' \in Seq(Lines) /\ Len(said') = Len(said) + 1
          /\ \A i \in 1..Len(said') : said'[i].kind = "goodbye" =>
               i = Len(said') /\ shutdown
      BY <3>1, <3>2, <3>3, WritingKeepsGoodbye
    <3>5. shutdown => finished
      BY <3>1
    <3> QED
      BY <3>1, <3>4, <3>5
  <2> QED
    BY <2>1, <2>2
<1>3. CASE CompleteTicket
  BY <1>3 DEF CompleteTicket
<1>4. CASE ReadEvent
  <2>1. CASE Pops /\ wpc' = "event" /\ ends' = FALSE
    <3>1. events # <<>> /\ UNCHANGED <<main, output, said, taken, lease, ended>> /\ wpc = "read"
      BY <1>4, <2>1 DEF ReadEvent, Pops, Pop
    <3>2. ~ends /\ ~finished
      BY <3>1
    <3> QED
      BY <2>1, <3>1, <3>2
  <2>2. CASE ~(Pops /\ wpc' = "event" /\ ends' = FALSE)
    <3>1. /\ wpc = "read" /\ wpc' = "check" /\ events = <<>>
          /\ ends' = (finishing \/ closed)
          /\ UNCHANGED <<sink, main, output, taken, said>>
      BY <1>4, <2>2 DEF ReadEvent
    <3>2. ends' = finishing
      BY <3>1
    <3> QED
      BY <3>1, <3>2
  <2> QED
    BY <2>1, <2>2
<1>5. CASE WriteEvent
  <2>1. CASE UNCHANGED said
    BY <1>5, <2>1 DEF WriteEvent, Write
  <2>2. CASE Says("event", 0)
    <3> DEFINE r == [kind |-> "event", n |-> 0]
    <3>1. /\ wpc \in {"event", "progress"} /\ wpc' \in {"check", "progress"}
          /\ held' = NoEvent /\ said' = Append(said, r)
          /\ UNCHANGED <<queued, lease, ended, main, output, taken, ends>>
      BY <1>5, <2>2 DEF WriteEvent, Write, Says
    <3>2. r \in Lines /\ r.kind # "goodbye"
      BY DEF Lines
    <3>3. ~ends /\ ~finished
      BY <3>1
    <3>4. \A i \in 1..Len(said) : said[i].kind # "goodbye"
      BY <3>3
    <3> HIDE DEF r
    <3>5. /\ said' \in Seq(Lines) /\ Len(said') = Len(said) + 1
          /\ \A i \in 1..Len(said') : said'[i].kind # "goodbye"
      BY <3>1, <3>2, <3>4, WritingKeepsGoodbye
    <3> QED
      BY <3>1, <3>3, <3>5
  <2> QED
    BY <1>5, <2>1, <2>2 DEF WriteEvent
<1>6. CASE WriteProgress
  <2>1. CASE UNCHANGED said
    BY <1>6, <2>1 DEF WriteProgress
  <2>2. CASE Says("event", 0)
    <3> DEFINE r == [kind |-> "event", n |-> 0]
    <3>1. /\ wpc \in {"event", "progress"} /\ wpc' \in {"check", "progress"}
          /\ held' = NoEvent /\ said' = Append(said, r)
          /\ UNCHANGED <<queued, lease, ended, main, output, taken, ends>>
      BY <1>6, <2>2 DEF WriteProgress, Says
    <3>2. r \in Lines /\ r.kind # "goodbye"
      BY DEF Lines
    <3>3. ~ends /\ ~finished
      BY <3>1
    <3>4. \A i \in 1..Len(said) : said[i].kind # "goodbye"
      BY <3>3
    <3> HIDE DEF r
    <3>5. /\ said' \in Seq(Lines) /\ Len(said') = Len(said) + 1
          /\ \A i \in 1..Len(said') : said'[i].kind # "goodbye"
      BY <3>1, <3>2, <3>4, WritingKeepsGoodbye
    <3> QED
      BY <3>1, <3>3, <3>5
  <2> QED
    BY <1>6, <2>1, <2>2 DEF WriteProgress
<1>7. CASE CheckRead
  BY <1>7 DEF CheckRead
<1>8. CASE AwaitWork
  BY <1>8 DEF AwaitWork
<1>9. CASE Fail
  BY <1>9 DEF Fail
<1>10. CASE NotifyFailure
  BY <1>10 DEF NotifyFailure
<1> QED
  BY <1>1, <1>2, <1>3, <1>4, <1>5, <1>6, <1>7, <1>8, <1>9, <1>10 DEF WriterStep

\* The session does too: it is there only while main is not past it.
LEMMA SessionKeepsInvariant ==
  ASSUME CompanionInvariant, NEW kind, Produce(kind) \/ Measurements \/ ReaderLeaves
  PROVE  CompanionInvariant'
<1> USE DEF CompanionInvariant, CompanionType, OneAnswer, NothingLeft, Goodbye, Past,
            sink, queued, lease, ended, main, output, thread, world, seen, Aside
<1>1. CASE session /\ UNCHANGED <<ended, held, Aside>>
  <2>1. ~finishing /\ ~closed /\ ~ends /\ ~finished
    BY <1>1
  <2> QED
    BY <1>1, <2>1
<1>2. CASE ReaderLeaves
  BY <1>2 DEF ReaderLeaves
<1> QED
  BY <1>1, <1>2 DEF Produce, Measurements

\* The invariant holds in every state the companion reaches.
LEMMA CompanionInvariantHolds == Spec => []CompanionInvariant
<1>1. Init => CompanionInvariant
  <2>1. <<>> \in Seq(Lines) /\ Len(<<>>) = 0
    BY EmptySeq
  <2>2. Init => CompanionType
    <3> SUFFICES ASSUME Init PROVE CompanionType
      OBVIOUS
    <3>1. said = <<>>
      BY DEF Init
    <3>2. said \in Seq(Lines)
      BY <2>1, <3>1, Zenon
    <3> QED
      BY <3>2 DEF Init, SinkInit, CompanionType
  <2>3. Init => OneAnswer
    BY DEF Init, SinkInit, OneAnswer
  <2>4. Init => NothingLeft
    BY DEF Init, SinkInit, NothingLeft, Past
  <2>5. Init => Goodbye
    BY <2>1 DEF Init, Goodbye
  <2> QED
    BY <2>2, <2>3, <2>4, <2>5 DEF CompanionInvariant
<1>2. CompanionInvariant /\ [Next]_vars => CompanionInvariant'
  <2> SUFFICES ASSUME CompanionInvariant, [Next]_vars PROVE CompanionInvariant'
    OBVIOUS
  <2>1. CASE UNCHANGED vars
    BY <2>1 DEF vars, CompanionInvariant, CompanionType, OneAnswer, NothingLeft, Goodbye,
                Past, sink, queued, lease, ended, main, output, thread, world, seen
  <2> QED
    BY <2>1, MainKeepsInvariant, WriterKeepsInvariant, SessionKeepsInvariant DEF Next
<1> QED
  BY <1>1, <1>2, PTL DEF Spec

\* The answer to shutdown is the last thing written, and when it is the session is
\* gone and every event of its has been written or was not to be any more
\* (companion.cpp:60, 546).
THEOREM GoodbyeIsLast == Spec => []ShutdownAnswerIsLast
<1>1. CompanionInvariant => ShutdownAnswerIsLast
  <2> SUFFICES ASSUME CompanionInvariant, NEW i \in 1..Len(said),
                      said[i].kind = "goodbye"
               PROVE  i = Len(said) /\ ~session /\ events = <<>> /\ held = NoEvent
    BY DEF ShutdownAnswerIsLast, CompanionInvariant, CompanionType
  <2> QED
    BY DEF CompanionInvariant, CompanionType, Goodbye, NothingLeft, Past
<1> QED
  BY <1>1, CompanionInvariantHolds, PTL
-----------------------------------------------------------------------------
(* Every line is answered *)

\* The answers written are numbered as they were submitted: their count is the ticket
\* that is completed, or about to be.
Numbered ==
  /\ ticket \in {completed, completed + 1}
  /\ wpc \in {"write", "complete"} => ticket = completed + 1
  /\ Len(Answers) = IF wpc = "complete" THEN completed + 1 ELSE completed
  /\ \A i \in 1..Len(Answers) : Answers[i].n = i

\* Where main is between two lines, all have been answered; where it has a line in hand,
\* all but that one.  A result of 0 says that it never went on without an answer.
Counted ==
  /\ lines \in Nat /\ result \in Nat
  /\ mpc = "next" => completed = lines
  /\ mpc \in {"connect", "dispatch", "submit"} => completed + 1 = lines
  /\ mpc = "await" => ticket = lines
  /\ shutdown /\ mpc \in {"disconnect", "finish", "drain"} => completed + 1 = lines
  /\ ~shutdown /\ mpc \in {"stop", "disconnect", "finish", "drain"} /\ result = 0 =>
       completed = lines
  /\ mpc \in {"close", "join", "return"} /\ result = 0 => completed = lines

\* run returns when the writer's thread has ended, which it does when there is nothing
\* left to write, or in failure.
Ended ==
  /\ mpc \in {"return", "ended"} => wpc = "exited"
  /\ mpc = "return" /\ failed => result = 3
  /\ wpc = "notify" => failed
  /\ wpc = "idle" => ends
  /\ wpc = "exited" => ends \/ failed

Accounted == Numbered /\ Counted /\ Ended

\* What is written is an answer more, or no answer.
LEMMA AnswersGrow ==
  ASSUME said \in Seq(Lines), NEW r \in Lines, said' = Append(said, r)
  PROVE  Answers' = IF IsAnswer(r) THEN Append(Answers, r) ELSE Answers
<1> DEFINE before == {i \in DOMAIN said : IsAnswer(said[i])}
           after  == {i \in DOMAIN said' : IsAnswer(said'[i])}
<1>1. /\ Len(said) \in Nat /\ DOMAIN said = 1..Len(said)
      /\ said' \in Seq(Lines) /\ Len(said') = Len(said) + 1
      /\ DOMAIN said' = 1..(Len(said) + 1)
      /\ said'[Len(said) + 1] = r
      /\ \A i \in 1..Len(said) : said'[i] = said[i]
  BY LenProperties, AppendProperties
<1>2. \A i \in 1..Len(said) : i \in before <=> i \in after
  BY <1>1
<1>3. Len(said) + 1 \in after <=> IsAnswer(r)
  BY <1>1
<1>4. Answers = Keep(said, before) /\ Answers' = Keep(said', after)
  BY DEF Answers
<1> HIDE DEF before, after
<1>5. Keep(Append(said, r), after) =
        IF Len(said) + 1 \in after THEN Append(Keep(said, before), r) ELSE Keep(said, before)
  BY <1>2, KeepAppend
<1> QED
  BY <1>3, <1>4, <1>5

LEMMA AnswersAreLines ==
  ASSUME said \in Seq(Lines)
  PROVE  Answers \in Seq(Lines) /\ Len(Answers) \in Nat
<1>1. Answers \in Seq(Lines)
  BY KeepProperties DEF Answers
<1> QED
  BY <1>1, LenProperties

\* An event is no answer.
LEMMA EventsAreNoAnswers ==
  ASSUME CompanionInvariant, UNCHANGED said \/ Says("event", 0)
  PROVE  Answers' = Answers
<1>1. CASE UNCHANGED said
  BY <1>1 DEF Answers
<1>2. CASE Says("event", 0)
  <2> DEFINE r == [kind |-> "event", n |-> 0]
  <2>1. said' = Append(said, r) /\ r \in Lines /\ ~IsAnswer(r)
    BY <1>2 DEF Says, Lines, IsAnswer
  <2> HIDE DEF r
  <2> QED
    BY <2>1, AnswersGrow DEF CompanionInvariant, CompanionType
<1> QED
  BY <1>1, <1>2

\* Main writes nothing.
LEMMA MainKeepsAccounts ==
  ASSUME CompanionInvariant, Accounted, ReadLine \/ InputEnds \/ MainStep
  PROVE  Accounted'
<1>1. UNCHANGED <<said, wpc, ends, completed, failed>>
  BY DEF ReadLine, InputEnds, MainStep, InputCancelled, Connect, Dispatched, Submit, AwaitWritten, Stop,
         DisconnectSession, FinishEvents, AwaitDrained, Close, Join, Return, MainOnly,
         output, thread
<1>2. Answers' = Answers
  BY <1>1, EventsAreNoAnswers
<1>3. Numbered'
  <2>1. UNCHANGED ticket \/ Submit
    BY DEF ReadLine, InputEnds, MainStep, InputCancelled, Connect, Dispatched, AwaitWritten, Stop,
           DisconnectSession, FinishEvents, AwaitDrained, Close, Join, Return, MainOnly, output
  <2>2. CASE UNCHANGED ticket
    BY <1>1, <1>2, <2>2 DEF Accounted, Numbered
  <2>3. CASE Submit /\ ticket' = ticket + 1 /\ ~failed /\ mpc = "submit"
    BY <1>1, <1>2, <2>3 DEF Accounted, Numbered, CompanionInvariant, CompanionType, OneAnswer
  <2> QED
    BY <2>1, <2>2, <2>3 DEF Submit
<1> USE DEF CompanionInvariant, CompanionType, OneAnswer, NothingLeft, Past, Accounted, Counted,
            Ended, MainOnly, output, thread, Answered, NotAnswered
<1> HIDE DEF Numbered
<1>4. Counted' /\ Ended'
  <2>1. CASE ReadLine
    BY <2>1 DEF ReadLine
  <2>2. CASE InputEnds
    BY <2>2 DEF InputEnds
  <2>3. CASE InputCancelled
    BY <2>3 DEF InputCancelled
  <2>4. CASE Dispatched
    BY <2>4 DEF Dispatched
  <2>5. CASE Submit
    BY <2>5 DEF Submit
  <2>6. CASE AwaitWritten
    BY <2>6 DEF AwaitWritten
  <2>7. CASE Stop
    BY <2>7 DEF Stop
  <2>8. CASE DisconnectSession
    BY <2>8 DEF DisconnectSession
  <2>9. CASE FinishEvents
    BY <2>9 DEF FinishEvents
  <2>10. CASE AwaitDrained
    BY <2>10 DEF AwaitDrained
  <2>11. CASE Close
    BY <2>11 DEF Close
  <2>12. CASE Join
    BY <2>12 DEF Join
  <2>13. CASE Return
    BY <2>13 DEF Return
  <2>14. CASE Connect
    BY <2>14 DEF Connect
  <2> QED
    BY <2>1, <2>2, <2>3, <2>4, <2>5, <2>6, <2>7, <2>8, <2>9, <2>10, <2>11, <2>12, <2>13, <2>14
       DEF MainStep
<1> QED
  BY <1>3, <1>4

\* The writer writes the answer that is pending, and completes it.
LEMMA WriterKeepsAccounts ==
  ASSUME CompanionInvariant, Accounted, WriterStep
  PROVE  Accounted'
<1> USE DEF CompanionInvariant, CompanionType, OneAnswer, NothingLeft, Accounted, Numbered,
            Counted, Ended, main, output, thread
<1>0. Len(Answers) \in Nat
  BY AnswersAreLines
<1>1. CASE TakeResponse
  BY <1>1, EventsAreNoAnswers DEF TakeResponse
<1>2. CASE WriteResponse
  <2>1. CASE broken
    BY <1>2, <2>1, EventsAreNoAnswers DEF WriteResponse
  <2>2. CASE ~broken
    <3> DEFINE r == [kind |-> IF shutdown THEN "goodbye" ELSE "answer", n |-> taken]
    <3>1. /\ wpc = "write" /\ wpc' = "complete" /\ said' = Append(said, r)
          /\ UNCHANGED <<main, output, taken, ends>>
      BY <1>2, <2>2 DEF WriteResponse, Says
    <3>2. r \in Lines /\ IsAnswer(r) /\ r.n = completed + 1
      BY <3>1 DEF Lines, IsAnswer
    <3> HIDE DEF r
    <3>3. Answers' = Append(Answers, r)
      BY <3>1, <3>2, AnswersGrow
    <3>4. Answers \in Seq(Lines) /\ Len(Answers) = completed
      BY <3>1, AnswersAreLines
    <3>5. /\ Len(Answers') = completed + 1
          /\ \A i \in 1..completed : Answers'[i] = Answers[i]
          /\ Answers'[completed + 1] = r
      BY <3>2, <3>3, <3>4, AppendProperties
    <3>6. \A i \in 1..Len(Answers') : Answers'[i].n = i
      BY <3>2, <3>4, <3>5
    <3> QED
      BY <3>1, <3>5, <3>6
  <2> QED
    BY <2>1, <2>2
<1>3. CASE CompleteTicket
  BY <1>3, EventsAreNoAnswers DEF CompleteTicket
<1>4. CASE ReadEvent
  BY <1>4, EventsAreNoAnswers DEF ReadEvent
<1>5. CASE WriteEvent
  <2>1. Answers' = Answers
    BY <1>5, EventsAreNoAnswers DEF WriteEvent
  <2> QED
    BY <1>5, <2>1 DEF WriteEvent
<1>6. CASE WriteProgress
  <2>1. Answers' = Answers
    BY <1>6, EventsAreNoAnswers DEF WriteProgress
  <2> QED
    BY <1>6, <2>1 DEF WriteProgress
<1>7. CASE CheckRead
  BY <1>7, EventsAreNoAnswers DEF CheckRead
<1>8. CASE AwaitWork
  BY <1>8, EventsAreNoAnswers DEF AwaitWork
<1>9. CASE Fail
  BY <1>9, EventsAreNoAnswers DEF Fail
<1>10. CASE NotifyFailure
  BY <1>10, EventsAreNoAnswers DEF NotifyFailure
<1> QED
  BY <1>1, <1>2, <1>3, <1>4, <1>5, <1>6, <1>7, <1>8, <1>9, <1>10 DEF WriterStep

\* The accounts are right in every state the companion reaches.
LEMMA AccountedHolds == Spec => []Accounted
<1>1. Init => Accounted
  <2> SUFFICES ASSUME Init PROVE Accounted
    OBVIOUS
  <2>1. said \in Seq(Lines) /\ said = <<>> /\ Len(said) = 0
    BY EmptySeq DEF Init
  <2>2. Answers = <<>> /\ Len(Answers) = 0
    <3> DEFINE kept == {i \in DOMAIN said : IsAnswer(said[i])}
    <3>1. PICK f : f[0] = <<>> /\ Keep(said, kept) = f[Len(said)]
      <4>1. Len(said) \in Nat
        BY <2>1
      <4> HIDE DEF kept
      <4> QED
        BY <4>1, KeepEquation
    <3> QED
      BY <2>1, <3>1 DEF Answers
  <2> QED
    BY <2>2 DEF Init, Accounted, Numbered, Counted, Ended
<1>2. CompanionInvariant /\ Accounted /\ [Next]_vars => Accounted'
  <2> SUFFICES ASSUME CompanionInvariant, Accounted, [Next]_vars PROVE Accounted'
    OBVIOUS
  <2>1. CASE UNCHANGED <<main, output, thread, said>>
    BY <2>1 DEF Accounted, Numbered, Counted, Ended, Answers, main, output, thread
  <2>2. CASE Measurements \/ ReaderLeaves \/ \E kind \in Pushed : Produce(kind)
    BY <2>1, <2>2 DEF Measurements, ReaderLeaves, Produce, Aside
  <2>3. CASE UNCHANGED vars
    BY <2>1, <2>3 DEF vars
  <2> QED
    BY <2>2, <2>3, MainKeepsAccounts, WriterKeepsAccounts DEF Next
<1> QED
  BY <1>1, <1>2, CompanionInvariantHolds, PTL DEF Spec

\* Every line is answered once and in order: when the next one is read the answers to
\* all before it have been written, whatever events came between them
\* (companion.cpp:60, 576).
THEOREM EveryLineIsAnswered == Spec => []LinesAreAnswered
<1>1. CompanionInvariant /\ Accounted => LinesAreAnswered
  <2> SUFFICES ASSUME CompanionInvariant, Accounted PROVE LinesAreAnswered
    OBVIOUS
  <2>1. DOMAIN Answers = 1..Len(Answers)
    BY AnswersAreLines, LenProperties DEF CompanionInvariant, CompanionType
  <2>2. mpc = "next" => wpc # "complete"
    BY DEF CompanionInvariant, OneAnswer
  <2> QED
    BY <2>1, <2>2 DEF Accounted, Numbered, Counted, LinesAreAnswered
<1> QED
  BY <1>1, CompanionInvariantHolds, AccountedHolds, PTL

\* The process returns 3 if its output failed; if it returns 0 every line was answered
\* and no event was left unwritten (companion_process_test.py:560, 604).
THEOREM ExitCodeIsTrue == Spec => []ExitCodeTellsTruth
<1>1. CompanionInvariant /\ Accounted => ExitCodeTellsTruth
  BY DEF CompanionInvariant, CompanionType, OneAnswer, NothingLeft, Accounted, Numbered, Counted,
         Ended, ExitCodeTellsTruth
<1> QED
  BY <1>1, CompanionInvariantHolds, AccountedHolds, PTL
-----------------------------------------------------------------------------
(* What the queue keeps *)

Things == [kind : Pushed \cup {"none"}, gen : Nat, body : Nat, epoch : Nat, lost : Nat]

AnError == {x \in Things : IsError(x)}

LEMMA ErrorsArePositions ==
  ASSUME NEW q \in Seq(Things)
  PROVE  Errors(q) = Positions(q, AnError)
<1>1. DOMAIN q = 1..Len(q) /\ \A i \in 1..Len(q) : q[i] \in Things
  BY LenProperties, ElementOfSeq
<1> QED
  BY <1>1 DEF Errors, Positions, AnError

\* What push does to a queue within its bounds: a snapshot replaces the one of its slot, or
\* comes to the end, for which a snapshot may have to go; an error goes only for an error,
\* which says so.
LEMMA PushDoes ==
  ASSUME events \in Seq(Things), dropped \in Nat, NEW e \in Things, Push(e),
         Len(events) <= Capacity, Cardinality(Errors(events)) <= ErrorCapacity
  PROVE  \/ \E i \in 1..Len(events) :
               /\ ~IsError(e) /\ ~IsError(events[i])
               /\ events' = [events EXCEPT ![i] = e] /\ dropped' = dropped
         \/ /\ IsError(e) => Cardinality(Errors(events)) < ErrorCapacity
            /\ Len(events) < Capacity
            /\ events' = Append(events, e) /\ dropped' = dropped
         \/ \E v \in 1..Len(events) :
               /\ IsError(e) => Cardinality(Errors(events)) < ErrorCapacity
               /\ ~IsError(events[v])
               /\ events' = Append(RemoveAt(events, v), e) /\ dropped' = dropped
         \/ \E v \in 1..Len(events) :
               /\ IsError(e) /\ IsError(events[v])
               /\ events' = Append(RemoveAt(events, v), [e EXCEPT !.lost = dropped + 1])
               /\ dropped' = dropped + 1
<1> DEFINE slot   == {i \in Snapshots(events) : ~IsError(e) /\ SameSlot(events[i], e)}
           tail   == IsError(e) /\ Cardinality(Errors(events)) >= ErrorCapacity
           kept   == IF tail THEN RemoveAt(events, Min(Errors(events))) ELSE events
           full   == Len(kept) >= Capacity
           victim == Min(IF Snapshots(kept) # {} THEN Snapshots(kept) ELSE Errors(kept))
           room   == IF full THEN RemoveAt(kept, victim) ELSE kept
           losses == Cardinality(Errors(events)) - Cardinality(Errors(room))
<1>0. /\ Capacity \in Nat /\ ErrorCapacity \in Nat
      /\ 0 < ErrorCapacity /\ ErrorCapacity < Capacity
  BY SinkConstants
<1>1. /\ Len(events) \in Nat /\ DOMAIN events = 1..Len(events)
      /\ \A i \in 1..Len(events) : events[i] \in Things
  BY LenProperties, ElementOfSeq
<1>2. /\ Errors(events) \subseteq 1..Len(events)
      /\ Snapshots(events) = (1..Len(events)) \ Errors(events)
      /\ \A i \in 1..Len(events) : i \in Errors(events) <=> IsError(events[i])
  BY <1>1 DEF Errors, Snapshots
<1>3. /\ Errors(events) = Positions(events, AnError)
      /\ IsFiniteSet(Errors(events)) /\ Cardinality(Errors(events)) \in Nat
  BY ErrorsArePositions, PositionsAreFinite
<1>4. ASSUME NEW v \in 1..Len(events)
      PROVE  Cardinality(Errors(RemoveAt(events, v))) =
               IF IsError(events[v]) THEN Cardinality(Errors(events)) - 1
               ELSE Cardinality(Errors(events))
  <2>1. RemoveAt(events, v) \in Seq(Things)
    BY RemoveAtProperties
  <2>2. Errors(RemoveAt(events, v)) = Positions(RemoveAt(events, v), AnError)
    BY <2>1, ErrorsArePositions
  <2>3. events[v] \in AnError <=> IsError(events[v])
    BY <1>1 DEF AnError
  <2> QED
    BY <1>3, <2>2, <2>3, RemoveAtCounts
<1>5. IF slot # {}
      THEN events' = [events EXCEPT ![Min(slot)] = e] /\ UNCHANGED dropped
      ELSE /\ dropped' = dropped + losses
           /\ events' = Append(room, IF IsError(e) /\ losses > 0
                                     THEN [e EXCEPT !.lost = dropped + losses]
                                     ELSE e)
  BY DEF Push
<1>6. CASE slot # {}
  <2>1. slot \subseteq Nat /\ slot \subseteq Snapshots(events) /\ ~IsError(e)
    BY <1>2, <1>6
  <2>2. Min(slot) \in slot
    <3> HIDE DEF slot
    <3> QED
      BY <1>6, <2>1, MinIsLeast
  <2> DEFINE i == Min(slot)
  <2>3. i \in 1..Len(events) /\ ~IsError(events[i])
    BY <1>2, <2>1, <2>2
  <2>4. events' = [events EXCEPT ![i] = e] /\ dropped' = dropped
    BY <1>5, <1>6
  <2> HIDE DEF i, slot
  <2> QED
    BY <2>1, <2>3, <2>4
<1>7. CASE slot = {} /\ tail
  <2> DEFINE v == Min(Errors(events))
  <2>1. v \in Errors(events)
    <3>1. Errors(events) # {}
      BY <1>0, <1>3, <1>7, FS_EmptySet
    <3>2. Errors(events) \subseteq Nat
      BY <1>2
    <3> QED
      BY <3>1, <3>2, MinIsLeast
  <2>2. v \in 1..Len(events) /\ IsError(events[v])
    BY <1>2, <2>1
  <2>3. kept = RemoveAt(events, v)
    BY <1>7
  <2>4. Len(kept) = Len(events) - 1
    <3> HIDE DEF v, kept
    <3> QED
      BY <2>2, <2>3, RemoveAtProperties
  <2>5. ~full /\ room = kept
    <3>1. ~full
      <4> HIDE DEF kept
      <4> QED
        BY <1>0, <1>1, <2>4
    <3> QED
      BY <3>1
  <2>6. losses = 1
    <3>1. Cardinality(Errors(kept)) = Cardinality(Errors(events)) - 1
      <4> HIDE DEF v, kept
      <4> QED
        BY <1>4, <2>2, <2>3
    <3>2. losses = Cardinality(Errors(events)) - Cardinality(Errors(kept))
      BY <2>5
    <3> HIDE DEF kept, losses
    <3> QED
      BY <1>3, <3>1, <3>2
  <2>7. IsError(e)
    BY <1>7
  <2>8. /\ dropped' = dropped + 1
        /\ events' = Append(RemoveAt(events, v), [e EXCEPT !.lost = dropped + 1])
    <3>1. slot = {}
      BY <1>7
    <3> HIDE DEF slot, losses, room, kept, v
    <3> QED
      BY <1>5, <2>3, <2>5, <2>6, <2>7, <3>1
  <2> HIDE DEF v
  <2> QED
    BY <2>2, <2>7, <2>8
<1>8. CASE slot = {} /\ ~tail /\ ~full
  <2>1. kept = events /\ room = events
    BY <1>8
  <2>2. losses = 0
    <3>1. losses = Cardinality(Errors(events)) - Cardinality(Errors(events))
      BY <2>1
    <3> HIDE DEF losses
    <3> QED
      BY <1>3, <3>1
  <2>3. Len(events) < Capacity
    BY <1>0, <1>1, <1>8, <2>1
  <2>4. IsError(e) => Cardinality(Errors(events)) < ErrorCapacity
    BY <1>0, <1>3, <1>8
  <2>5. events' = Append(events, e) /\ dropped' = dropped
    <3>1. slot = {}
      BY <1>8
    <3> HIDE DEF slot, losses, room, kept
    <3> QED
      BY <1>5, <2>1, <2>2, <3>1
  <2> QED
    BY <2>3, <2>4, <2>5
<1>9. CASE slot = {} /\ ~tail /\ full
  <2>1. kept = events
    BY <1>9
  <2>2. Len(events) = Capacity
    <3>1. Len(kept) >= Capacity
      BY <1>9
    <3> HIDE DEF kept
    <3>2. Len(events) >= Capacity
      BY <2>1, <3>1
    <3>3. \A m, n \in Nat : m >= n /\ m <= n => m = n
      OBVIOUS
    <3> QED
      BY <1>0, <1>1, <3>2, <3>3, Zenon
  <2>3. Snapshots(events) # {}
    <3>1. SUFFICES ASSUME Snapshots(events) = {} PROVE FALSE
      OBVIOUS
    <3>2. Errors(events) = 1..Len(events)
      BY <1>2, <3>1
    <3>3. Cardinality(Errors(events)) = Len(events)
      <4>1. \A n \in Nat : Cardinality(1..n) = n
        BY FS_Interval
      <4> QED
        BY <1>1, <3>2, <4>1
    <3> QED
      BY <1>0, <2>2, <3>3
  <2> DEFINE v == Min(Snapshots(events))
  <2>4. v \in Snapshots(events)
    <3>1. Snapshots(events) \subseteq Nat
      BY <1>2
    <3> QED
      BY <2>3, <3>1, MinIsLeast
  <2>5. v \in 1..Len(events) /\ ~IsError(events[v])
    BY <1>2, <2>4
  <2>6. room = RemoveAt(events, v)
    BY <1>9, <2>1, <2>3
  <2>7. losses = 0
    <3>1. Cardinality(Errors(room)) = Cardinality(Errors(events))
      <4> HIDE DEF v, room
      <4> QED
        BY <1>4, <2>5, <2>6
    <3> HIDE DEF room
    <3> QED
      BY <1>3, <3>1
  <2>8. IsError(e) => Cardinality(Errors(events)) < ErrorCapacity
    BY <1>0, <1>3, <1>9
  <2>9. events' = Append(RemoveAt(events, v), e) /\ dropped' = dropped
    <3>1. slot = {}
      BY <1>9
    <3> HIDE DEF slot, losses, room, v
    <3> QED
      BY <1>5, <2>6, <2>7, <3>1
  <2> HIDE DEF v
  <2> QED
    BY <2>5, <2>8, <2>9
<1> QED
  BY <1>6, <1>7, <1>8, <1>9

\* A measurement that can still be written.
Current(x) == leaseValid /\ IsMeasurement(x) /\ x.epoch = epoch

\* What the queue may hold: no loss is told that has not happened, no lease is known that
\* has not been given out, and what is of the current one is newer than the last cut.
Admitted == {x \in Things : /\ x.lost <= dropped /\ x.epoch <= epoch
                            /\ Current(x) => x.body > cut}

Counts == /\ dropped \in Nat /\ epoch \in Nat /\ made \in Nat /\ cut \in Nat /\ told \in Nat
          /\ generation \in Nat /\ cut <= made /\ told <= dropped

\* The queue is within its bounds, and holds what it may.
Bounded == /\ events \in Seq(Admitted) /\ held \in Admitted
           /\ Len(events) <= Capacity
           /\ Cardinality(Errors(events)) <= ErrorCapacity

QueueInvariant == Counts /\ Bounded /\ LossesAreTold

\* Nobody in the queue has anything left to tell: all was told, all that was dropped was
\* dropped before the last connect, or the sink is closed.
NothingToTell == told = dropped \/ dropped = forgotten \/ closed

\* What may be held may be held after a step that neither forgets a loss or a lease nor
\* begins one anew.
LEMMA StillAdmitted ==
  ASSUME Counts, Counts', dropped <= dropped', epoch <= epoch',
         (leaseValid' /\ epoch' = epoch) => leaseValid /\ cut' = cut
  PROVE  Admitted \subseteq Admitted'
<1> SUFFICES ASSUME NEW x \in Admitted PROVE x \in Admitted'
  OBVIOUS
<1>1. x \in Things /\ x.lost \in Nat /\ x.epoch \in Nat
  BY DEF Admitted, Things
<1>2. x.lost <= dropped' /\ x.epoch <= epoch'
  BY <1>1 DEF Admitted, Counts
<1>3. Current(x)' => x.body > cut'
  <2>1. SUFFICES ASSUME leaseValid', IsMeasurement(x), x.epoch = epoch' PROVE x.body > cut'
    BY DEF Current
  <2>2. epoch' = epoch
    BY <1>1, <2>1 DEF Admitted, Counts
  <2> QED
    BY <2>1, <2>2 DEF Admitted, Current
<1> QED
  BY <1>1, <1>2, <1>3 DEF Admitted, Things

LEMMA AdmittedAreThings ==
  ASSUME Bounded
  PROVE  /\ events \in Seq(Things) /\ Len(events) \in Nat
         /\ DOMAIN events = 1..Len(events)
         /\ \A i \in 1..Len(events) : events[i] \in Admitted
<1>1. Admitted \subseteq Things
  BY DEF Admitted
<1> QED
  BY <1>1, SeqMonotonic, LenProperties, ElementOfSeq DEF Bounded

\* Steps that leave the queue alone.
LEMMA QueueLeftAlone ==
  ASSUME QueueInvariant, Counts', UNCHANGED <<events, held, dropped>>, epoch <= epoch',
         (leaseValid' /\ epoch' = epoch) => leaseValid /\ cut' = cut,
         NothingToTell => NothingToTell'
  PROVE  QueueInvariant'
<1>1. Admitted \subseteq Admitted'
  BY StillAdmitted DEF QueueInvariant, Counts
<1>2. events' \in Seq(Admitted') /\ held' \in Admitted'
  <2>1. events \in Seq(Admitted')
    BY <1>1, SeqMonotonic DEF QueueInvariant, Bounded
  <2> QED
    BY <1>1, <2>1 DEF QueueInvariant, Bounded
<1>3. Bounded'
  BY <1>2 DEF QueueInvariant, Bounded, Errors
<1>4. LossesAreTold'
  BY DEF QueueInvariant, LossesAreTold, NothingToTell, Errors
<1> QED
  BY <1>3, <1>4 DEF QueueInvariant

\* A selection of what is queued is within the bounds.
LEMMA SelectionIsBounded ==
  ASSUME Counts, Bounded, Counts', NEW kept, events' = Keep(events, kept),
         UNCHANGED <<held, dropped>>, epoch <= epoch',
         (leaseValid' /\ epoch' = epoch) => leaseValid /\ cut' = cut
  PROVE  Bounded'
<1>1. Admitted \subseteq Admitted'
  BY StillAdmitted DEF Counts
<1>2. /\ events \in Seq(Things) /\ Len(events) \in Nat /\ DOMAIN events = 1..Len(events)
  BY AdmittedAreThings
<1>3. events' \in Seq(Things) /\ DOMAIN events' = 1..Len(events')
  <2>1. events' \in Seq(Things)
    BY <1>2, KeepProperties
  <2> QED
    BY <2>1, LenProperties
<1>4. events' \in Seq(Admitted') /\ held' \in Admitted'
  <2>1. events' \in Seq(Admitted)
    BY KeepProperties DEF Bounded
  <2> QED
    BY <1>1, <2>1, SeqMonotonic DEF Bounded
<1>5. Len(events') <= Capacity /\ Cardinality(Errors(events)') <= ErrorCapacity
  <2>1. /\ Cardinality(Positions(events', AnError)) <= Cardinality(Positions(events, AnError))
        /\ Len(events') <= Len(events)
    BY <1>2, KeepCounts
  <2>2. Errors(events) = Positions(events, AnError) /\ Errors(events)' = Positions(events', AnError)
    <3>1. \A q \in Seq(Things) : Errors(q) = Positions(q, AnError)
      BY ErrorsArePositions
    <3>2. Errors(events)' = Errors(events')
      BY DEF Errors, IsError
    <3> QED
      BY <1>2, <1>3, <3>1, <3>2
  <2>3. /\ Cardinality(Positions(events', AnError)) \in Nat
        /\ Cardinality(Positions(events, AnError)) \in Nat
    <3>1. \A q \in Seq(Things) : Cardinality(Positions(q, AnError)) \in Nat
      BY PositionsAreFinite
    <3> QED
      BY <1>2, <1>3, <3>1
  <2>4. Len(events') \in Nat
    BY <1>3, LenProperties
  <2>5. Capacity \in Nat /\ ErrorCapacity \in Nat
    BY SinkConstants
  <2> QED
    BY <1>2, <2>1, <2>2, <2>3, <2>4, <2>5 DEF Bounded
<1> QED
  BY <1>4, <1>5 DEF Bounded

\* A selection that leaves out no error keeps the queue what it is.
LEMMA SelectionKeepsQueue ==
  ASSUME QueueInvariant, Counts', NEW kept, events' = Keep(events, kept),
         \A i \in 1..Len(events) : IsError(events[i]) => i \in kept,
         UNCHANGED <<held, dropped, told, forgotten, closed>>, epoch <= epoch',
         (leaseValid' /\ epoch' = epoch) => leaseValid /\ cut' = cut
  PROVE  QueueInvariant'
<1>1. Bounded'
  BY SelectionIsBounded DEF QueueInvariant
<1>2. /\ events \in Seq(Things) /\ Len(events) \in Nat /\ DOMAIN events = 1..Len(events)
  BY AdmittedAreThings DEF QueueInvariant
<1>3. DOMAIN events' = 1..Len(events')
  <2>1. events' \in Seq(Things)
    BY <1>2, KeepProperties
  <2> QED
    BY <2>1, LenProperties
<1>6. LossesAreTold'
  <2>1. CASE NothingToTell
    BY <2>1 DEF LossesAreTold, NothingToTell
  <2>2. CASE \E i \in Errors(events) : events[i].lost = dropped
    <3>1. PICK i \in 1..Len(events) : IsError(events[i]) /\ events[i].lost = dropped
      BY <1>2, <2>2 DEF Errors
    <3>2. PICK place \in [1..Len(events') -> 1..Len(events)] :
            /\ \A k \in 1..Len(events') : place[k] \in kept /\ events'[k] = events[place[k]]
            /\ \A j \in 1..Len(events) : j \in kept => \E k \in 1..Len(events') : place[k] = j
      BY <1>2, KeepProperties
    <3>3. PICK k \in 1..Len(events') : place[k] = i
      BY <3>1, <3>2
    <3>4. IsError(events'[k]) /\ events'[k].lost = dropped'
      BY <3>1, <3>2, <3>3
    <3> QED
      BY <1>3, <3>4 DEF LossesAreTold, Errors, IsError
  <2> QED
    BY <2>1, <2>2 DEF QueueInvariant, LossesAreTold, NothingToTell
<1> QED
  BY <1>1, <1>6 DEF QueueInvariant

\* What the session pushes: a measurement is newer than the last cut.
LEMMA ProducedIsAdmitted ==
  ASSUME Counts, NEW kind \in Pushed, NEW e,
         LET new == Event(kind, generation, made + 1)
         IN  e = IF IsMeasurement(new) THEN [new EXCEPT !.epoch = epoch] ELSE new
  PROVE  /\ e \in Admitted
         /\ \A n \in Nat : /\ [e EXCEPT !.lost = n] \in Things
                          /\ [e EXCEPT !.lost = n].lost = n
                          /\ [e EXCEPT !.lost = n].epoch = e.epoch
                          /\ [e EXCEPT !.lost = n].body = e.body
                          /\ [e EXCEPT !.lost = n].kind = e.kind
<1>1. PICK m \in Nat : m = made + 1 /\ m > cut
  BY DEF Counts
<1>2. PICK k \in Nat : /\ k <= epoch
                      /\ e = [kind |-> kind, gen |-> generation, body |-> m, epoch |-> k, lost |-> 0]
  <2>1. CASE IsMeasurement(Event(kind, generation, made + 1))
    <3>1. e = [kind |-> kind, gen |-> generation, body |-> m, epoch |-> epoch, lost |-> 0]
      BY <1>1, <2>1 DEF Event
    <3> QED
      BY <3>1 DEF Counts
  <2>2. CASE ~IsMeasurement(Event(kind, generation, made + 1))
    <3>1. e = [kind |-> kind, gen |-> generation, body |-> m, epoch |-> 0, lost |-> 0]
      BY <1>1, <2>2 DEF Event
    <3> QED
      BY <3>1 DEF Counts
  <2> QED
    BY <2>1, <2>2
<1>3. e \in Things
  BY <1>1, <1>2 DEF Things, Counts
<1>4. e \in Admitted
  <2>1. e.lost = 0 /\ e.epoch = k /\ e.body = m
    BY <1>2
  <2>2. 0 <= dropped
    BY DEF Counts
  <2> QED
    BY <1>1, <1>2, <1>3, <2>1, <2>2 DEF Admitted
<1>5. ASSUME NEW n \in Nat
      PROVE  [e EXCEPT !.lost = n] =
               [kind |-> kind, gen |-> generation, body |-> m, epoch |-> k, lost |-> n]
  BY <1>2
<1> QED
  BY <1>1, <1>2, <1>4, <1>5 DEF Things, Counts

\* A push keeps the queue within its bounds, and tells of what it makes drop.
LEMMA ProduceKeepsQueue ==
  ASSUME QueueInvariant, NEW kind \in Pushed, Produce(kind)
  PROVE  QueueInvariant'
<1> DEFINE new == Event(kind, generation, made + 1)
           e   == IF IsMeasurement(new) THEN [new EXCEPT !.epoch = epoch] ELSE new
<1>1. /\ made' = made + 1 /\ UNCHANGED <<epoch, leaseValid, held, cut, told, generation, forgotten, closed>>
      /\ UNCHANGED queued \/ Push(e)
  BY DEF Produce, Enqueue, lease, ended, seen
<1>2. /\ dropped' = dropped => Counts'
      /\ dropped' = dropped + 1 => Counts' /\ dropped <= dropped'
  BY <1>1 DEF QueueInvariant, Counts
<1>3. CASE UNCHANGED queued
  BY <1>1, <1>2, <1>3, QueueLeftAlone DEF queued, QueueInvariant, Counts, NothingToTell
<1>4. CASE Push(e)
  <2>1. /\ e \in Admitted
        /\ \A n \in Nat : /\ [e EXCEPT !.lost = n] \in Things
                         /\ [e EXCEPT !.lost = n].lost = n
                         /\ [e EXCEPT !.lost = n].epoch = e.epoch
                         /\ [e EXCEPT !.lost = n].body = e.body
                         /\ [e EXCEPT !.lost = n].kind = e.kind
    BY ProducedIsAdmitted DEF QueueInvariant
  <2> HIDE DEF e, new
  <2>2. /\ events \in Seq(Things) /\ Len(events) \in Nat /\ DOMAIN events = 1..Len(events)
        /\ e \in Things
    BY <2>1, AdmittedAreThings DEF QueueInvariant, Admitted
  <2>3. /\ Capacity \in Nat /\ ErrorCapacity \in Nat
        /\ Cardinality(Errors(events)) \in Nat
        /\ Errors(events) = Positions(events, AnError)
    BY <2>2, ErrorsArePositions, PositionsAreFinite, SinkConstants
  <2>4. \A q \in Seq(Things) : /\ Errors(q) = Positions(q, AnError)
                              /\ Cardinality(Errors(q)) \in Nat
    BY ErrorsArePositions, PositionsAreFinite
  <2>5. \A x \in Things : x \in AnError <=> IsError(x)
    BY DEF AnError
  <2>6. ASSUME NEW q \in Seq(Admitted'), NEW x \in Admitted', NEW n \in Nat,
               Counts', UNCHANGED held, Admitted \subseteq Admitted',
               events' = Append(q, x), Len(q) < Capacity,
               Cardinality(Errors(q)) <= n,
               IsError(x) => n < ErrorCapacity, n <= ErrorCapacity,
               \/ NothingToTell'
               \/ \E i \in 1..Len(q) : IsError(q[i]) /\ q[i].lost = dropped'
               \/ IsError(x) /\ x.lost = dropped'
        PROVE  QueueInvariant'
    <3>1. q \in Seq(Things) /\ x \in Things
      <4>1. Admitted' \subseteq Things
        BY DEF Admitted, Things
      <4> QED
        BY <4>1, SeqMonotonic
    <3>2. /\ Len(q) \in Nat /\ events' \in Seq(Admitted') /\ events' \in Seq(Things)
          /\ Len(events') = Len(q) + 1 /\ DOMAIN events' = 1..(Len(q) + 1)
          /\ events'[Len(q) + 1] = x
          /\ \A i \in 1..Len(q) : events'[i] = q[i]
      <4>1. events' \in Seq(Admitted')
        BY <2>6, AppendProperties
      <4>2. events' \in Seq(Things)
        BY <2>6, <3>1, AppendProperties
      <4> QED
        BY <2>6, <3>1, <4>1, <4>2, AppendProperties, LenProperties
    <3>3. Cardinality(Errors(events')) <= ErrorCapacity
      <4>1. Cardinality(Positions(Append(q, x), AnError)) =
              IF x \in AnError THEN Cardinality(Positions(q, AnError)) + 1
              ELSE Cardinality(Positions(q, AnError))
        BY <3>1, AppendCounts
      <4>2. Cardinality(Errors(events')) =
              IF IsError(x) THEN Cardinality(Errors(q)) + 1 ELSE Cardinality(Errors(q))
        BY <2>4, <2>5, <2>6, <3>1, <3>2, <4>1
      <4>3. Cardinality(Errors(q)) \in Nat
        BY <2>4, <3>1
      <4> QED
        BY <2>3, <2>6, <4>2, <4>3
    <3>4. Len(events') <= Capacity
      BY <2>3, <2>6, <3>2
    <3>5. held' \in Admitted'
      BY <2>6 DEF QueueInvariant, Bounded
    <3>6. Bounded'
      <4>1. Errors(events)' = Errors(events')
        BY DEF Errors, IsError
      <4> QED
        BY <3>2, <3>3, <3>4, <3>5, <4>1 DEF Bounded
    <3>7. LossesAreTold'
      <4>1. CASE NothingToTell'
        BY <4>1 DEF LossesAreTold, NothingToTell
      <4>2. CASE \E i \in 1..Len(q) : IsError(q[i]) /\ q[i].lost = dropped'
        <5>1. PICK i \in 1..Len(q) : IsError(q[i]) /\ q[i].lost = dropped'
          BY <4>2
        <5>2. i \in DOMAIN events' /\ IsError(events'[i]) /\ events'[i].lost = dropped'
          BY <3>2, <5>1
        <5> QED
          BY <5>2 DEF LossesAreTold, Errors, IsError
      <4>3. CASE IsError(x) /\ x.lost = dropped'
        <5> DEFINE i == Len(q) + 1
        <5>1. i \in DOMAIN events' /\ IsError(events'[i]) /\ events'[i].lost = dropped'
          BY <3>2, <4>3
        <5> HIDE DEF i
        <5> QED
          BY <5>1 DEF LossesAreTold, Errors, IsError
      <4> QED
        BY <2>6, <4>1, <4>2, <4>3
    <3> QED
      BY <2>6, <3>6, <3>7 DEF QueueInvariant
  <2>7. ASSUME NEW v \in 1..Len(events)
        PROVE  /\ RemoveAt(events, v) \in Seq(Admitted)
               /\ Len(RemoveAt(events, v)) = Len(events) - 1
               /\ Cardinality(Errors(RemoveAt(events, v))) =
                    IF IsError(events[v]) THEN Cardinality(Errors(events)) - 1
                    ELSE Cardinality(Errors(events))
               /\ \A i \in 1..Len(events) : i # v =>
                    \E j \in 1..Len(RemoveAt(events, v)) : RemoveAt(events, v)[j] = events[i]
    <3> DEFINE r == RemoveAt(events, v)
    <3>1. /\ r \in Seq(Admitted) /\ r \in Seq(Things) /\ Len(r) = Len(events) - 1
          /\ \A j \in 1..(Len(events) - 1) : r[j] = IF j < v THEN events[j] ELSE events[j + 1]
      BY <2>2, RemoveAtProperties DEF QueueInvariant, Bounded
    <3>2. Cardinality(Positions(r, AnError)) =
            IF events[v] \in AnError THEN Cardinality(Positions(events, AnError)) - 1
            ELSE Cardinality(Positions(events, AnError))
      BY <2>2, RemoveAtCounts
    <3>3. events[v] \in Things
      BY <2>2, ElementOfSeq
    <3> HIDE DEF r
    <3>4. Cardinality(Errors(r)) = IF IsError(events[v]) THEN Cardinality(Errors(events)) - 1
                                   ELSE Cardinality(Errors(events))
      BY <2>3, <2>4, <2>5, <3>1, <3>2, <3>3
    <3>5. ASSUME NEW i \in 1..Len(events), i # v
          PROVE  \E j \in 1..Len(r) : r[j] = events[i]
      <4>1. CASE i < v
        <5>1. i \in 1..Len(r) /\ r[i] = events[i]
          BY <2>2, <3>1, <4>1
        <5> QED
          BY <5>1
      <4>2. CASE i > v
        <5>1. i - 1 \in 1..Len(r) /\ ~(i - 1 < v) /\ (i - 1) + 1 = i
          BY <2>2, <3>1, <4>2
        <5>2. r[i - 1] = events[i]
          BY <3>1, <5>1
        <5> QED
          BY <5>1, <5>2
      <4> QED
        BY <3>5, <4>1, <4>2
    <3> QED
      BY <3>1, <3>4, <3>5 DEF r
  <2>8. /\ Len(events) <= Capacity /\ Cardinality(Errors(events)) <= ErrorCapacity
        /\ events \in Seq(Admitted) /\ Counts
        /\ NothingToTell \/ \E i \in 1..Len(events) : IsError(events[i]) /\ events[i].lost = dropped
    BY <2>2 DEF QueueInvariant, Bounded, LossesAreTold, NothingToTell, Errors
  <2>9. dropped \in Nat /\ e.lost \in Nat
    BY <2>2, <2>8 DEF Counts, Things
  <2>10. dropped' \in {dropped, dropped + 1} => Counts' /\ Admitted \subseteq Admitted'
    <3>1. SUFFICES ASSUME dropped' \in {dropped, dropped + 1}
                   PROVE  Counts' /\ Admitted \subseteq Admitted'
      OBVIOUS
    <3>2. Counts' /\ dropped <= dropped'
      BY <1>2, <2>9, <3>1
    <3>3. epoch <= epoch'
      BY <1>1, <2>8 DEF Counts
    <3> QED
      BY <1>1, <2>8, <3>2, <3>3, StillAdmitted
  <2>11. CASE \E i \in 1..Len(events) :
                /\ ~IsError(e) /\ ~IsError(events[i])
                /\ events' = [events EXCEPT ![i] = e] /\ dropped' = dropped
    <3>1. PICK i \in 1..Len(events) :
            /\ ~IsError(e) /\ ~IsError(events[i])
            /\ events' = [events EXCEPT ![i] = e] /\ dropped' = dropped
      BY <2>11
    <3>2. Counts' /\ Admitted \subseteq Admitted'
      BY <2>10, <3>1
    <3>3. /\ events' \in Seq(Admitted) /\ Len(events') = Len(events)
          /\ \A j \in 1..Len(events) : events'[j] = IF j = i THEN e ELSE events[j]
      BY <2>1, <2>8, <3>1, ExceptSeq
    <3>4. /\ DOMAIN events' = DOMAIN events
          /\ \A j \in DOMAIN events : IsError(events'[j]) <=> IsError(events[j])
      <4>1. DOMAIN events' = 1..Len(events')
        BY <3>3, LenProperties
      <4> QED
        BY <2>2, <3>1, <3>3, <4>1
    <3>5. Errors(events)' = Errors(events)
      <4>1. ASSUME NEW j PROVE j \in Errors(events)' <=> j \in Errors(events)
        BY <3>4 DEF Errors, IsError
      <4> QED
        BY <4>1 DEF Errors
    <3>6. events' \in Seq(Admitted') /\ held' \in Admitted'
      BY <1>1, <3>2, <3>3, SeqMonotonic DEF QueueInvariant, Bounded
    <3>7. LossesAreTold'
      BY <1>1, <2>2, <2>8, <3>1, <3>3, <3>5 DEF LossesAreTold, NothingToTell, Errors
    <3> QED
      BY <2>8, <3>2, <3>3, <3>5, <3>6, <3>7 DEF QueueInvariant, Bounded
  <2>12. CASE /\ IsError(e) => Cardinality(Errors(events)) < ErrorCapacity
              /\ Len(events) < Capacity
              /\ events' = Append(events, e) /\ dropped' = dropped
    <3>1. Counts' /\ Admitted \subseteq Admitted' /\ e \in Admitted'
      BY <2>1, <2>10, <2>12
    <3>2. events \in Seq(Admitted')
      BY <2>8, <3>1, SeqMonotonic
    <3>3. \/ NothingToTell'
          \/ \E i \in 1..Len(events) : IsError(events[i]) /\ events[i].lost = dropped'
      BY <1>1, <2>8, <2>12 DEF NothingToTell
    <3>4. Cardinality(Errors(events)) <= Cardinality(Errors(events))
      BY <2>3
    <3> QED
      BY <1>1, <2>3, <2>6, <2>8, <2>12, <3>1, <3>2, <3>3, <3>4
  <2>13. CASE \E v \in 1..Len(events) :
                /\ IsError(e) => Cardinality(Errors(events)) < ErrorCapacity
                /\ ~IsError(events[v])
                /\ events' = Append(RemoveAt(events, v), e) /\ dropped' = dropped
    <3>1. PICK v \in 1..Len(events) :
            /\ IsError(e) => Cardinality(Errors(events)) < ErrorCapacity
            /\ ~IsError(events[v])
            /\ events' = Append(RemoveAt(events, v), e) /\ dropped' = dropped
      BY <2>13
    <3>2. Counts' /\ Admitted \subseteq Admitted' /\ e \in Admitted'
      BY <2>1, <2>10, <3>1
    <3> DEFINE r == RemoveAt(events, v)
    <3>3. r \in Seq(Admitted) /\ Len(r) < Capacity /\ Cardinality(Errors(r)) = Cardinality(Errors(events))
      <4>1. /\ r \in Seq(Admitted) /\ Len(r) = Len(events) - 1
            /\ Cardinality(Errors(r)) = Cardinality(Errors(events))
        BY <2>7, <3>1
      <4> HIDE DEF r
      <4>2. Len(r) < Capacity
        BY <2>2, <2>3, <2>8, <4>1
      <4> QED
        BY <4>1, <4>2
    <3>4. r \in Seq(Admitted')
      BY <3>2, <3>3, SeqMonotonic
    <3>5. \/ NothingToTell'
          \/ \E j \in 1..Len(r) : IsError(r[j]) /\ r[j].lost = dropped'
      <4>1. CASE NothingToTell
        BY <1>1, <3>1, <4>1 DEF NothingToTell
      <4>2. CASE \E i \in 1..Len(events) : IsError(events[i]) /\ events[i].lost = dropped
        <5>1. PICK i \in 1..Len(events) : IsError(events[i]) /\ events[i].lost = dropped
          BY <4>2
        <5>2. PICK j \in 1..Len(r) : r[j] = events[i]
          BY <2>7, <3>1, <5>1
        <5> QED
          BY <3>1, <5>1, <5>2
      <4> QED
        BY <2>8, <4>1, <4>2
    <3>6. events' = Append(r, e)
      BY <3>1
    <3> HIDE DEF r
    <3>7. Cardinality(Errors(r)) <= Cardinality(Errors(events))
      BY <2>3, <3>3
    <3> QED
      BY <1>1, <2>3, <2>6, <2>8, <3>1, <3>2, <3>3, <3>4, <3>5, <3>6, <3>7
  <2>14. CASE \E v \in 1..Len(events) :
                /\ IsError(e) /\ IsError(events[v])
                /\ events' = Append(RemoveAt(events, v), [e EXCEPT !.lost = dropped + 1])
                /\ dropped' = dropped + 1
    <3>1. PICK v \in 1..Len(events) :
            /\ IsError(e) /\ IsError(events[v])
            /\ events' = Append(RemoveAt(events, v), [e EXCEPT !.lost = dropped + 1])
            /\ dropped' = dropped + 1
      BY <2>14
    <3> DEFINE r == RemoveAt(events, v)
    <3>2. PICK x : x = [e EXCEPT !.lost = dropped + 1]
      OBVIOUS
    <3>3. Counts' /\ Admitted \subseteq Admitted'
      BY <2>10, <3>1
    <3>4. x \in Things /\ x.lost = dropped' /\ x.epoch = e.epoch /\ x.kind = e.kind
      BY <2>1, <2>9, <3>1, <3>2
    <3>5. x \in Admitted' /\ IsError(x)
      <4>1. e.epoch <= epoch' /\ ~IsMeasurement(x) /\ IsError(x)
        BY <1>1, <2>1, <3>1, <3>4 DEF Admitted, IsError, IsMeasurement
      <4>2. x.lost <= dropped'
        BY <2>9, <3>1, <3>4
      <4> QED
        BY <3>4, <4>1, <4>2 DEF Admitted, Current, Things, IsMeasurement
    <3>6. /\ r \in Seq(Admitted) /\ Len(r) < Capacity
          /\ Cardinality(Errors(r)) = Cardinality(Errors(events)) - 1
      <4>1. /\ r \in Seq(Admitted) /\ Len(r) = Len(events) - 1
            /\ Cardinality(Errors(r)) = Cardinality(Errors(events)) - 1
        BY <2>7, <3>1
      <4> HIDE DEF r
      <4>2. Len(r) < Capacity
        BY <2>2, <2>3, <2>8, <4>1
      <4> QED
        BY <4>1, <4>2
    <3>7. r \in Seq(Admitted')
      BY <3>3, <3>6, SeqMonotonic
    <3>8. events' = Append(r, x)
      BY <3>1, <3>2
    <3>9. r \in Seq(Things)
      BY <2>2, <3>1, RemoveAtProperties
    <3> HIDE DEF r
    <3>10. PICK n \in Nat : n = Cardinality(Errors(r))
      BY <2>4, <3>9
    <3>11. n < ErrorCapacity /\ n <= ErrorCapacity /\ Cardinality(Errors(r)) <= n
      BY <2>3, <2>8, <3>6, <3>10
    <3> QED
      BY <1>1, <2>6, <3>3, <3>4, <3>5, <3>6, <3>7, <3>8, <3>10, <3>11
  <2>15. Push(e) /\ events \in Seq(Things) /\ dropped \in Nat /\ e \in Things
    BY <1>4, <2>2, <2>9
  <2> QED
    BY <2>8, <2>11, <2>12, <2>13, <2>14, <2>15, PushDoes
<1> QED
  BY <1>1, <1>3, <1>4

\* Purging leaves the errors.
LEMMA PurgeKeepsQueue ==
  ASSUME QueueInvariant, Counts', NEW g, Purge(g), UNCHANGED <<held, told, forgotten, closed>>, epoch <= epoch',
         (leaseValid' /\ epoch' = epoch) => leaseValid /\ cut' = cut
  PROVE  QueueInvariant'
<1> DEFINE kept == {i \in DOMAIN events : ~(IsMeasurement(events[i]) /\ events[i].gen = g)}
<1>1. events' = Keep(events, kept) /\ UNCHANGED dropped
  BY DEF Purge
<1>2. \A i \in 1..Len(events) : IsError(events[i]) => i \in kept
  BY AdmittedAreThings DEF QueueInvariant, IsError, IsMeasurement
<1> HIDE DEF kept
<1> QED
  BY <1>1, <1>2, SelectionKeepsQueue

\* When the sink is closed there is nothing left to read.
LEMMA EmptyQueue ==
  ASSUME QueueInvariant, Counts', events' = <<>>, UNCHANGED <<held, dropped, epoch>>,
         ~leaseValid', closed'
  PROVE  QueueInvariant'
<1>1. Admitted \subseteq Admitted'
  BY StillAdmitted DEF QueueInvariant, Counts
<1>2. events' \in Seq(Admitted') /\ Len(events') = 0 /\ held' \in Admitted'
  BY <1>1, EmptySeq DEF QueueInvariant, Bounded
<1>3. Errors(events)' = {}
  BY <1>2, LenProperties DEF Errors
<1>4. Bounded'
  BY <1>2, <1>3, FS_EmptySet, SinkConstants DEF Bounded
<1> QED
  BY <1>4 DEF QueueInvariant, LossesAreTold

\* The consumer takes the oldest event, and hears of what it tells.
LEMMA PopKeepsQueue ==
  ASSUME QueueInvariant, Pops, UNCHANGED <<made, cut, generation, forgotten>>
  PROVE  QueueInvariant'
<1> DEFINE h == Head(events)
<1>1. /\ events # <<>> /\ held' = h /\ events' = Tail(events)
      /\ told' = Max({told, h.lost}) /\ UNCHANGED <<dropped, epoch, leaseValid, closed>>
  BY DEF Pops, Pop, lease, ended
<1>2. /\ events \in Seq(Things) /\ Len(events) \in Nat /\ DOMAIN events = 1..Len(events)
  BY AdmittedAreThings DEF QueueInvariant
<1>3. /\ h \in Admitted /\ h = events[1]
      /\ Tail(events) \in Seq(Admitted) /\ Tail(events) \in Seq(Things)
      /\ Len(Tail(events)) = Len(events) - 1
      /\ \A i \in 1..Len(Tail(events)) : Tail(events)[i] = events[i + 1]
  <2>1. h = events[1]
    OBVIOUS
  <2> QED
    BY <1>1, <1>2, <2>1, HeadTailProperties DEF QueueInvariant, Bounded
<1>4. h.lost \in Nat /\ h.lost <= dropped /\ told \in Nat /\ told <= dropped /\ dropped \in Nat
  BY <1>3 DEF Admitted, Things, QueueInvariant, Counts
<1>5. /\ told' \in Nat /\ told' <= dropped
      /\ told = dropped \/ h.lost = dropped => told' = dropped
  <2>1. told' = IF told >= h.lost THEN told ELSE h.lost
    BY <1>1, <1>4, MaxOfTwo
  <2> HIDE DEF h
  <2> QED
    BY <1>4, <2>1
<1> HIDE DEF h
<1>6. Counts'
  BY <1>1, <1>5 DEF QueueInvariant, Counts
<1>7. Admitted \subseteq Admitted'
  BY <1>1, <1>6, StillAdmitted DEF QueueInvariant, Counts
<1>8. Bounded'
  <2>1. events' \in Seq(Admitted') /\ held' \in Admitted'
    BY <1>1, <1>3, <1>7, SeqMonotonic
  <2>2. Len(events') <= Capacity
    BY <1>1, <1>2, <1>3, SinkConstants DEF QueueInvariant, Bounded
  <2>3. Cardinality(Positions(Tail(events), AnError)) <= Cardinality(Positions(events, AnError))
    BY <1>1, <1>2, TailCounts
  <2>4. \A q \in Seq(Things) : Errors(q) = Positions(q, AnError) /\ Cardinality(Errors(q)) \in Nat
    BY ErrorsArePositions, PositionsAreFinite
  <2>5. Errors(events)' = Errors(events')
    BY DEF Errors, IsError
  <2>6. ErrorCapacity \in Nat /\ Cardinality(Errors(events)) <= ErrorCapacity
    BY SinkConstants DEF QueueInvariant, Bounded
  <2>7. Cardinality(Errors(events')) <= ErrorCapacity
    <3>1. Errors(events') = Positions(events', AnError) /\ Cardinality(Errors(events')) \in Nat
      BY <1>1, <1>3, <2>4
    <3>2. Errors(events) = Positions(events, AnError) /\ Cardinality(Errors(events)) \in Nat
      BY <1>2, <2>4
    <3>3. Cardinality(Errors(events')) <= Cardinality(Errors(events))
      BY <1>1, <2>3, <3>1, <3>2
    <3> QED
      BY <2>6, <3>1, <3>2, <3>3
  <2> QED
    BY <2>1, <2>2, <2>5, <2>7 DEF Bounded
<1>9. LossesAreTold'
  <2>1. CASE NothingToTell
    BY <1>1, <1>5, <2>1 DEF LossesAreTold, NothingToTell
  <2>2. CASE \E i \in Errors(events) : events[i].lost = dropped
    <3>1. PICK i \in 1..Len(events) : IsError(events[i]) /\ events[i].lost = dropped
      BY <1>2, <2>2 DEF Errors
    <3>2. CASE i = 1
      BY <1>1, <1>3, <1>5, <3>1, <3>2 DEF LossesAreTold
    <3>3. CASE i # 1
      <4> DEFINE j == i - 1
      <4>1. j \in 1..Len(Tail(events)) /\ j + 1 = i
        BY <1>2, <1>3, <3>3
      <4>2. events'[j] = events[i]
        BY <1>1, <1>3, <4>1
      <4>3. DOMAIN events' = 1..Len(Tail(events))
        BY <1>1, <1>3, LenProperties
      <4> HIDE DEF j
      <4>4. j \in DOMAIN events' /\ IsError(events'[j]) /\ events'[j].lost = dropped'
        BY <1>1, <3>1, <4>1, <4>2, <4>3
      <4> QED
        BY <4>4 DEF LossesAreTold, Errors, IsError
    <3> QED
      BY <3>2, <3>3
  <2> QED
    BY <2>1, <2>2 DEF QueueInvariant, LossesAreTold, NothingToTell
<1> QED
  BY <1>6, <1>8, <1>9 DEF QueueInvariant

\* Steps that touch nothing of it.
LEMMA QueueUntouched ==
  ASSUME QueueInvariant, UNCHANGED <<events, held, dropped, epoch, leaseValid, made, cut, told,
                                    generation, forgotten, closed>>
  PROVE  QueueInvariant'
<1>1. Counts' /\ epoch <= epoch'
  BY DEF QueueInvariant, Counts
<1> QED
  BY <1>1, QueueLeftAlone DEF NothingToTell

\* The queue is what it should be in every state the companion reaches.
LEMMA QueueInvariantHolds == Spec => []QueueInvariant
<1> USE DEF sink, queued, lease, ended, seen
<1>1. NoEvent \in Things /\ NoEvent.lost = 0 /\ NoEvent.epoch = 0 /\ NoEvent.kind = "none"
  BY DEF NoEvent, Event, Things
<1>2. Init => QueueInvariant
  <2> SUFFICES ASSUME Init PROVE QueueInvariant
    OBVIOUS
  <2>1. Counts
    BY DEF Init, SinkInit, Counts
  <2>2. held \in Admitted
    BY <1>1 DEF Init, SinkInit, Admitted, Current
  <2>3. events \in Seq(Admitted) /\ Len(events) = 0 /\ DOMAIN events = 1..Len(events)
    BY EmptySeq, LenProperties DEF Init, SinkInit
  <2>4. Errors(events) = {}
    BY <2>3 DEF Errors
  <2>5. Bounded
    BY <2>2, <2>3, <2>4, FS_EmptySet, SinkConstants DEF Bounded
  <2> QED
    BY <2>1, <2>5 DEF Init, SinkInit, QueueInvariant, LossesAreTold
<1>3. CompanionInvariant /\ QueueInvariant /\ [Next]_vars => QueueInvariant'
  <2> SUFFICES ASSUME CompanionInvariant, QueueInvariant, [Next]_vars PROVE QueueInvariant'
    OBVIOUS
  <2>1. CASE FinishEvents
    <3>1. CASE finishing \/ closed
      BY <2>1, <3>1, QueueUntouched DEF FinishEvents, world
    <3>2. CASE ~(finishing \/ closed)
      <4>1. /\ Purge(0) /\ leaseValid' = FALSE /\ cut' = made
            /\ UNCHANGED <<epoch, held, told, made, dropped, generation, forgotten, closed>>
        BY <2>1, <3>2 DEF FinishEvents, Finish, Revoke, Purge, world
      <4>2. Counts' /\ epoch <= epoch'
        BY <4>1 DEF QueueInvariant, Counts
      <4> QED
        BY <4>1, <4>2, PurgeKeepsQueue
    <3> QED
      BY <3>1, <3>2
  <2>2. CASE Return
    <3>1. /\ events' = <<>> /\ leaseValid' = FALSE /\ cut' = made /\ closed'
          /\ UNCHANGED <<epoch, held, made, dropped, told, generation>>
      BY <2>2 DEF Return, CloseSink, Revoke, world
    <3>2. Counts'
      BY <3>1 DEF QueueInvariant, Counts
    <3> QED
      BY <3>1, <3>2, EmptyQueue
  <2>3. CASE ReadLine \/ InputEnds \/ (MainStep /\ ~FinishEvents /\ ~Return /\ ~Connect)
    <3>1. UNCHANGED <<sink, made, generation, seen>>
      BY <2>3 DEF ReadLine, InputEnds, MainStep, InputCancelled, Dispatched, Submit, AwaitWritten,
                  Stop, DisconnectSession, AwaitDrained, Close, Join, MainOnly, world
    <3> QED
      BY <3>1, QueueUntouched
  <2>4. CASE ReadEvent
    <3>1. CASE Pops
      BY <2>4, <3>1, PopKeepsQueue DEF ReadEvent, world
    <3>2. CASE ~Pops
      BY <2>4, <3>2, QueueUntouched DEF ReadEvent, world
    <3> QED
      BY <3>1, <3>2
  <2>5. CASE WriteEvent
    <3>1. held' = NoEvent /\ UNCHANGED <<events, dropped, epoch, leaseValid, made, cut, told,
                                        generation, forgotten, closed>>
      BY <2>5 DEF WriteEvent, Write, world
    <3>2. Counts' /\ Counts
      BY <3>1 DEF QueueInvariant, Counts
    <3>3. NoEvent \in Admitted
      BY <1>1, <3>2 DEF Admitted, Current, IsMeasurement, Counts
    <3>4. Admitted' = Admitted
      BY <3>1 DEF Admitted, Current, IsMeasurement
    <3>5. Bounded'
      BY <3>1, <3>3, <3>4 DEF QueueInvariant, Bounded, Errors
    <3> QED
      BY <3>1, <3>2, <3>5 DEF QueueInvariant, LossesAreTold, Errors
  <2>6. CASE WriterStep /\ ~ReadEvent /\ ~WriteEvent
    <3>1. UNCHANGED <<sink, made, generation, seen>>
      BY <2>6 DEF WriterStep, TakeResponse, WriteResponse, CompleteTicket, WriteProgress,
                  CheckRead, AwaitWork, Fail, NotifyFailure, world
    <3> QED
      BY <3>1, QueueUntouched
  <2>7. CASE Measurements
    <3>1. ~finishing /\ ~closed
      BY <2>7 DEF Measurements, CompanionInvariant, NothingLeft, Past
    <3>2. CASE Purge(generation) /\ UNCHANGED <<lease, seen>>
      <4>1. Counts' /\ epoch <= epoch'
        BY <2>7, <3>2 DEF Measurements, Purge, QueueInvariant, Counts
      <4> QED
        BY <2>7, <3>2, <4>1, PurgeKeepsQueue DEF Measurements
    <3>3. CASE /\ Begin \/ BeginFails \/ Revoke
               /\ cut' = (IF leaseValid THEN made ELSE cut)
               /\ UNCHANGED <<queued, told, forgotten>>
      <4>1. epoch' = epoch + 1 \/ (epoch' = epoch /\ ~leaseValid')
        <5>1. CASE Begin
          BY <5>1 DEF Begin
        <5>2. CASE BeginFails
          BY <3>1, <5>2 DEF BeginFails
        <5>3. CASE Revoke
          BY <5>3 DEF Revoke
        <5> QED
          BY <3>3, <5>1, <5>2, <5>3
      <4>2. UNCHANGED <<held, made, generation, closed>>
        BY <2>7 DEF Measurements
      <4>3. Counts' /\ epoch <= epoch' /\ (leaseValid' => epoch' # epoch)
        BY <3>3, <4>1, <4>2 DEF QueueInvariant, Counts
      <4> QED
        BY <3>3, <4>1, <4>2, <4>3, QueueLeftAlone DEF NothingToTell
    <3> QED
      BY <2>7, <3>2, <3>3 DEF Measurements
  <2>8. CASE ReaderLeaves \/ UNCHANGED vars
    BY <2>8, QueueUntouched DEF ReaderLeaves, vars, world
  <2>9. CASE \E kind \in Pushed : Produce(kind)
    BY <2>9, ProduceKeepsQueue
  <2>10. CASE Connect
    <3>1. /\ UNCHANGED <<dropped, epoch, leaseValid, held, closed, made, cut, told>>
          /\ generation' = generation + 1 /\ forgotten' = dropped /\ Retain(generation + 1)
      BY <2>10 DEF Connect, Retain
    <3>2. Counts' /\ Counts /\ Bounded /\ epoch <= epoch'
      BY <3>1 DEF QueueInvariant, Counts
    <3>3. Bounded'
      <4>1. CASE events' = events
        <5>1. QueueInvariant /\ (NothingToTell => NothingToTell')
          BY <3>1 DEF NothingToTell
        <5> QED
          BY <3>1, <3>2, <4>1, <5>1, QueueLeftAlone DEF QueueInvariant
      <4>2. CASE ~(events' = events)
        <5>1. PICK kept : events' = Keep(events, kept)
          BY <3>1, <4>2 DEF Retain
        <5> QED
          BY <3>1, <3>2, <5>1, SelectionIsBounded
      <4> QED
        BY <4>1, <4>2
    <3> QED
      BY <3>1, <3>2, <3>3 DEF QueueInvariant, LossesAreTold
  <2> QED
    BY <2>1, <2>2, <2>3, <2>4, <2>5, <2>6, <2>7, <2>8, <2>9, <2>10 DEF Next
<1> QED
  BY <1>2, <1>3, CompanionInvariantHolds, PTL DEF Spec

\* An error that was dropped since the last connect is reported by the dropped_before of
\* one that is still to be read, or was (test_session.cpp:533; session.cpp:281).
THEOREM LossesAreReported == Spec => []LossesAreTold
<1>1. QueueInvariant => LossesAreTold
  BY DEF QueueInvariant
<1> QED
  BY <1>1, QueueInvariantHolds, PTL

\* Nothing measured before a revocation is written after it, whatever was begun since
\* (test_session.cpp:619).
THEOREM RevokedStaysUnwritten == Spec => RevokedIsNeverWritten
<1>1. QueueInvariant =>
        \A e \in {held} : Delivers(e) /\ IsMeasurement(e) => e.body > cut
  BY DEF QueueInvariant, Bounded, Admitted, Current, Delivers, Deliverable
<1> QED
  BY <1>1, QueueInvariantHolds, PTL DEF RevokedIsNeverWritten
=============================================================================

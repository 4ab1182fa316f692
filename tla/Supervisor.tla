------------------------------ MODULE Supervisor ------------------------------
(***************************************************************************)
(* CompanionSupervisor (app/main/companion-supervisor.ts), the companion   *)
(* processes it starts, and the two modules that call it: the IPC handlers *)
(* and the shutdown of the application (main.ts).                          *)
(*                                                                         *)
(* Electron's main process runs one task at a time: a chunk of output, a   *)
(* process event, a timer, a call.  An action is one task together with    *)
(* the promise continuations it makes runnable, which all run before the   *)
(* next task.  The handlers are operators from the supervisor's fields to  *)
(* its next fields, so that one chunk can be several lines.                *)
(***************************************************************************)
EXTENDS Naturals, FiniteSets, SequencesExt

CONSTANTS
  Attempts,    \* the number of START_DELAYS_MS
  Commands,    \* the IPC channels that send a command
  ChunkLines,  \* how many lines one chunk of output may hold
  MaxFaults,   \* bounds what may go wrong outside the supervisor
  MaxCalls     \* bounds the commands

ASSUME SupervisorAssumption ==
  /\ Attempts \in Nat \ {0} /\ ChunkLines \in Nat \ {0}
  /\ MaxFaults \in Nat /\ MaxCalls \in Nat
  /\ Commands \cap {"hello", "shutdown", "bad"} = {}

VARIABLES
  sup,      \* the supervisor's fields and the promises that wait
  app,      \* "boot", "up", "quitting" or "gone"
  spawned,  \* the processes are 1..spawned
  alive,    \* those that run
  inbox,    \* what each has been written and has not read
  out,      \* what each has written and has not been delivered
  notice,   \* the "exit" or "error" event of each that is still to be emitted
  done,     \* those that have answered shutdown and will return from main
  hung,     \* those that answer nothing any more
  faulty,   \* those that did something wrong, or answered too late
  faults, calls

kids == <<spawned, alive, inbox, out, notice, done, hung>>
vars == <<sup, app, kids, faulty, faults, calls>>

Child  == 1..(MaxFaults + 1)      \* a process is replaced only after a fault
NoChild == 0

Fresh ==
  [state    |-> "stopped",   \* the snapshot: state and startAttempts
   tries    |-> 0,
   process  |-> NoChild,     \* process, processGeneration and its listeners
   suppress |-> FALSE,       \* suppressRestart
   pending  |-> {},          \* the requests that wait, with their timers
   cycle    |-> 0,           \* 0, or the index of the delay startAttempts is at
   attempt  |-> 0,           \* its local variable attempt
   hello    |-> "none",      \* what spawnAndHandshake waits for, or has got
   stop     |-> "none",      \* the same of stop
   stopping |-> NoChild,     \* its local variable child
   killed   |-> {},          \* who was sent kill()
   ended    |-> {}]          \* whose input was ended

Init ==
  /\ sup = Fresh /\ app = "boot" /\ spawned = 0
  /\ alive = {} /\ done = {} /\ hung = {} /\ faulty = {}
  /\ inbox = [c \in Child |-> <<>>] /\ out = [c \in Child |-> <<>>]
  /\ notice = [c \in Child |-> "none"]
  /\ faults = 0 /\ calls = 0

IsActive(s, c) == s.process = c
-----------------------------------------------------------------------------
(* The handlers *)

\* One turn of the loop of startAttempts, up to the delay it waits for.
Attempt(s, k) ==
  IF k > Attempts
  THEN [s EXCEPT !.state = "failed", !.tries = Attempts, !.cycle = 0, !.hello = "none"]
  ELSE IF s.suppress
  THEN [s EXCEPT !.state = "stopped", !.tries = 0, !.cycle = 0, !.hello = "none"]
  ELSE [s EXCEPT !.state = "starting", !.tries = @ + 1, !.attempt = s.tries + 1,
                 !.cycle = k, !.hello = "none"]

\* runStartCycle: a second caller joins the cycle that runs.
RunStartCycle(s, resetBudget) ==
  IF s.cycle # 0 THEN s
  ELSE Attempt(IF resetBudget THEN [s EXCEPT !.tries = 0] ELSE s, 1)

\* The promises of requests are rejected; who waits for them learns of it later.
Reject(s, requests) ==
  [s EXCEPT !.pending = @ \ requests,
            !.hello = IF \E r \in requests : r.kind = "hello" THEN "lost" ELSE @,
            !.stop  = IF \E r \in requests : r.kind = "shutdown" THEN "failed" ELSE @]

DisposeCurrentProcess(s, kill) ==
  [s EXCEPT !.process = NoChild,
            !.killed = IF kill THEN @ \cup ({s.process} \ {NoChild}) ELSE @]

HandleTermination(s, c, normalExit) ==
  LET lost == DisposeCurrentProcess(Reject(s, s.pending), FALSE)
  IN IF ~IsActive(s, c) THEN s
     ELSE IF normalExit \/ s.suppress
     THEN [lost EXCEPT !.state = "stopped", !.tries = 0]
     ELSE IF s.cycle = 0 THEN RunStartCycle(lost, TRUE) ELSE lost

\* Mutant: whoever is the process now is killed.
FailProcess_current(s, c) ==
  HandleTermination([s EXCEPT !.killed = @ \cup ({s.process} \ {NoChild})], s.process, FALSE)

FailProcess(s, c) ==
  IF IsActive(s, c)
  THEN HandleTermination([s EXCEPT !.killed = @ \cup {c}], c, FALSE)
  ELSE s

\* A line: an answer that finds its request settles it; a line that cannot be
\* parsed, or answers no request of this process, fails the process.  Events
\* are passed on and change nothing here.
Receive(s, line, c) ==
  LET request == [kind |-> line.kind, child |-> c]
  IN IF ~IsActive(s, c) THEN s
     ELSE IF line.kind = "bad" \/ request \notin s.pending THEN FailProcess(s, c)
     ELSE [s EXCEPT !.pending = @ \ {request},
                    !.hello = IF line.kind # "hello" THEN @
                              ELSE IF line.genuine THEN "good" ELSE "foreign",
                    !.stop = IF line.kind = "shutdown" THEN "answered" ELSE @]

\* Mutant: a process that is not the expected one is forgotten, not killed.
HelloSettled_forgets(s) ==
  CASE s.hello \in {"none", "waiting"} -> s
    [] s.hello = "good" -> [s EXCEPT !.state = "running", !.tries = s.attempt,
                                     !.cycle = 0, !.hello = "none"]
    [] OTHER -> Attempt(DisposeCurrentProcess(s, FALSE), s.cycle + 1)

\* spawnAndHandshake and startAttempts go on: nothing looks at what happened
\* between the answer and this continuation.
HelloSettled(s) ==
  CASE s.hello \in {"none", "waiting"} -> s
    [] s.hello = "good" -> [s EXCEPT !.state = "running", !.tries = s.attempt,
                                     !.cycle = 0, !.hello = "none"]
    [] OTHER -> Attempt(DisposeCurrentProcess(s, TRUE), s.cycle + 1)

\* stop goes on.
StopSettled(s) ==
  CASE s.stop = "answered" -> [s EXCEPT !.stop = "done", !.ended = @ \cup {s.stopping}]
    [] s.stop = "failed"   -> [s EXCEPT !.stop = "done", !.killed = @ \cup {s.stopping}]
    [] OTHER -> s

\* What the task made of the fields, and then the continuations.
Task(s) == sup' = StopSettled(HelloSettled(s))
-----------------------------------------------------------------------------
(* Calls *)

Up == app \in {"up", "quitting"}

Requested(c, kind) == inbox' = [inbox EXCEPT ![c] = Append(@, kind)]

\* boot: the end of it is supervisor.start().
Start == /\ app = "boot" /\ app' = "up"
         /\ Task(RunStartCycle(sup, FALSE))
         /\ UNCHANGED <<kids, faulty, faults, calls>>

\* The retry channel, open to a renderer that shows a stopped or failed backend.
Retry == /\ app = "up" /\ sup.state \in {"failed", "stopped"}
         /\ Task(RunStartCycle([sup EXCEPT !.suppress = FALSE], TRUE))
         /\ UNCHANGED <<app, kids, faulty, faults, calls>>

\* A command channel: one request of a channel at a time, only while running.
Command(kind) ==
  /\ app = "up" /\ calls < MaxCalls
  /\ sup.state = "running" /\ sup.process # NoChild
  /\ \A r \in sup.pending : r.kind # kind
  /\ Task([sup EXCEPT !.pending = @ \cup {[kind |-> kind, child |-> sup.process]}])
  /\ Requested(sup.process, kind) /\ calls' = calls + 1
  /\ UNCHANGED <<app, spawned, alive, out, notice, done, hung, faulty, faults>>

\* before-quit or window-all-closed: the channels are removed, then stop().
Quit ==
  /\ app = "up" /\ app' = "quitting"
  /\ \/ /\ sup.process = NoChild
        /\ Task([sup EXCEPT !.suppress = TRUE, !.state = "stopped", !.tries = 0,
                            !.stop = "done"])
        /\ UNCHANGED inbox
     \/ /\ sup.process # NoChild
        /\ Task([sup EXCEPT !.suppress = TRUE, !.state = "stopping",
                            !.stop = "waiting", !.stopping = sup.process,
                            !.pending = @ \cup {[kind  |-> "shutdown",
                                                 child |-> sup.process]}])
        /\ Requested(sup.process, "shutdown")
  /\ UNCHANGED <<spawned, alive, out, notice, done, hung, faulty, faults, calls>>

\* stop() has returned: app.quit().  The pipes of every process close.
AppExits == /\ app = "quitting" /\ sup.stop = "done" /\ app' = "gone"
            /\ sup' = [sup EXCEPT !.ended = 1..spawned]
            /\ UNCHANGED <<kids, faulty, faults, calls>>
-----------------------------------------------------------------------------
(* Tasks *)

Fault(c) == /\ faults < MaxFaults /\ faults' = faults + 1
            /\ faulty' = faulty \cup {c}

\* The delay is over: a stop in the meantime is seen, or the program is spawned.
DelayOver ==
  /\ Up /\ sup.cycle # 0 /\ sup.hello = "none"
  /\ UNCHANGED <<app, done, hung, out, calls>>
  /\ \/ /\ sup.suppress
        /\ Task([sup EXCEPT !.state = "stopped", !.tries = 0, !.cycle = 0])
        /\ UNCHANGED <<spawned, alive, inbox, notice, faulty, faults>>
     \/ /\ ~sup.suppress /\ Fault(NoChild)          \* spawnProcess throws
        /\ Task([sup EXCEPT !.hello = "lost"])
        /\ UNCHANGED <<spawned, alive, inbox, notice>>
     \/ LET c == spawned + 1
        IN /\ ~sup.suppress /\ spawned' = c
           /\ Task([sup EXCEPT !.process = c, !.hello = "waiting",
                               !.pending = @ \cup {[kind |-> "hello", child |-> c]}])
           /\ Requested(c, "hello")
           /\ \/ /\ alive' = alive \cup {c} /\ UNCHANGED <<notice, faulty, faults>>
              \/ /\ Fault(c)                        \* the program cannot be run
                 /\ notice' = [notice EXCEPT ![c] = "error"] /\ UNCHANGED alive

\* The fields after the first n lines of a process's output.
AfterLines(c, n) ==
  LET after[i \in 0..n] == IF i = 0 THEN sup ELSE Receive(after[i - 1], out[c][i], c)
  IN after[n]

\* A chunk of 1..ChunkLines lines.
Deliver(c) ==
  /\ Up
  /\ \E n \in 1..ChunkLines :
       /\ n <= Len(out[c])
       /\ Task(AfterLines(c, n))
       /\ out' = [out EXCEPT ![c] = SubSeq(@, n + 1, Len(@))]
  /\ UNCHANGED <<app, spawned, alive, inbox, notice, done, hung, faulty, faults, calls>>

\* The "exit" or "error" event; its order with the last output is not fixed.
Terminated(c) ==
  /\ Up /\ notice[c] # "none" /\ notice' = [notice EXCEPT ![c] = "none"]
  /\ Task(HandleTermination(sup, c, notice[c] = "exit 0"))
  /\ UNCHANGED <<app, spawned, alive, inbox, out, done, hung, faulty, faults, calls>>

\* The callback of a write that a dead process did not read.
WriteFails(c) ==
  /\ Up /\ c \notin alive /\ inbox[c] # <<>>
  /\ Task(FailProcess(Reject(sup, {r \in sup.pending :
                                     r.child = c /\ r.kind = Head(inbox[c])}), c))
  /\ inbox' = [inbox EXCEPT ![c] = Tail(@)]
  /\ UNCHANGED <<app, spawned, alive, out, notice, done, hung, faulty, faults, calls>>

\* Mutant: the timer looks whether its process is still the current one.
TimedOut_active(r) == IF IsActive(sup, r.child)
                      THEN Task(FailProcess(Reject(sup, {r}), r.child))
                      ELSE UNCHANGED sup

TimedOut(r) == Task(FailProcess(Reject(sup, {r}), r.child))

\* The timer of r: no answer will come, or it comes too late.
Overdue(r) == r.child \in hung \/ r.child \notin alive \/ ~IsActive(sup, r.child)

Timeout(r) ==
  /\ Up /\ r \in sup.pending /\ TimedOut(r)
  /\ \/ Overdue(r) /\ UNCHANGED <<faulty, faults>>
     \/ ~Overdue(r) /\ Fault(r.child)
  /\ UNCHANGED <<app, kids, calls>>
-----------------------------------------------------------------------------
(* The companion processes *)

Emits(c, line) == out' = [out EXCEPT ![c] = Append(@, line)]

\* Commands are answered one after the other; shutdown is the last.
Answer(c) ==
  /\ c \in alive \ (hung \cup done) /\ inbox[c] # <<>>
  /\ Emits(c, [kind |-> Head(inbox[c]), genuine |-> TRUE])
  /\ done' = IF Head(inbox[c]) = "shutdown" THEN done \cup {c} ELSE done
  /\ inbox' = [inbox EXCEPT ![c] = Tail(@)]
  /\ UNCHANGED <<sup, app, spawned, alive, notice, hung, faulty, faults, calls>>

Exits(c, how) == /\ c \in alive /\ alive' = alive \ {c}
                 /\ notice' = [notice EXCEPT ![c] = how]

\* It returns from main after shutdown or the end of its input, or is killed.
Leave(c) ==
  /\ \/ /\ c \in done \cup sup.ended /\ c \notin hung
        /\ Exits(c, "exit 0")
     \/ c \in sup.killed /\ Exits(c, "exit 1")
  /\ UNCHANGED <<sup, app, spawned, inbox, out, done, hung, faulty, faults, calls>>

\* What a process may do wrong: answer hello as another program, write a line
\* nobody understands, exit early with either code, or answer nothing any more.
Misbehave(c) ==
  /\ c \in alive \ (done \cup hung) /\ Fault(c)
  /\ \/ /\ inbox[c] # <<>> /\ Head(inbox[c]) = "hello"
        /\ Emits(c, [kind |-> "hello", genuine |-> FALSE])
        /\ inbox' = [inbox EXCEPT ![c] = Tail(@)]
        /\ UNCHANGED <<alive, notice, hung>>
     \/ Emits(c, [kind |-> "bad", genuine |-> FALSE])
        /\ UNCHANGED <<alive, notice, inbox, hung>>
     \/ (\E how \in {"exit 0", "exit 1"} : Exits(c, how))
        /\ UNCHANGED <<inbox, out, hung>>
     \/ hung' = hung \cup {c} /\ UNCHANGED <<alive, notice, inbox, out>>
  /\ UNCHANGED <<sup, app, spawned, done, calls>>
-----------------------------------------------------------------------------
Requests == [kind : Commands \cup {"hello", "shutdown"}, child : Child]

Next ==
  \/ Start \/ Retry \/ Quit \/ AppExits \/ DelayOver
  \/ \E kind \in Commands : Command(kind)
  \/ \E r \in Requests : Timeout(r)
  \/ \E c \in Child : \/ Deliver(c) \/ Terminated(c) \/ WriteFails(c)
                      \/ Answer(c) \/ Leave(c) \/ Misbehave(c)

Spec == Init /\ [][Next]_vars

\* What is due: a task of the event loop, or a process that reads its input or
\* ends.  The timer of a request counts only when nothing else settles it.
Due ==
  \/ Start \/ DelayOver \/ AppExits
  \/ \E r \in Requests : Overdue(r) /\ Timeout(r)
  \/ \E c \in Child : Deliver(c) \/ Terminated(c) \/ WriteFails(c) \/ Answer(c) \/ Leave(c)

\* Due work does not wait for ever.  Nobody has to call, nothing has to go wrong,
\* a hung process has to do nothing.  Weak fairness of Due as a whole is enough,
\* as every step of it uses up something; the event loop and the timers give more.
FairSpec == Spec /\ WF_vars(Due)
-----------------------------------------------------------------------------
\* A companion that runs and is not the supervisor's process any more has been
\* killed or has had its input ended: none is left behind to hold the sensor
\* (companion-supervisor.ts:330, 478).
NoOrphan == alive \subseteq {sup.process} \cup sup.killed \cup sup.ended

\* A running companion is killed only if it did something wrong itself: no late
\* callback, timer or event of a process it replaced reaches it.
KilledForCause == sup.killed \cap alive \subseteq faulty

\* Commands are accepted while the state is running: then there is a process
\* (companion-supervisor.ts:326).  Refuted for a chunk that holds the answer to
\* hello and a line that fails the process.
RunningHasProcess == sup.state = "running" => sup.process # NoChild

\* What somebody waits for ends: a start, the first one or after a loss, in running,
\* stopped or failed, and the promise of every command in an answer or a rejection
\* (companion-supervisor.ts:295, 392).
CallsSettle ==
  /\ sup.state = "starting" ~> sup.state # "starting" \/ app = "gone"
  /\ \A kind \in Commands :
       (\E r \in sup.pending : r.kind = kind)
         ~> (\A r \in sup.pending : r.kind # kind) \/ app = "gone"

\* Whatever the companion does, and wherever in a start it comes, quitting ends:
\* the application exits and no companion survives it (main.ts:599).
QuitEnds == app = "quitting" ~> app = "gone" /\ alive = {}

\* Both: nobody waits for ever, of the page or of the application.
EverythingEnds == CallsSettle /\ QuitEnds
=============================================================================

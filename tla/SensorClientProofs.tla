------------------------- MODULE SensorClientProofs -------------------------
(***************************************************************************)
(* What stop leaves behind, for any number of callers, calls, records and  *)
(* failures, and what a tracker tells apart, for every width of numbers.   *)
(***************************************************************************)
EXTENDS SensorClient, SequenceTheorems, TLAPS

Steps == {"idle", "start", "drowsy", "asleep", "woken", "reap", "stop", "silence",
          "decide", "await", "join"}

\* Where the worker has no connection, and where it goes once it has faulted.
Unconnected == {"off", "loop", "begin", "discover", "connect", "outcome", "backoff",
                "finish", "exit", "settle", "notify", "ended"}
Leaving     == {"finish", "exit", "settle", "notify", "ended"}

Gone       == wpc \in {"off", "ended"}
Joiner(t)  == pc[t] \in {"reap", "join"}

\* Who may join.  The handle is somebody's to take, one thread has taken it and
\* joins, or there is no worker.
HandleFacts ==
  /\ pc \in [Threads -> Steps]
  /\ handle \in BOOLEAN /\ joining \in BOOLEAN
  /\ ~(handle /\ joining)
  /\ ~handle /\ ~joining => Gone
  /\ \A t \in Threads : Joiner(t) => joining
  /\ \A t, u \in Threads : Joiner(t) /\ Joiner(u) => t = u

\* What the worker has open, and what the health says behind a fault.
WorkerFacts ==
  /\ wpc \in Unconnected => ~started /\ socket = "none"
  /\ faulted => state = "Faulted" /\ wpc \in Leaving
  /\ ~started => told = "stop"

\* What is true once a stop has returned.
QuietFacts ==
  quiet => /\ ~handle /\ ~joining
           /\ state = IF faulted THEN "Faulted" ELSE "Stopped"

StopInvariant == HandleFacts /\ WorkerFacts /\ QuietFacts

LEMMA StopInvariantInit == Init => StopInvariant
BY DEF Init, StopInvariant, HandleFacts, WorkerFacts, QuietFacts, Steps, Unconnected,
       Leaving, Gone, Joiner
-----------------------------------------------------------------------------
(* Callers *)

\* Waking makes nobody a joiner.
LEMMA WakeKeeps ==
  ASSUME pc \in [Threads -> Steps], NEW t \in Threads, NEW s \in Steps,
         pc' = [Wake(pc) EXCEPT ![t] = s]
  PROVE  /\ pc' \in [Threads -> Steps] /\ pc'[t] = s
         /\ \A u \in Threads \ {t} : Joiner(u)' <=> Joiner(u)
BY DEF Wake, Steps, Joiner

LEMMA GoesKeeps ==
  ASSUME pc \in [Threads -> Steps], NEW t \in Threads, NEW s \in Steps, Goes(t, s)
  PROVE  /\ pc' \in [Threads -> Steps] /\ pc'[t] = s
         /\ \A u \in Threads \ {t} : Joiner(u)' <=> Joiner(u)
BY DEF Goes, Steps, Joiner

\* Calls begin, and bias leaves the handle alone.
LEMMA CallKeepsInvariant ==
  ASSUME StopInvariant, NEW t \in Threads, Call(t)
  PROVE  StopInvariant'
<1> USE DEF StopInvariant, HandleFacts, WorkerFacts, QuietFacts
<1>1. CASE CallStart(t) \/ CallStop(t)
  <2>1. PICK s \in {"start", "stop"} : Goes(t, s)
    BY <1>1 DEF CallStart, CallStop
  <2>2. s \in Steps /\ s \notin {"reap", "join"}
    BY DEF Steps
  <2>3. UNCHANGED <<lifecycleVars, link, wpc>>
    BY <1>1 DEF CallStart, CallStop, worker
  <2> QED
    BY <2>1, <2>2, <2>3, GoesKeeps DEF lifecycleVars, link, Gone, Joiner
<1>2. CASE Bias(t)
  BY <1>2 DEF Bias, lifecycleVars, worker, Gone, Joiner, Tell, Streams, Halts, Fail, Well
<1> QED
  BY <1>1, <1>2 DEF Call

\* Every step of start and stop.
LEMMA CallerKeepsInvariant ==
  ASSUME StopInvariant, NEW t \in Threads, CallerStep(t)
  PROVE  StopInvariant'
<1> USE DEF StopInvariant, HandleFacts, WorkerFacts, QuietFacts
<1>1. {"idle", "start", "drowsy", "asleep", "woken", "reap", "stop", "silence", "decide",
       "await", "join"} \subseteq Steps
  BY DEF Steps
<1>2. CASE Create(t)
  <2>1. "idle" \in Steps /\ pc' = [Wake(pc) EXCEPT ![t] = "idle"]
    BY <1>1, <1>2 DEF Create
  <2>2. /\ pc' \in [Threads -> Steps]
        /\ \A u \in Threads : ~Joiner(u)'
    BY <1>2, <2>1, WakeKeeps DEF Create, Joiner
  <2>3. /\ joining = FALSE /\ ~started /\ socket = "none" /\ told = "stop"
        /\ UNCHANGED <<joining, started, socket, told>>
    BY <1>2 DEF Create, Gone, Unconnected, link
  <2>4. CASE /\ handle' = TRUE /\ faulted' = FALSE /\ quiet' = FALSE /\ wpc' = "loop"
    <3>1. HandleFacts'
      BY <2>2, <2>3, <2>4 DEF Joiner
    <3>2. WorkerFacts'
      BY <2>3, <2>4
    <3> QED
      BY <2>4, <3>1, <3>2
  <2>5. CASE UNCHANGED <<handle, faulted, state, quiet, wpc>>
    <3>1. HandleFacts'
      BY <2>2, <2>3, <2>5 DEF Gone, Joiner
    <3>2. WorkerFacts' /\ QuietFacts'
      BY <2>3, <2>5
    <3> QED
      BY <3>1, <3>2
  <2> QED
    BY <1>2, <2>4, <2>5 DEF Create
<1>3. CASE Busy(t)
  <2>1. PICK s \in {"drowsy", "idle"} : Goes(t, s)
    BY <1>3 DEF Busy
  <2> QED
    BY <1>1, <1>3, <2>1, GoesKeeps DEF Busy, Gone, Joiner, link, worker
<1>4. CASE Sleep(t)
  BY <1>1, <1>4, GoesKeeps DEF Sleep, Gone, Joiner, link, worker
<1>5. CASE Woken(t)
  <2>1. PICK s \in {"drowsy", "start"} : Goes(t, s)
    BY <1>5 DEF Woken
  <2> QED
    BY <1>1, <1>5, <2>1, GoesKeeps DEF Woken, Gone, Joiner, link, worker
<1>6. CASE Reap(t)
  BY <1>1, <1>6, GoesKeeps DEF Reap, Gone, Joiner, link, worker
<1>7. CASE Reaped(t)
  BY <1>1, <1>7, WakeKeeps, ZenonT(60) DEF Reaped, Gone, Joiner, link, worker
<1>8. CASE Stop(t)
  BY <1>1, <1>8, WakeKeeps, ZenonT(60) DEF Stop, Gone, Joiner, link, worker
<1>9. CASE Silence(t)
  BY <1>1, <1>9, GoesKeeps DEF Silence, Gone, Joiner, lifecycleVars, worker
<1>10. CASE Decide(t)
  <2>1. UNCHANGED <<stopping, exited, faulted, link, worker>>
    BY <1>10 DEF Decide, StopRest
  <2>2. CASE Returns(t, FALSE) /\ UNCHANGED state
    BY <1>1, <2>1, <2>2, GoesKeeps DEF Returns, Gone, Joiner, link, worker
  <2>3. CASE Waits(t)
    BY <1>1, <2>1, <2>3, GoesKeeps, <1>10 DEF Decide, Waits, Gone, Joiner, link, worker
  <2>4. CASE Finds(t)
    BY <1>1, <2>1, <2>4, GoesKeeps DEF Finds, Returns, Settled, Gone, Joiner, link, worker
  <2>5. CASE Joins(t)
    BY <1>1, <2>1, <2>5, GoesKeeps DEF Joins, Gone, Joiner, link, worker
  <2> QED
    BY <1>10, <2>2, <2>3, <2>4, <2>5 DEF Decide
<1>11. CASE Await(t)
  BY <1>1, <1>11, GoesKeeps DEF Await, Gone, Joiner, lifecycleVars, link, worker
<1>12. CASE Joined(t)
  BY <1>1, <1>12, WakeKeeps, ZenonT(60) DEF Joined, Settled, Gone, Joiner, link, worker
<1> QED
  BY <1>2, <1>3, <1>4, <1>5, <1>6, <1>7, <1>8, <1>9, <1>10, <1>11, <1>12 DEF CallerStep
-----------------------------------------------------------------------------
(* The worker and the sensor *)

\* A step of the worker finds the handle in somebody's hands, so no stop has returned;
\* what it opens and what it reports is settled before it leaves.
LEMMA WorkerKeepsInvariant ==
  ASSUME StopInvariant, WorkerStep
  PROVE  StopInvariant'
<1> USE DEF StopInvariant, HandleFacts, WorkerFacts, QuietFacts
<1>1. /\ ~Gone /\ UNCHANGED <<handle, joining, quiet>>
      /\ pc' = pc \/ pc' = Wake(pc)
  BY DEF WorkerStep, SessionStep, Loop, Begin, Discover, Connect, Open, ResetTrackers,
         Receive, HandleRecord, Callback, Close, Outcome, Backoff, Exit, Settle, Notify,
         To, Kept, Rest, Gone
<1>2. /\ pc' \in [Threads -> Steps]
      /\ \A t \in Threads : Joiner(t)' <=> Joiner(t)
  BY <1>1 DEF Wake, Steps, Joiner
<1>3. HandleFacts' /\ QuietFacts'
  BY <1>1, <1>2
<1>4. WorkerFacts'
  <2>1. CASE Loop \/ Begin \/ Backoff
    <3>1. /\ wpc \in {"loop", "begin", "backoff"}
          /\ wpc' \in {"loop", "begin", "discover", "finish"}
          /\ UNCHANGED <<faulted, link>>
      BY <2>1 DEF Loop, Begin, Backoff, To, Rest
    <3> QED
      BY <3>1 DEF link, Unconnected, Leaving
  <2>2. CASE Discover
    BY <2>2 DEF Discover, EndsWith, Kept, link, Unconnected, Leaving
  <2>3. CASE Connect
    BY <2>3 DEF Connect, EndsWith, Rest, Unconnected, Leaving
  <2>4. CASE Open
    BY <2>4 DEF Open, EndsWith, Rest, Unconnected, Leaving
  <2>5. CASE ResetTrackers
    BY <2>5 DEF ResetTrackers, To, Rest, link, Unconnected, Leaving
  <2>6. CASE Receive
    BY <2>6 DEF Receive, EndsWith, Rest, Unconnected, Leaving
  <2>7. CASE HandleRecord
    BY <2>7 DEF HandleRecord, Rest, link, Unconnected, Leaving
  <2>8. CASE Callback
    <3>1. wpc' \in {"receive", "close"}
      BY <2>8 DEF Callback
    <3> QED
      BY <2>8, <3>1 DEF Callback, Kept, link, Unconnected, Leaving
  <2>9. CASE Close
    BY <2>9 DEF Close, To, Rest, Unconnected, Leaving
  <2>10. CASE Outcome
    BY <2>10 DEF Outcome, Kept, link, Unconnected, Leaving
  <2>11. CASE Exit \/ Settle \/ Notify
    BY <2>11 DEF Exit, Settle, Notify, Settled, To, Kept, Rest, link, Unconnected, Leaving
  <2> QED
    BY <2>1, <2>2, <2>3, <2>4, <2>5, <2>6, <2>7, <2>8, <2>9, <2>10, <2>11
    DEF WorkerStep, SessionStep
<1> QED
  BY <1>3, <1>4

\* Every step keeps the invariant.
LEMMA StepKeepsInvariant ==
  ASSUME StopInvariant, [Next]_<<play, vars>>
  PROVE  StopInvariant'
<1>1. CASE Emit \/ Disturb \/ UNCHANGED vars
  <2>1. UNCHANGED <<pc, handle, joining, faulted, state, quiet, wpc, started, socket, told>>
    BY <1>1 DEF Emit, Disturb, vars, lifecycleVars, worker, link
  <2> QED
    BY <2>1 DEF StopInvariant, HandleFacts, WorkerFacts, QuietFacts, Gone, Joiner
<1>2. CASE WorkerStep
  BY <1>2, WorkerKeepsInvariant
<1>3. CASE \E t \in Threads : Call(t) \/ CallerStep(t)
  BY <1>3, CallKeepsInvariant, CallerKeepsInvariant
<1> QED
  BY <1>1, <1>2, <1>3 DEF Next

\* In every behaviour the handle has one owner at most, and a worker without one is gone.
THEOREM StopInvariantHolds == Spec => []StopInvariant
<1>1. Init => StopInvariant
  BY StopInvariantInit
<1>2. StopInvariant /\ [Next]_<<play, vars>> => StopInvariant'
  BY StepKeepsInvariant
<1> QED
  BY <1>1, <1>2, PTL DEF Spec

\* However many threads call start, stop and bias, and whatever the worker and the
\* sensor do meanwhile: once stop has returned no worker, socket or stream is left
\* (client_impl.cpp:235-289).
THEOREM StopsFinally == Spec => []StopIsFinal
<1>1. StopInvariant => StopIsFinal
  BY DEF StopInvariant, HandleFacts, WorkerFacts, QuietFacts, StopIsFinal, Gone, Unconnected
<1> QED
  BY <1>1, StopInvariantHolds, PTL
-----------------------------------------------------------------------------
(* What the trackers tell apart *)

Closer(n, k) == 2 * (n - k) < Modulus /\ 2 * (k - n) < Modulus

\* Of two numbers closer than half the range, the remainders tell the newer one.
LEMMA RemaindersTellOrder ==
  ASSUME NEW n \in Int, NEW k \in Int, Closer(n, k)
  PROVE  /\ Delta(n, k) = 0 <=> n = k
         /\ IsAhead(Delta(n, k)) <=> k <= n
<1>1. Modulus \in Nat \ {0}
  BY TrackerConstants
<1>2. CASE k <= n
  <2>1. n - k \in 0..(Modulus - 1)
    BY <1>1, <1>2 DEF Closer
  <2>2. Delta(n, k) = n - k
    BY <1>1, <2>1 DEF Delta
  <2> QED
    BY <1>2, <2>2 DEF IsAhead, Closer
<1>3. CASE n < k
  <2>1. k - n \in 1..Modulus
    BY <1>1, <1>3 DEF Closer
  <2>2. Delta(n, k) = Modulus - (k - n)
    BY <1>1, <2>1 DEF Delta
  <2> QED
    BY <1>1, <1>3, <2>2 DEF IsAhead, Closer
<1> QED
  BY <1>2, <1>3

\* Across the wrap of the counters, for every width of them: a record of the stream
\* is taken if, and only if, it is newer than the last one taken, and a sample is a
\* step forward, a stall, or one that came too late (sequence.cpp:11-28, 35-71).
THEOREM TrackersTellOrder ==
  ASSUME NEW n \in Int, NEW t, t.has, t.previous \in Int, Closer(n, t.previous)
  PROVE  /\ RdtTakes(t, n) <=> t.previous < n
         /\ FtKind(t, n) = "Stall" <=> n = t.previous
         /\ FtKind(t, n) = "Forward" <=> t.previous < n
         /\ FtKind(t, n) \in {"Restart", "Backward"} <=> n < t.previous
<1>1. /\ Delta(n, t.previous) = 0 <=> n = t.previous
      /\ IsAhead(Delta(n, t.previous)) <=> t.previous <= n
  BY RemaindersTellOrder
<1>2. RdtTakes(t, n) <=> t.previous < n
  BY <1>1 DEF RdtTakes, RdtIsAhead
<1>3. CASE n = t.previous
  <2>1. FtKind(t, n) = "Stall"
    BY <1>1, <1>3 DEF FtKind
  <2> QED
    BY <1>2, <1>3, <2>1
<1>4. CASE t.previous < n
  <2>1. FtKind(t, n) = "Forward"
    BY <1>1, <1>4 DEF FtKind
  <2> QED
    BY <1>2, <1>4, <2>1
<1>5. CASE n < t.previous
  <2>1. FtKind(t, n) \in {"Restart", "Backward"}
    BY <1>1, <1>5 DEF FtKind
  <2> QED
    BY <1>2, <1>5, <2>1
<1> QED
  BY <1>3, <1>4, <1>5
-----------------------------------------------------------------------------
(* What the trackers remember of what is on its way *)

Records == [stream : Nat, n : Nat, boot : Nat, ft : Nat]
Sensors == [streaming : BOOLEAN, stream : Nat, n : Nat, boot : Nat, ft : Nat]

\* A record whose sample the sensor took before another's.
Older(x, y) == x.boot < y.boot \/ (x.boot = y.boot /\ x.ft < y.ft)
Alike(x, y) == x.boot = y.boot /\ x.ft = y.ft

\* Records and histories are of what the sensor has sent.
Sent ==
  /\ play \in Plays
  /\ flight \in Seq(Records) /\ Len(flight) <= 2
  /\ \A x \in Coming : x \in Records /\ 0 < x.boot
  /\ sensor \in Sensors
  /\ taken.boot \in Nat /\ taken.ft \in Nat
  /\ \A o \in observed : o.stream \in Nat /\ o.n \in Nat
  /\ \A x \in observed \cup Coming :
       x.stream <= sensor.stream /\ (x.stream = sensor.stream => x.n <= sensor.n)
  /\ \A x \in Coming \cup {taken} :
       x.boot <= sensor.boot /\ (x.boot = sensor.boot => x.ft <= sensor.ft)
  /\ 0 < sensor.boot

\* No two numbers that may be compared are half the range apart.
Comparable ==
  /\ \A x, y \in observed \cup Coming : x.stream = y.stream => Closer(x.n, y.n)
  /\ \A x, y \in Coming \cup {taken} : x.boot = y.boot => Closer(x.ft, y.ft)

IsTracker(t) == t = [has |-> t.has, previous |-> t.previous, candidate |-> t.candidate]

\* A tracker remembers what it took last; as long as that was one stream, its newest.
Remembered ==
  /\ IsTracker(rdt) /\ IsTracker(ft)
  /\ rdt.has <=> observed # {}
  /\ \A o \in observed : OneStream(o) => observed = {o} /\ rdt.previous = o.n
  /\ ft.has <=> taken.boot # 0
  /\ ft.has => ft.previous = taken.ft

\* Of two records on their way one at most is overtaken.  So whoever waits to be taken
\* for a restart is the only late one.
Overtaken ==
  /\ wpc = "record" => \A x, y \in Range(flight) :
       Older(x, record) /\ Older(y, record) => Alike(x, y)
  /\ \A x, y \in Coming : Older(x, taken) /\ Older(y, taken) => Alike(x, y)
  /\ ft.candidate # -1 /\ taken.boot = sensor.boot =>
       \A x \in Coming : Older(x, taken) => x.ft % Modulus = ft.candidate

OrderInvariant == Sent /\ Comparable /\ Remembered /\ Overtaken

\* What the sensor's fields are.
LEMMA SensorFields ==
  ASSUME NEW s \in Sensors
  PROVE  s.stream \in Nat /\ s.n \in Nat /\ s.boot \in Nat /\ s.ft \in Nat
BY DEF Sensors

LEMMA OrderInvariantInit == Init => OrderInvariant
<1> SUFFICES ASSUME Init PROVE OrderInvariant
  OBVIOUS
<1>1. /\ flight = <<>> /\ wpc = "off" /\ observed = {}
      /\ taken = [boot |-> 0, ft |-> 0] /\ rdt = NoTracker /\ ft = NoTracker
      /\ sensor = [streaming |-> FALSE, stream |-> 0, n |-> 0, boot |-> 1,
                   ft |-> play.firstFt]
      /\ play \in Plays
  BY DEF Init
<1>2. Range(flight) = {} /\ Coming = {}
  BY <1>1 DEF Coming, Range
<1>3. play.firstFt \in Nat /\ Modulus \in Nat \ {0}
  BY <1>1, ClientConstants, TrackerConstants
<1>4. Sent
  BY <1>1, <1>3, <1>2 DEF Sent, Sensors
<1>5. Comparable
  BY <1>1, <1>3, <1>2 DEF Comparable, Closer
<1>6. Remembered /\ Overtaken
  BY <1>1, <1>2 DEF Remembered, Overtaken, NoTracker, IsTracker
<1> QED
  BY <1>4, <1>5, <1>6 DEF OrderInvariant

\* The sensor goes on, to another stream or another boot.
GoesOn ==
  /\ sensor' \in Sensors
  /\ sensor.stream <= sensor'.stream /\ sensor.boot <= sensor'.boot
  /\ sensor'.stream = sensor.stream => sensor.n <= sensor'.n
  /\ sensor'.boot = sensor.boot => sensor.ft <= sensor'.ft

\* A tracker that is begun again.
Begun ==
  /\ rdt' = NoTracker /\ observed' = {} /\ taken' = taken
  /\ ft' = ft \/ ft' = [ft EXCEPT !.candidate = -1]

\* What becomes less leaves the invariant as it is.
LEMMA LessKeepsOrder ==
  ASSUME OrderInvariant, play' = play, GoesOn,
         UNCHANGED tracking \/ Begun,
         flight' \in Seq(Records), Len(flight') <= 2, Coming' \subseteq Coming,
         \/ wpc' # "record"
         \/ wpc = "record" /\ record' = record /\ Range(flight)' \subseteq Range(flight)
         \/ \A x, y \in Range(flight)' : x = y
  PROVE  OrderInvariant'
<1> USE DEF OrderInvariant
<1>1. /\ sensor.stream \in Nat /\ sensor.n \in Nat /\ sensor.boot \in Nat /\ sensor.ft \in Nat
      /\ sensor'.stream \in Nat /\ sensor'.n \in Nat /\ sensor'.boot \in Nat
      /\ sensor'.ft \in Nat
  BY SensorFields DEF Sent, GoesOn
<1>2. /\ observed' \subseteq observed /\ taken' = taken
      /\ ft' = ft \/ ft' = [ft EXCEPT !.candidate = -1]
  BY DEF tracking, Begun
<1>3. Sent'
  <2>1. \A x \in observed' \cup Coming' :
           x.stream <= sensor'.stream /\ (x.stream = sensor'.stream => x.n <= sensor'.n)
    <3>1. \A x \in Coming : x.stream \in Nat /\ x.n \in Nat
      BY DEF Sent, Records
    <3>2. /\ \A o \in observed : o.stream \in Nat /\ o.n \in Nat
          /\ \A x \in observed \cup Coming :
               x.stream <= sensor.stream /\ (x.stream = sensor.stream => x.n <= sensor.n)
      BY DEF Sent
    <3>3. \A x \in observed \cup Coming : x.stream \in Nat /\ x.n \in Nat
      BY <3>1, <3>2
    <3>4. /\ sensor.stream <= sensor'.stream
          /\ sensor'.stream = sensor.stream => sensor.n <= sensor'.n
      BY DEF GoesOn
    <3>5. observed' \cup Coming' \subseteq observed \cup Coming
      BY <1>2
    <3> QED
      BY <1>1, <3>2, <3>3, <3>4, <3>5
  <2>2. \A x \in Coming' \cup {taken'} :
           x.boot <= sensor'.boot /\ (x.boot = sensor'.boot => x.ft <= sensor'.ft)
    <3>1. \A x \in Coming \cup {taken} :
            /\ x.boot \in Nat /\ x.ft \in Nat
            /\ x.boot <= sensor.boot /\ (x.boot = sensor.boot => x.ft <= sensor.ft)
      <4>1. \A x \in Coming : x.boot \in Nat /\ x.ft \in Nat
        BY DEF Sent, Records
      <4>2. /\ taken.boot \in Nat /\ taken.ft \in Nat
            /\ \A x \in Coming \cup {taken} :
                 x.boot <= sensor.boot /\ (x.boot = sensor.boot => x.ft <= sensor.ft)
        BY DEF Sent
      <4>3. \A x \in Coming \cup {taken} : x.boot \in Nat /\ x.ft \in Nat
        BY <4>1, <4>2
      <4> QED
        BY <4>2, <4>3
    <3>2. Coming' \cup {taken'} \subseteq Coming \cup {taken}
      BY <1>2
    <3>3. /\ sensor.boot <= sensor'.boot
          /\ sensor'.boot = sensor.boot => sensor.ft <= sensor'.ft
      BY DEF GoesOn
    <3> QED
      BY <1>1, <3>1, <3>2, <3>3
  <2>3. 0 < sensor'.boot
    BY <1>1 DEF Sent, GoesOn
  <2> QED
    BY <1>2, <2>1, <2>2, <2>3 DEF Sent, GoesOn
<1>4. Comparable'
  BY <1>2 DEF Comparable
<1>5. Remembered'
  <2>1. CASE UNCHANGED tracking
    BY <2>1 DEF Remembered, tracking, OneStream, IsTracker
  <2>2. CASE Begun
    <3>1. PICK h, p, c : ft = [has |-> h, previous |-> p, candidate |-> c]
      BY DEF Remembered, IsTracker
    <3>2. ft'.has = ft.has /\ ft'.previous = ft.previous /\ IsTracker(ft')
      BY <1>2, <3>1 DEF IsTracker
    <3> QED
      BY <2>2, <3>2 DEF Remembered, Begun, NoTracker, IsTracker
  <2> QED
    BY <2>1, <2>2
<1>6. Overtaken'
  <2>1. wpc' = "record" => \A x, y \in Range(flight)' :
           Older(x, record') /\ Older(y, record') => Alike(x, y)
    <3>1. CASE wpc = "record" /\ record' = record /\ Range(flight)' \subseteq Range(flight)
      BY <3>1 DEF Overtaken
    <3>2. CASE \A x, y \in Range(flight)' : x = y
      BY <3>2 DEF Alike
    <3> QED
      BY <3>1, <3>2
  <2>2. \A x, y \in Coming' : Older(x, taken') /\ Older(y, taken') => Alike(x, y)
    BY <1>2 DEF Overtaken
  <2>3. ASSUME ft'.candidate # -1, taken'.boot = sensor'.boot
        PROVE  \A x \in Coming' : Older(x, taken') => x.ft % Modulus = ft'.candidate
    <3>1. taken.boot = sensor.boot
      BY <1>1, <1>2, <2>3 DEF Sent, GoesOn
    <3>2. ft.candidate # -1 /\ ft'.candidate = ft.candidate
      BY <1>2, <2>3 DEF Remembered, IsTracker
    <3> QED
      BY <1>2, <3>1, <3>2 DEF Overtaken
  <2> QED
    BY <2>1, <2>2, <2>3 DEF Overtaken
<1> QED
  BY <1>3, <1>4, <1>5, <1>6

\* What is sent is the newest of its stream and of its boot, and near the others.
LEMMA EmitKeepsOrder ==
  ASSUME OrderInvariant, play' = play, Emit
  PROVE  OrderInvariant'
<1> USE DEF OrderInvariant
<1>1. /\ Modulus \in Nat \ {0}
      /\ sensor.stream \in Nat /\ sensor.n \in Nat /\ sensor.boot \in Nat /\ sensor.ft \in Nat
  BY TrackerConstants, SensorFields DEF Sent
<1>2. PICK d \in Strides, r \in Records :
        /\ r = [stream |-> sensor.stream, n |-> sensor.n + d[1],
                boot |-> sensor.boot, ft |-> sensor.ft + d[2]]
        /\ Near(r.n, {o.n : o \in {x \in observed \cup Coming : x.stream = r.stream}})
        /\ Near(r.ft, {o.ft : o \in {x \in {taken} \cup Coming : x.boot = r.boot}})
        /\ flight' = Append(flight, r)
        /\ sensor' = [sensor EXCEPT !.n = r.n, !.ft = r.ft]
  <2>1. PICK d \in Strides : LET r == [stream |-> sensor.stream, n |-> sensor.n + d[1],
                                       boot |-> sensor.boot, ft |-> sensor.ft + d[2]] IN
        /\ Near(r.n, {o.n : o \in {x \in observed \cup Coming : x.stream = r.stream}})
        /\ Near(r.ft, {o.ft : o \in {x \in {taken} \cup Coming : x.boot = r.boot}})
        /\ flight' = Append(flight, r)
        /\ sensor' = [sensor EXCEPT !.n = r.n, !.ft = r.ft]
    BY DEF Emit
  <2>2. PICK r : r = [stream |-> sensor.stream, n |-> sensor.n + d[1],
                      boot |-> sensor.boot, ft |-> sensor.ft + d[2]]
    OBVIOUS
  <2>3. r \in Records
    BY <1>1, <2>2 DEF Strides, Records
  <2> QED
    BY <2>1, <2>2, <2>3
<1>3. /\ r.stream = sensor.stream /\ r.boot = sensor.boot
      /\ r.n \in Nat /\ r.ft \in Nat /\ sensor.n <= r.n /\ sensor.ft <= r.ft
  BY <1>1, <1>2 DEF Strides
<1>4. /\ \A x \in observed \cup Coming : x.stream = r.stream => 2 * (r.n - x.n) < Modulus
      /\ \A x \in Coming \cup {taken} : x.boot = r.boot => 2 * (r.ft - x.ft) < Modulus
  BY <1>2 DEF Near
<1>5. UNCHANGED <<wpc, record, observed, taken, rdt, ft>>
  BY DEF Emit, tracking, worker
<1>6. /\ sensor'.stream = sensor.stream /\ sensor'.boot = sensor.boot
      /\ sensor'.n = r.n /\ sensor'.ft = r.ft /\ sensor' \in Sensors
  BY <1>2, <1>3 DEF Sent, Sensors
<1>7. flight' \in Seq(Records) /\ Len(flight') <= 2 /\ Range(flight)' = Range(flight) \cup {r}
  <2>1. flight \in Seq(Records) /\ flight' = Append(flight, r) /\ Len(flight) < 2
    BY <1>2 DEF Sent, Emit, MaxFlight
  <2>2. /\ flight' \in Seq(Records) /\ Len(flight') = Len(flight) + 1
        /\ \A i \in 1..Len(flight) : flight'[i] = flight[i]
        /\ flight'[Len(flight) + 1] = r /\ Len(flight) \in Nat
    BY <2>1, AppendProperties, LenProperties
  <2>3. DOMAIN flight = 1..Len(flight) /\ DOMAIN flight' = 1..Len(flight')
    BY <2>1, <2>2, LenProperties
  <2>4. DOMAIN flight' = (1..Len(flight)) \cup {Len(flight) + 1}
    BY <2>2, <2>3
  <2> QED
    BY <2>1, <2>2, <2>3, <2>4 DEF Range
<1>8. Coming' = Coming \cup {r}
  BY <1>5, <1>7 DEF Coming
<1>9. \A x \in Coming : x \in Records /\ x.stream \in Nat /\ x.n \in Nat /\ x.boot \in Nat /\ x.ft \in Nat
  BY DEF Sent, Records
<1>10. Sent'
  <2>1. 0 < sensor'.boot /\ 0 < r.boot
    BY <1>3, <1>6 DEF Sent
  <2>2. \A x \in observed' \cup Coming' :
          x.stream <= sensor'.stream /\ (x.stream = sensor'.stream => x.n <= sensor'.n)
    BY <1>1, <1>3, <1>5, <1>6, <1>8, <1>9 DEF Sent
  <2>3. \A x \in Coming' \cup {taken'} :
          x.boot <= sensor'.boot /\ (x.boot = sensor'.boot => x.ft <= sensor'.ft)
    BY <1>1, <1>3, <1>5, <1>6, <1>8, <1>9 DEF Sent
  <2> QED
    BY <1>5, <1>6, <1>7, <1>8, <2>1, <2>2, <2>3 DEF Sent
<1>11. Comparable'
  <2> DEFINE C(n, k) == Closer(n, k) /\ Closer(k, n)
  <2>1. \A n, k \in Nat : k <= n /\ 2 * (n - k) < Modulus => C(n, k) /\ C(k, n)
    BY <1>1 DEF Closer
  <2>2. /\ \A x \in observed \cup Coming :
             x.n \in Nat /\ (x.stream = sensor.stream => x.n <= sensor.n)
        /\ \A x \in Coming \cup {taken} :
             x.ft \in Nat /\ (x.boot = sensor.boot => x.ft <= sensor.ft)
    BY <1>9 DEF Sent
  <2>3. \A x \in observed \cup Coming : x.stream = r.stream => C(x.n, r.n)
    BY <1>1, <1>3, <1>4, <2>1, <2>2
  <2>4. \A x \in Coming \cup {taken} : x.boot = r.boot => C(x.ft, r.ft)
    BY <1>1, <1>3, <1>4, <2>1, <2>2
  <2>5. Closer(r.n, r.n) /\ Closer(r.ft, r.ft)
    BY <1>1, <1>3 DEF Closer
  <2>6. /\ \A x, y \in (observed \cup Coming) \cup {r} : x.stream = y.stream => Closer(x.n, y.n)
        /\ \A x, y \in (Coming \cup {taken}) \cup {r} : x.boot = y.boot => Closer(x.ft, y.ft)
    BY <2>3, <2>4, <2>5 DEF Comparable
  <2> QED
    BY <1>5, <1>8, <2>6 DEF Comparable
<1>12. Remembered'
  BY <1>5 DEF Remembered, OneStream
<1>13. Overtaken'
  <2>1. \A x \in Coming \cup {taken} : ~Older(r, x)
    BY <1>1, <1>3, <1>9 DEF Sent, Older
  <2>2. wpc = "record" => record \in Coming
    BY DEF Coming
  <2> QED
    BY <1>5, <1>6, <1>7, <1>8, <2>1, <2>2 DEF Overtaken
<1> QED
  BY <1>10, <1>11, <1>12, <1>13

\* Between the newest of a stream and what is on its way the remainders tell the order.
LEMMA TakesTheNewest ==
  ASSUME OrderInvariant, wpc = "record", OneStream(record)
  PROVE  RdtTakes(rdt, record.n) <=> Newest(record)
<1> USE DEF OrderInvariant
<1>1. record \in Coming /\ record \in Records /\ record.n \in Nat
  BY DEF Coming, Sent, Records
<1>2. CASE observed = {}
  BY <1>2 DEF Remembered, RdtTakes, Newest
<1>3. ASSUME NEW o \in observed PROVE RdtTakes(rdt, record.n) <=> Newest(record)
  <2>1. /\ o.stream = record.stream /\ OneStream(o)
        /\ o.n \in Nat /\ rdt.has
    BY <1>3 DEF OneStream, Sent, Remembered
  <2>2. observed = {o} /\ rdt.previous = o.n
    BY <1>3, <2>1 DEF Remembered
  <2>3. Closer(record.n, o.n)
    BY <1>1, <2>1 DEF Comparable
  <2>4. RdtTakes(rdt, record.n) <=> o.n < record.n
    BY <1>1, <2>1, <2>2, <2>3, TrackersTellOrder
  <2> QED
    BY <2>1, <2>2, <2>4 DEF Newest
<1> QED
  BY <1>2, <1>3

\* A sample of the boot that was taken from last is a step forward, or it is late.
LEMMA TellsTheLate ==
  ASSUME OrderInvariant, wpc = "record"
  PROVE  /\ taken.boot = record.boot =>
              /\ FtKind(ft, record.ft) = "Stall" <=> record.ft = taken.ft
              /\ FtKind(ft, record.ft) = "Forward" <=> taken.ft < record.ft
              /\ FtKind(ft, record.ft) \in {"Restart", "Backward"} <=> record.ft < taken.ft
         /\ taken.boot = record.boot /\ record.boot = sensor.boot =>
              FtKind(ft, record.ft) # "Restart"
<1> USE DEF OrderInvariant
<1>1. /\ record \in Coming /\ record.ft \in Nat /\ record.boot \in Nat /\ 0 < record.boot
      /\ taken.ft \in Nat
  BY DEF Coming, Sent, Records
<1>2. ASSUME taken.boot = record.boot
      PROVE  /\ FtKind(ft, record.ft) = "Stall" <=> record.ft = taken.ft
             /\ FtKind(ft, record.ft) = "Forward" <=> taken.ft < record.ft
             /\ FtKind(ft, record.ft) \in {"Restart", "Backward"} <=> record.ft < taken.ft
  <2>1. ft.has /\ ft.previous = taken.ft /\ Closer(record.ft, taken.ft)
    BY <1>1, <1>2 DEF Remembered, Comparable
  <2> QED
    BY <1>1, <2>1, TrackersTellOrder
<1>3. ASSUME taken.boot = record.boot, record.boot = sensor.boot,
             FtKind(ft, record.ft) = "Restart"
      PROVE  FALSE
  <2>1. Older(record, taken)
    BY <1>2, <1>3 DEF Older
  <2>2. FtRestarts(ft, record.ft)
    BY <1>3 DEF FtKind
  <2>3. ft.candidate # -1
    BY <2>2 DEF FtRestarts
  <2>4. record.ft % Modulus = ft.candidate
    BY <1>1, <1>3, <2>1, <2>3 DEF Overtaken
  <2>5. Delta(record.ft, ft.candidate) # 0
    BY <2>2 DEF FtRestarts
  <2>6. \A n \in Nat : \A m \in Nat \ {0} : (n - (n % m)) % m = 0
    OBVIOUS
  <2> QED
    BY <1>1, <2>4, <2>5, <2>6, TrackerConstants DEF Delta
<1> QED
  BY <1>2, <1>3

\* What is handled leaves what is on its way, and the trackers follow it.
LEMMA HandleKeepsOrder ==
  ASSUME OrderInvariant, play' = play, HandleRecord
  PROVE  OrderInvariant'
<1> USE DEF OrderInvariant
<1>1. /\ wpc = "record" /\ wpc' # "record"
      /\ UNCHANGED <<sensor, flight>>
      /\ rdt' = RdtObserve(rdt, record.n) /\ ft' = FtObserve(ft, record.ft)
      /\ taken' = IF Discontinuous THEN taken ELSE [boot |-> record.boot, ft |-> record.ft]
  BY DEF HandleRecord, link
<1>2. Coming = Range(flight) \cup {record} /\ Coming' = Range(flight)
  BY <1>1 DEF Coming, Range
<1>3. /\ record \in Records /\ record.stream \in Nat /\ record.n \in Nat
      /\ record.boot \in Nat /\ record.ft \in Nat /\ 0 < record.boot
  BY <1>2 DEF Sent, Records
<1>4. PICK new : new = [stream |-> record.stream, n |-> record.n]
  OBVIOUS
<1>5. /\ Newest(record) => observed' = {o \in observed : o.stream # record.stream} \cup {new}
      /\ ~Newest(record) => observed' = observed
  BY <1>4 DEF HandleRecord
<1>6. new.stream = record.stream /\ new.n = record.n
  BY <1>4
<1>7. \A o \in observed' : o \in observed \/ o = new
  BY <1>5
<1>8. \/ taken'.boot = taken.boot /\ taken'.ft = taken.ft
      \/ taken'.boot = record.boot /\ taken'.ft = record.ft
  <2>1. CASE Discontinuous
    BY <1>1, <2>1
  <2>2. CASE ~Discontinuous
    BY <1>1, <2>2
  <2> QED
    BY <2>1, <2>2
<1>9. Sent'
  <2>1. \A o \in observed' : o.stream \in Nat /\ o.n \in Nat
    BY <1>3, <1>6, <1>7 DEF Sent
  <2>2. \A x \in observed' \cup Coming' :
          x.stream <= sensor'.stream /\ (x.stream = sensor'.stream => x.n <= sensor'.n)
    BY <1>1, <1>2, <1>6, <1>7 DEF Sent
  <2>3. \A x \in Coming' \cup {taken'} :
          x.boot <= sensor'.boot /\ (x.boot = sensor'.boot => x.ft <= sensor'.ft)
    BY <1>1, <1>2, <1>8 DEF Sent
  <2>4. taken'.boot \in Nat /\ taken'.ft \in Nat
    BY <1>3, <1>8 DEF Sent
  <2> QED
    BY <1>1, <1>2, <2>1, <2>2, <2>3, <2>4 DEF Sent
<1>10. Comparable'
  <2>1. \A x \in observed' \cup Coming' : \E u \in observed \cup Coming : x.stream = u.stream /\ x.n = u.n
    BY <1>2, <1>6, <1>7
  <2>2. \A x \in Coming' \cup {taken'} : \E u \in Coming \cup {taken} : x.boot = u.boot /\ x.ft = u.ft
    BY <1>2, <1>8
  <2>3. \A x, y \in observed' \cup Coming' : x.stream = y.stream => Closer(x.n, y.n)
    BY <2>1 DEF Comparable
  <2>4. \A x, y \in Coming' \cup {taken'} : x.boot = y.boot => Closer(x.ft, y.ft)
    BY <2>2 DEF Comparable
  <2> QED
    BY <2>3, <2>4 DEF Comparable
<1>11. Remembered'
  <2>1. /\ RdtTakes(rdt, record.n) => rdt'.has /\ rdt'.previous = record.n /\ IsTracker(rdt')
        /\ ~RdtTakes(rdt, record.n) => rdt' = rdt /\ rdt.has /\ IsTracker(rdt')
    <3>1. PICK h, p, c : rdt = [has |-> h, previous |-> p, candidate |-> c]
      BY DEF Remembered, IsTracker
    <3> QED
      BY <1>1, <3>1 DEF RdtObserve, RdtTakes, IsTracker
  <2>2. rdt'.has /\ observed' # {}
    <3>1. ~Newest(record) => observed # {}
      BY DEF Newest
    <3> QED
      BY <1>5, <2>1, <3>1
  <2>3. ASSUME NEW o \in observed', OneStream(o)'
        PROVE  observed' = {o} /\ rdt'.previous = o.n
    <3>1. \A u \in observed' : u.stream = o.stream
      BY <2>3 DEF OneStream
    <3>2. CASE Newest(record)
      <4>1. new \in observed' /\ o.stream = record.stream
        BY <1>5, <1>6, <3>1, <3>2
      <4>2. \A u \in observed : u.stream = record.stream
        BY <1>5, <3>1, <3>2, <4>1
      <4>3. observed' = {new} /\ o = new
        BY <1>5, <3>2, <4>2
      <4>4. RdtTakes(rdt, record.n)
        BY <1>1, <3>2, <4>2, TakesTheNewest DEF OneStream
      <4> QED
        BY <1>6, <2>1, <4>3, <4>4
    <3>3. CASE ~Newest(record)
      <4>1. PICK u \in observed : u.stream = record.stream
        BY <3>3 DEF Newest
      <4>2. observed' = observed /\ OneStream(o) /\ OneStream(record)
        BY <1>5, <3>1, <3>3, <4>1 DEF OneStream
      <4>3. ~RdtTakes(rdt, record.n)
        BY <1>1, <3>3, <4>2, TakesTheNewest
      <4> QED
        BY <2>1, <4>2, <4>3 DEF Remembered
    <3> QED
      BY <3>2, <3>3
  <2>4. /\ IsTracker(ft') /\ (ft'.has <=> taken'.boot # 0)
        /\ ft'.has => ft'.previous = taken'.ft
    <3>1. PICK h, p, c : ft = [has |-> h, previous |-> p, candidate |-> c]
      BY DEF Remembered, IsTracker
    <3>2. CASE Discontinuous
      <4>1. taken' = taken /\ ft'.has = ft.has /\ ft'.previous = ft.previous /\ IsTracker(ft')
        BY <1>1, <3>1, <3>2 DEF Discontinuous, FtObserve, IsTracker
      <4> QED
        BY <4>1 DEF Remembered
    <3>3. CASE ~Discontinuous
      <4>1. ft' = [has |-> TRUE, previous |-> record.ft, candidate |-> -1]
        BY <1>1, <3>3 DEF Discontinuous, FtObserve
      <4> QED
        BY <1>1, <1>3, <3>3, <4>1 DEF IsTracker
    <3> QED
      BY <3>2, <3>3
  <2> QED
    BY <2>1, <2>2, <2>3, <2>4 DEF Remembered
<1>12. Overtaken'
  <2>1. \A x, y \in Coming' : Older(x, taken') /\ Older(y, taken') => Alike(x, y)
    <3>1. CASE Discontinuous
      BY <1>1, <1>2, <3>1 DEF Overtaken
    <3>2. CASE ~Discontinuous
      <4>1. \A x : Older(x, taken') <=> Older(x, record)
        BY <1>1, <3>2 DEF Older
      <4> QED
        BY <1>1, <1>2, <4>1 DEF Overtaken
    <3> QED
      BY <3>1, <3>2
  <2>2. ASSUME ft'.candidate # -1, taken'.boot = sensor'.boot,
               NEW x \in Coming', Older(x, taken')
        PROVE  x.ft % Modulus = ft'.candidate
    <3>1. PICK h, p, c : ft = [has |-> h, previous |-> p, candidate |-> c]
      BY DEF Remembered, IsTracker
    <3>2. FtKind(ft, record.ft) = "Backward" /\ ft'.candidate = record.ft % Modulus
      BY <1>1, <2>2, <3>1 DEF FtObserve
    <3>3. taken' = taken /\ taken.boot = sensor.boot
      BY <1>1, <2>2, <3>2 DEF Discontinuous
    <3>4. Older(record, taken)
      <4>1. record.boot <= taken.boot /\ taken.boot \in Nat
        BY <1>2, <3>3 DEF Sent
      <4>2. CASE record.boot = taken.boot
        BY <1>1, <3>2, <4>2, TellsTheLate DEF Older
      <4>3. CASE record.boot < taken.boot
        BY <4>3 DEF Older
      <4> QED
        BY <1>3, <4>1, <4>2, <4>3
    <3>5. Alike(x, record)
      BY <1>2, <2>2, <3>3, <3>4 DEF Overtaken
    <3> QED
      BY <3>2, <3>5 DEF Alike
  <2> QED
    BY <1>1, <2>1, <2>2 DEF Overtaken
<1> QED
  BY <1>9, <1>10, <1>11, <1>12

\* The steps of the worker and of its callers that have to do with records.
LEMMA StepKeepsOrder ==
  ASSUME OrderInvariant, [Next]_<<play, vars>>
  PROVE  OrderInvariant'
<1> USE DEF OrderInvariant
<1>1. play' = play
  BY DEF Next
<1>2. CASE Emit
  BY <1>1, <1>2, EmitKeepsOrder
<1>3. CASE HandleRecord
  BY <1>1, <1>3, HandleKeepsOrder
<1>4. flight \in Seq(Records) /\ Len(flight) \in Nat /\ Len(flight) <= 2
  BY LenProperties DEF Sent
<1>5. sensor' = sensor => GoesOn
  BY SensorFields DEF Sent, GoesOn
<1>6. sensor' \in {Streams, Halts, [Halts EXCEPT !.boot = @ + 1, !.ft = 0]} => GoesOn
  <2>1. sensor \in Sensors
    BY DEF Sent
  <2>2. PICK b \in BOOLEAN, s \in Nat, n \in Nat, k \in Nat, f \in Nat :
          sensor = [streaming |-> b, stream |-> s, n |-> n, boot |-> k, ft |-> f]
    BY <2>1 DEF Sensors
  <2>3. CASE sensor' = Streams
    <3>1. sensor' = [streaming |-> TRUE, stream |-> s + 1, n |-> 0, boot |-> k, ft |-> f]
      BY <2>2, <2>3 DEF Streams
    <3> QED
      BY <2>2, <3>1 DEF GoesOn, Sensors
  <2>4. CASE sensor' = Halts
    <3>1. sensor' = [streaming |-> FALSE, stream |-> s, n |-> n, boot |-> k, ft |-> f]
      BY <2>2, <2>4 DEF Halts
    <3> QED
      BY <2>2, <3>1 DEF GoesOn, Sensors
  <2>5. CASE sensor' = [Halts EXCEPT !.boot = @ + 1, !.ft = 0]
    <3>1. PICK h : h = Halts
      OBVIOUS
    <3>2. h = [streaming |-> FALSE, stream |-> s, n |-> n, boot |-> k, ft |-> f]
      BY <2>2, <3>1 DEF Halts
    <3>3. sensor' = [streaming |-> FALSE, stream |-> s, n |-> n, boot |-> k + 1, ft |-> 0]
      <4>1. sensor' = [h EXCEPT !.boot = @ + 1, !.ft = 0]
        BY <2>5, <3>1
      <4> QED
        BY <3>2, <4>1
    <3>4. k + 1 \in Nat /\ k <= k + 1 /\ k + 1 # k /\ 0 \in Nat /\ s <= s /\ n <= n
      OBVIOUS
    <3>5. sensor' \in Sensors
      BY <3>3, <3>4 DEF Sensors
    <3>6. /\ sensor.stream = s /\ sensor.n = n /\ sensor.boot = k
          /\ sensor'.stream = s /\ sensor'.n = n /\ sensor'.boot = k + 1
      BY <2>2, <3>3
    <3> QED
      BY <3>4, <3>5, <3>6 DEF GoesOn
  <2> QED
    BY <2>3, <2>4, <2>5
<1>7. ASSUME UNCHANGED <<wpc, record, flight>>, GoesOn, UNCHANGED tracking \/ Begun
      PROVE  OrderInvariant'
  BY <1>1, <1>4, <1>7, LessKeepsOrder DEF Coming, Range
<1>8. ASSUME wpc' # "record", flight' \in {flight, <<>>}, GoesOn, UNCHANGED tracking \/ Begun
      PROVE  OrderInvariant'
  <2>1. flight' \in Seq(Records) /\ Len(flight') <= 2
    <3>1. CASE flight' = flight
      BY <1>4, <3>1
    <3>2. CASE flight' = <<>>
      BY <3>2
    <3> QED
      BY <1>8, <3>1, <3>2
  <2>2. Coming' \subseteq Coming
    BY <1>8 DEF Coming, Range
  <2> QED
    BY <1>1, <1>8, <2>1, <2>2, LessKeepsOrder
<1>9. CASE Disturb
  <2>1. UNCHANGED <<wpc, record, tracking>>
    BY <1>9 DEF Disturb, worker
  <2>2. GoesOn
    BY <1>5, <1>6, <1>9 DEF Disturb
  <2>3. flight' \in Seq(Records) /\ Len(flight') <= 2 /\ Range(flight)' \subseteq Range(flight)
    <3>1. CASE flight # <<>> /\ flight' = Tail(flight)
      <4>1. /\ flight' \in Seq(Records) /\ Len(flight') = Len(flight) - 1
            /\ \A i \in 1..Len(flight') : flight'[i] = flight[i + 1]
        BY <1>4, <3>1, HeadTailProperties
      <4>2. DOMAIN flight' = 1..Len(flight') /\ DOMAIN flight = 1..Len(flight)
        BY <1>4, <4>1, LenProperties
      <4> QED
        BY <1>4, <4>1, <4>2 DEF Range
    <3>2. CASE flight' = Reverse(flight)
      <4>1. flight' = [i \in 1..Len(flight) |-> flight[(Len(flight) - i) + 1]]
        BY <3>2 DEF Reverse
      <4>2. \A i \in 1..Len(flight) : (Len(flight) - i) + 1 \in 1..Len(flight)
        BY <1>4
      <4>3. DOMAIN flight = 1..Len(flight) /\ \A i \in 1..Len(flight) : flight[i] \in Records
        BY <1>4, ElementOfSeq, LenProperties
      <4>4. flight' \in Seq(Records) /\ Len(flight') = Len(flight)
        BY <1>4, <4>1, <4>2, <4>3
      <4> QED
        BY <1>4, <4>1, <4>2, <4>3, <4>4 DEF Range
    <3>3. CASE Len(flight) = 1 /\ flight' = flight \o flight
      <4>1. /\ flight' \in Seq(Records) /\ Len(flight') = 2
            /\ flight'[1] = flight[1] /\ flight'[2] = flight[1]
        BY <1>4, <3>3, ConcatProperties
      <4>2. DOMAIN flight' = 1..2 /\ DOMAIN flight = 1..1
        BY <1>4, <3>3, <4>1, LenProperties
      <4> QED
        BY <4>1, <4>2 DEF Range
    <3>4. CASE flight' = flight
      BY <1>4, <3>4 DEF Range
    <3> QED
      BY <1>9, <3>1, <3>2, <3>3, <3>4 DEF Disturb
  <2>4. Coming' \subseteq Coming
    BY <2>1, <2>3 DEF Coming
  <2> QED
    BY <1>1, <2>1, <2>2, <2>3, <2>4, LessKeepsOrder
<1>10. CASE Receive
  <2>1. sensor' = sensor /\ UNCHANGED tracking
    BY <1>10 DEF Receive
  <2>2. CASE wpc' # "record" /\ flight' = flight
    BY <1>5, <1>8, <2>1, <2>2
  <2>3. CASE flight # <<>> /\ record' = Head(flight) /\ flight' = Tail(flight)
    <3>1. /\ flight' \in Seq(Records) /\ Len(flight') = Len(flight) - 1
          /\ record' = flight[1] /\ \A i \in 1..Len(flight') : flight'[i] = flight[i + 1]
      BY <1>4, <2>3, HeadTailProperties
    <3>2. /\ DOMAIN flight' = 1..Len(flight') /\ DOMAIN flight = 1..Len(flight)
          /\ Len(flight') <= 1 /\ Len(flight) \in 1..2
      BY <1>4, <2>3, <3>1, LenProperties, EmptySeq
    <3>3. record' \in Range(flight) /\ Range(flight)' \subseteq Range(flight)
      BY <3>1, <3>2 DEF Range
    <3>4. \A x, y \in Range(flight)' : x = y
      BY <3>2 DEF Range
    <3>5. Coming' \subseteq Coming
      BY <3>3 DEF Coming
    <3> QED
      BY <1>1, <1>4, <1>5, <2>1, <3>1, <3>2, <3>4, <3>5, LessKeepsOrder
  <2> QED
    BY <1>10, <2>2, <2>3 DEF Receive, EndsWith
<1>11. CASE Close
  BY <1>5, <1>6, <1>8, <1>11 DEF Close, To, Tell
<1>12. CASE Open
  BY <1>5, <1>6, <1>8, <1>12 DEF Open, EndsWith, Tell
<1>13. CASE ResetTrackers
  BY <1>5, <1>8, <1>13 DEF ResetTrackers, To, link, Begun
<1>14. CASE \/ Loop \/ Begin \/ Discover \/ Connect \/ Callback \/ Outcome \/ Backoff
            \/ Exit \/ Settle \/ Notify
  <2>1. wpc' # "record" /\ UNCHANGED <<flight, sensor, tracking>>
    BY <1>14 DEF Loop, Begin, Discover, Connect, Callback, Outcome, Backoff, Exit, Settle,
                 Notify, To, EndsWith, link
  <2> QED
    BY <1>5, <1>8, <2>1
<1>15. ASSUME NEW t \in Threads, Bias(t) PROVE OrderInvariant'
  <2>1. GoesOn
    BY <1>5, <1>6, <1>15 DEF Bias, Tell
  <2>2. UNCHANGED tracking \/ Begun
    BY <1>15 DEF Bias, tracking, Begun
  <2> QED
    BY <1>7, <1>15, <2>1, <2>2 DEF Bias, worker
<1>16. ASSUME NEW t \in Threads, Silence(t) PROVE OrderInvariant'
  BY <1>5, <1>6, <1>7, <1>16 DEF Silence, Tell, worker
<1>17. ASSUME NEW t \in Threads, Create(t) PROVE OrderInvariant'
  BY <1>5, <1>7, <1>8, <1>17 DEF Create, link
<1>18. ASSUME NEW t \in Threads,
              CallStart(t) \/ CallStop(t) \/ (CallerStep(t) /\ ~Silence(t) /\ ~Create(t))
       PROVE  OrderInvariant'
  <2>1. UNCHANGED <<wpc, record, flight, sensor, tracking>>
    BY <1>18 DEF CallStart, CallStop, CallerStep, Busy, Sleep, Woken, Reap, Reaped, Stop,
                 Decide, StopRest, Await, Joined, link, worker
  <2> QED
    BY <1>5, <1>7, <2>1
<1>19. CASE UNCHANGED vars
  BY <1>5, <1>7, <1>19 DEF vars, link, worker
<1> QED
  BY <1>2, <1>3, <1>9, <1>10, <1>11, <1>12, <1>13, <1>14, <1>15, <1>16, <1>17, <1>18, <1>19
  DEF Next, WorkerStep, SessionStep, Call, CallerStep

\* In every behaviour what the trackers remember is near to what is on its way.
THEOREM OrderInvariantHolds == Spec => []OrderInvariant
<1>1. Init => OrderInvariant
  BY OrderInvariantInit
<1>2. OrderInvariant /\ [Next]_<<play, vars>> => OrderInvariant'
  BY StepKeepsOrder
<1> QED
  BY <1>1, <1>2, PTL DEF Spec

\* Whatever is lost, repeated or overtaken, however often the numbers wrap and the
\* streams are begun again: no late sample reaches the callback, and the newest does, or
\* the session ends (client_impl.cpp:528, sequence.cpp:13, 35).
THEOREM SamplesInOrder == Spec => SamplesAreInOrder
<1>1. ASSUME StopInvariant, OrderInvariant, [Next]_<<play, vars>>,
             wpc = "record" /\ wpc' # "record" /\ OneStream(record)
      PROVE  /\ wpc' = "callback" => Newest(record) /\ ~IsLate(record)
             /\ Newest(record) /\ Progresses(record) => Shown
  <2>1. CASE HandleRecord
    <3>1. RdtTakes(rdt, record.n) <=> Newest(record)
      BY <1>1, TakesTheNewest
    <3>2. wpc' = "callback" => RdtTakes(rdt, record.n) /\ ~Discontinuous
      BY <2>1 DEF HandleRecord
    <3>3. ~Discontinuous => ~IsLate(record)
      BY <1>1, TellsTheLate DEF OrderInvariant, Sent, Sensors, Records, Coming, Discontinuous, IsLate
    <3>4. Progresses(record) => ~Discontinuous
      BY <1>1, TellsTheLate DEF Progresses, Discontinuous
    <3>5. RdtTakes(rdt, record.n) /\ ~Discontinuous => Shown
      BY <2>1 DEF HandleRecord, Shown
    <3> QED
      BY <3>1, <3>2, <3>3, <3>4, <3>5
  <2>2. CASE ~HandleRecord
    <3>1. ~WorkerStep
      BY <1>1, <2>2
      DEF WorkerStep, SessionStep, Loop, Begin, Discover, Connect, Open, ResetTrackers, Receive,
          Callback, Close, Outcome, Backoff, Exit, Settle, Notify, To
    <3>2. ASSUME NEW t \in Threads, Create(t) PROVE FALSE
      BY <1>1, <3>2 DEF Create, StopInvariant, HandleFacts, Gone
    <3>3. ASSUME NEW t \in Threads, Call(t) \/ (CallerStep(t) /\ ~Create(t)) PROVE wpc' = wpc
      BY <3>3
      DEF Call, CallStart, CallStop, Bias, CallerStep, Busy, Sleep, Woken, Reap, Reaped, Stop,
          Silence, Decide, StopRest, Await, Joined, worker
    <3>4. ASSUME Emit \/ Disturb \/ UNCHANGED vars PROVE wpc' = wpc
      BY <3>4 DEF Emit, Disturb, vars, worker
    <3> QED
      BY <1>1, <3>1, <3>2, <3>3, <3>4 DEF Next
  <2> QED
    BY <2>1, <2>2
<1>2. StopInvariant /\ OrderInvariant /\ [Next]_<<play, vars>> =>
        [wpc = "record" /\ wpc' # "record" /\ OneStream(record) =>
           /\ wpc' = "callback" => Newest(record) /\ ~IsLate(record)
           /\ Newest(record) /\ Progresses(record) => Shown]_vars
  BY <1>1
<1> QED
  BY <1>2, StopInvariantHolds, OrderInvariantHolds, PTL DEF Spec, SamplesAreInOrder
=============================================================================

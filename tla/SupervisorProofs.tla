-------------------------- MODULE SupervisorProofs --------------------------
(***************************************************************************)
(* Which companions the supervisor leaves running and which it kills, for  *)
(* any number of attempts, commands, faults and lines in a chunk.          *)
(***************************************************************************)
EXTENDS Supervisor, SequenceLemmas

Kinds == Commands \cup {"hello", "shutdown"}
Lines == [kind : Kinds \cup {"bad"}, genuine : BOOLEAN]

Fields(N) ==
  [state    : {"stopped", "starting", "running", "failed", "stopping"},
   tries    : Nat, process : 0..N, suppress : BOOLEAN,
   pending  : SUBSET [kind : Kinds, child : 0..N],
   cycle    : Nat, attempt : Nat,
   hello    : {"none", "waiting", "good", "foreign", "lost"},
   stop     : {"none", "waiting", "answered", "failed", "done"},
   stopping : 0..N, killed : SUBSET (0..N), ended : SUBSET Nat]

\* With the processes L alive and those of G at fault, killing c is no mistake.
MayDie(c, L, G) == c \in L => c \in G

\* What the fields say whenever a handler returns: where a start is, whose requests
\* wait, and what follows from an answer that has come and not been looked at.
Starting(s) ==
  /\ s.cycle = 0 => s.hello = "none"
  /\ s.cycle # 0 /\ s.hello = "none" => s.process = NoChild
  /\ s.cycle = 0 /\ s.process # NoChild => s.state \in {"running", "stopping"}

Waiting(s, L, G) ==
  \A r \in s.pending :
    /\ r.child = s.process \/ MayDie(r.child, L, G)
    /\ r.kind = "hello" => s.hello = "waiting" /\ r.child = s.process
    /\ r.kind = "shutdown" => /\ s.stop = "waiting" /\ r.child = s.stopping
                              /\ s.process \in {s.stopping, NoChild}

Judged(s, L, G) ==
  /\ s.hello \in {"foreign", "lost"} => MayDie(s.process, L, G)
  /\ s.stop = "failed" => MayDie(s.stopping, L, G)

Watched(s, L, G) ==
  /\ L \subseteq {s.process} \cup s.killed \cup s.ended
  /\ s.killed \cap L \subseteq G

Sound(s, N, L, G) ==
  /\ s \in Fields(N) /\ Starting(s)
  /\ Waiting(s, L, G) /\ Judged(s, L, G) /\ Watched(s, L, G)

\* No answer is left to be looked at.
Settled(s) == s.hello \in {"none", "waiting"} /\ s.stop \notin {"answered", "failed"}

\* What c has written after its first n lines, and what it has still to read, are
\* answers and commands that are waited for, each once.
Owed(s, c, n) ==
  /\ \A i \in (n + 1)..Len(out[c]) :
       out[c][i].genuine /\ [kind |-> out[c][i].kind, child |-> c] \in s.pending
  /\ \A i \in 1..Len(inbox[c]) : [kind |-> inbox[c][i], child |-> c] \in s.pending

Once(c, n) ==
  /\ \A i, j \in (n + 1)..Len(out[c]) : out[c][i].kind = out[c][j].kind => i = j
  /\ \A i, j \in 1..Len(inbox[c]) : inbox[c][i] = inbox[c][j] => i = j
  /\ \A i \in (n + 1)..Len(out[c]), j \in 1..Len(inbox[c]) : out[c][i].kind # inbox[c][j]

Innocent(c) == c \in Child /\ c \in alive /\ c \notin faulty

World ==
  /\ spawned \in Nat /\ alive \subseteq 1..spawned
  /\ hung \subseteq faulty /\ done \subseteq Nat
  /\ out \in [Child -> Seq(Lines)] /\ inbox \in [Child -> Seq(Kinds)]
  /\ notice \in [Child -> {"none", "exit 0", "exit 1", "error"}]
  /\ \A c \in Child : notice[c] # "none" => c \notin alive
  /\ \A c \in Child : c > spawned => out[c] = <<>> /\ inbox[c] = <<>> /\ notice[c] = "none"
  /\ \A c \in Child : \A i \in 1..Len(out[c]) : out[c][i].kind = "bad" => ~out[c][i].genuine

Phase ==
  /\ app \in {"boot", "up", "quitting", "gone"}
  /\ app = "boot" => sup = Fresh
  /\ app \in {"boot", "up"} => sup.stop = "none" /\ ~sup.suppress
  /\ app = "quitting" => sup.suppress

Trusted == Innocent(sup.process) => Owed(sup, sup.process, 0) /\ Once(sup.process, 0)

SupervisorInvariant ==
  Phase /\ World /\ Sound(sup, spawned, alive, faulty) /\ Settled(sup) /\ Trusted
-----------------------------------------------------------------------------
(* The handlers *)

\* How a handler goes from s to t: the process and its requests stay, or it is
\* disposed of; nothing is said about quitting.
Follows(s, t) ==
  /\ (t.process = s.process /\ t.pending = s.pending) \/ t.process = NoChild
  /\ t.suppress = s.suppress
  /\ s.stop = "none" => t.stop = "none"

LEMMA FollowsTransitive ==
  ASSUME NEW s, NEW t, NEW u, Follows(s, t), Follows(t, u)
  PROVE  Follows(s, u)
BY DEF Follows

LEMMA SoundMonotone ==
  ASSUME NEW s, NEW N, NEW L, NEW G, NEW L2, NEW G2,
         Sound(s, N, L, G), L2 \subseteq L, G \subseteq G2
  PROVE  Sound(s, N, L2, G2)
BY DEF Sound, Waiting, Judged, Watched, MayDie

\* startAttempts, when there is no process and nobody waits for hello.
LEMMA AttemptSound ==
  ASSUME NEW N \in Nat, NEW L, NEW G, NEW s \in Fields(N), NEW k \in Nat \ {0},
         s.process = NoChild, s.hello # "waiting", Waiting(s, L, G),
         s.stop = "failed" => MayDie(s.stopping, L, G), Watched(s, L, G)
  PROVE  /\ Sound(Attempt(s, k), N, L, G) /\ Follows(s, Attempt(s, k))
         /\ Attempt(s, k).hello = "none"
<1> DEFINE t == Attempt(s, k)
<1>1. t \in Fields(N)
  <2>1. Attempts \in Nat /\ s.tries \in Nat
    BY SupervisorAssumption DEF Fields
  <2>2. [s EXCEPT !.state = "failed", !.tries = Attempts, !.cycle = 0, !.hello = "none"]
          \in Fields(N)
    BY <2>1 DEF Fields
  <2>3. [s EXCEPT !.state = "stopped", !.tries = 0, !.cycle = 0, !.hello = "none"]
          \in Fields(N)
    BY DEF Fields
  <2>4. ASSUME NEW n \in Nat
        PROVE  [s EXCEPT !.state = "starting", !.tries = n, !.attempt = n,
                         !.cycle = k, !.hello = "none"] \in Fields(N)
    BY DEF Fields
  <2>5. PICK n \in Nat : n = s.tries + 1
    BY <2>1
  <2>6. [s EXCEPT !.state = "starting", !.tries = n, !.attempt = n,
                  !.cycle = k, !.hello = "none"] \in Fields(N)
    BY <2>4
  <2> QED
    BY <2>2, <2>3, <2>5, <2>6 DEF Attempt
<1>2. /\ t.process = NoChild /\ t.pending = s.pending /\ t.stop = s.stop
      /\ t.stopping = s.stopping /\ t.killed = s.killed /\ t.ended = s.ended
      /\ t.hello = "none" /\ t.suppress = s.suppress
  BY DEF Attempt, Fields
<1> HIDE DEF t
<1>3. Waiting(t, L, G)
  BY <1>2 DEF Waiting
<1>4. Starting(t) /\ Judged(t, L, G) /\ Watched(t, L, G) /\ Follows(s, t)
  BY <1>2 DEF Starting, Judged, Watched, Follows
<1> QED
  BY <1>1, <1>2, <1>3, <1>4 DEF Sound, t

LEMMA RunStartCycleSound ==
  ASSUME NEW N \in Nat, NEW L, NEW G, NEW s, NEW b \in BOOLEAN,
         Sound(s, N, L, G), s.cycle = 0 => s.process = NoChild
  PROVE  /\ Sound(RunStartCycle(s, b), N, L, G) /\ Follows(s, RunStartCycle(s, b))
<1>1. CASE s.cycle # 0
  BY <1>1 DEF RunStartCycle, Follows
<1>2. CASE s.cycle = 0
  <2> DEFINE t == IF b THEN [s EXCEPT !.tries = 0] ELSE s
  <2>1. t \in Fields(N)
    BY DEF Sound, Fields
  <2>2. /\ t.process = s.process /\ t.pending = s.pending /\ t.stop = s.stop
        /\ t.stopping = s.stopping /\ t.killed = s.killed /\ t.ended = s.ended
        /\ t.hello = s.hello /\ t.suppress = s.suppress
    BY DEF Sound, Fields
  <2>3. RunStartCycle(s, b) = Attempt(t, 1)
    BY <1>2 DEF RunStartCycle
  <2> HIDE DEF t
  <2>4. t.hello # "waiting" /\ Waiting(t, L, G) /\ Watched(t, L, G) /\ Follows(s, t)
    BY <1>2, <2>2 DEF Sound, Starting, Waiting, Watched, Follows
  <2>5. t.stop = "failed" => MayDie(t.stopping, L, G)
    BY <2>2 DEF Sound, Judged
  <2>6. Sound(Attempt(t, 1), N, L, G) /\ Follows(t, Attempt(t, 1))
    BY <1>2, <2>1, <2>2, <2>4, <2>5, AttemptSound
  <2> QED
    BY <2>3, <2>4, <2>6, FollowsTransitive
<1> QED
  BY <1>1, <1>2

\* The requests R fail, of processes that may die.
LEMMA RejectSound ==
  ASSUME NEW N \in Nat, NEW L, NEW G, NEW s, NEW R, Sound(s, N, L, G),
         \A r \in R : r \in s.pending /\ MayDie(r.child, L, G)
  PROVE  /\ Sound(Reject(s, R), N, L, G)
         /\ Reject(s, R).process = s.process /\ Reject(s, R).suppress = s.suppress
         /\ Reject(s, R).pending = s.pending \ R
         /\ Reject(s, R).cycle = s.cycle
         /\ s.stop = "none" => Reject(s, R).stop = "none"
<1> DEFINE t == Reject(s, R)
<1>1. t \in Fields(N)
  BY DEF Sound, Fields, Reject
<1>2. /\ t.process = s.process /\ t.pending = s.pending \ R /\ t.cycle = s.cycle
      /\ t.state = s.state /\ t.suppress = s.suppress
      /\ t.stopping = s.stopping /\ t.killed = s.killed /\ t.ended = s.ended
      /\ t.hello = IF \E r \in R : r.kind = "hello" THEN "lost" ELSE s.hello
      /\ t.stop  = IF \E r \in R : r.kind = "shutdown" THEN "failed" ELSE s.stop
  BY DEF Sound, Fields, Reject
<1> HIDE DEF t
<1>3. ASSUME NEW r \in R, NEW q \in t.pending
      PROVE  /\ ~(r.kind = "hello" /\ q.kind = "hello")
             /\ ~(r.kind = "shutdown" /\ q.kind = "shutdown")
  <2>1. r \in s.pending /\ q \in s.pending /\ q \notin R
    BY <1>2, <1>3
  <2>2. r \in [kind : Kinds, child : 0..N] /\ q \in [kind : Kinds, child : 0..N]
    BY <2>1 DEF Sound, Fields
  <2>3. r.kind = q.kind /\ r.child = q.child => r = q
    BY <2>2
  <2> QED
    BY <2>1, <2>3 DEF Sound, Waiting
<1>4. Waiting(t, L, G)
  <2> SUFFICES ASSUME NEW q \in t.pending
               PROVE /\ q.child = t.process \/ MayDie(q.child, L, G)
                     /\ q.kind = "hello" => t.hello = "waiting" /\ q.child = t.process
                     /\ q.kind = "shutdown" => /\ t.stop = "waiting" /\ q.child = t.stopping
                                               /\ t.process \in {t.stopping, NoChild}
    BY DEF Waiting
  <2>1. q \in s.pending
    BY <1>2
  <2> QED
    BY <1>2, <1>3, <2>1 DEF Sound, Waiting
<1>5. Starting(t)
  BY <1>2 DEF Sound, Starting, Waiting
<1>6. Judged(t, L, G)
  BY <1>2 DEF Sound, Judged, Waiting
<1>7. Watched(t, L, G)
  BY <1>2 DEF Sound, Watched
<1>8. s.stop = "none" => t.stop = "none"
  BY <1>2 DEF Sound, Waiting
<1> QED
  BY <1>1, <1>2, <1>4, <1>5, <1>6, <1>7, <1>8 DEF Sound, t

\* The process may die and is watched over: it is disposed of, and a start may begin.
LEMMA HandleTerminationSound ==
  ASSUME NEW N \in Nat, NEW L, NEW G, NEW s, NEW c, NEW normal \in BOOLEAN,
         Sound(s, N, L, G), NoChild \notin L,
         IsActive(s, c) => MayDie(c, L, G) /\ c \notin L \ (s.killed \cup s.ended)
  PROVE  /\ Sound(HandleTermination(s, c, normal), N, L, G)
         /\ Follows(s, HandleTermination(s, c, normal))
         /\ ~IsActive(s, c) => HandleTermination(s, c, normal) = s
<1>1. CASE ~IsActive(s, c)
  BY <1>1 DEF HandleTermination, Follows
<1>2. CASE IsActive(s, c)
  <2> DEFINE u == Reject(s, s.pending)
             lost == DisposeCurrentProcess(u, FALSE)
             stopped == [lost EXCEPT !.state = "stopped", !.tries = 0]
  <2>1. \A r \in s.pending : MayDie(r.child, L, G)
    BY <1>2 DEF Sound, Waiting, IsActive
  <2>2. /\ Sound(u, N, L, G) /\ u.process = s.process /\ u.suppress = s.suppress
        /\ u.pending = {} /\ u.cycle = s.cycle
        /\ s.stop = "none" => u.stop = "none"
    <3>1. PICK R : R = s.pending
      OBVIOUS
    <3>2. \A r \in R : r \in s.pending /\ MayDie(r.child, L, G)
      BY <2>1, <3>1
    <3>3. /\ Sound(Reject(s, R), N, L, G)
          /\ Reject(s, R).process = s.process /\ Reject(s, R).suppress = s.suppress
          /\ Reject(s, R).pending = s.pending \ R
          /\ Reject(s, R).cycle = s.cycle
          /\ s.stop = "none" => Reject(s, R).stop = "none"
      <4>1. Sound(Reject(s, R), N, L, G)
        BY <3>2, RejectSound
      <4> QED
        BY <3>2, <4>1, RejectSound
    <3> QED
      BY <3>1, <3>3
  <2>3. u.killed = s.killed /\ u.ended = s.ended
    BY DEF Reject, Sound, Fields
  <2> HIDE DEF u
  <2>4. /\ lost \in Fields(N) /\ lost.process = NoChild
        /\ lost.suppress = s.suppress /\ lost.pending = {} /\ lost.cycle = s.cycle
        /\ lost.hello = u.hello /\ lost.stop = u.stop /\ lost.stopping = u.stopping
        /\ lost.killed = s.killed /\ lost.ended = s.ended
    <3>1. u \in Fields(N)
      BY <2>2 DEF Sound
    <3>2. lost = [u EXCEPT !.process = 0, !.killed = @]
      BY DEF DisposeCurrentProcess, NoChild
    <3>3. lost \in Fields(N)
      <4>1. 0 \in 0..N
        OBVIOUS
      <4>2. [u EXCEPT !.process = 0] \in Fields(N)
        BY <3>1, <4>1 DEF Fields
      <4>3. lost = [u EXCEPT !.process = 0]
        BY <3>1, <3>2 DEF Fields
      <4> QED
        BY <4>2, <4>3
    <3> QED
      BY <2>2, <2>3, <3>1, <3>2, <3>3 DEF Fields, NoChild
  <2> HIDE DEF lost
  <2>5. Starting(lost) /\ Waiting(lost, L, G) /\ Judged(lost, L, G)
    BY <2>2, <2>4 DEF Sound, Starting, Waiting, Judged, MayDie
  <2>6. Watched(lost, L, G)
    BY <1>2, <2>4 DEF Sound, Watched, IsActive
  <2>7. Sound(lost, N, L, G) /\ Follows(s, lost)
    BY <2>2, <2>4, <2>5, <2>6 DEF Sound, Follows
  <2>8. Sound(stopped, N, L, G) /\ Follows(s, stopped)
    <3>1. /\ stopped \in Fields(N) /\ stopped.process = NoChild
          /\ stopped.suppress = s.suppress /\ stopped.pending = {} /\ stopped.cycle = s.cycle
          /\ stopped.hello = lost.hello /\ stopped.stop = lost.stop
          /\ stopped.stopping = lost.stopping
          /\ stopped.killed = s.killed /\ stopped.ended = s.ended
      BY <2>4 DEF Fields
    <3> HIDE DEF stopped
    <3> QED
      BY <2>4, <2>7, <3>1 DEF Sound, Starting, Waiting, Judged, Watched, Follows
  <2>9. Sound(RunStartCycle(lost, TRUE), N, L, G) /\ Follows(s, RunStartCycle(lost, TRUE))
    BY <2>4, <2>7, RunStartCycleSound, FollowsTransitive
  <2>10. HandleTermination(s, c, normal) \in {stopped, RunStartCycle(lost, TRUE), lost}
    BY <1>2 DEF HandleTermination, u, lost
  <2> HIDE DEF stopped
  <2> QED
    BY <1>2, <2>7, <2>8, <2>9, <2>10
<1> QED
  BY <1>1, <1>2

\* A process that may die is killed if it is the current one.
LEMMA FailProcessSound ==
  ASSUME NEW N \in Nat, NEW L, NEW G, NEW s, NEW c,
         Sound(s, N, L, G), NoChild \notin L, IsActive(s, c) => MayDie(c, L, G)
  PROVE  /\ Sound(FailProcess(s, c), N, L, G) /\ Follows(s, FailProcess(s, c))
         /\ ~IsActive(s, c) => FailProcess(s, c) = s
<1>1. CASE ~IsActive(s, c)
  BY <1>1 DEF FailProcess, Follows
<1>2. CASE IsActive(s, c)
  <2> DEFINE t == [s EXCEPT !.killed = @ \cup {c}]
  <2>1. /\ t \in Fields(N) /\ t.killed = s.killed \cup {c}
        /\ t.process = s.process /\ t.pending = s.pending /\ t.suppress = s.suppress
        /\ t.hello = s.hello /\ t.stop = s.stop /\ t.stopping = s.stopping
        /\ t.cycle = s.cycle /\ t.state = s.state /\ t.ended = s.ended
    BY <1>2 DEF Sound, Fields, IsActive
  <2>2. FailProcess(s, c) = HandleTermination(t, c, FALSE)
    BY <1>2 DEF FailProcess
  <2> HIDE DEF t
  <2>3. Watched(t, L, G)
    BY <1>2, <2>1 DEF Sound, Watched, MayDie
  <2>4. Sound(t, N, L, G) /\ Follows(s, t)
    BY <2>1, <2>3 DEF Sound, Starting, Waiting, Judged, Follows
  <2>5. IsActive(t, c) => MayDie(c, L, G) /\ c \notin L \ (t.killed \cup t.ended)
    BY <1>2, <2>1
  <2>6. Sound(HandleTermination(t, c, FALSE), N, L, G)
        /\ Follows(t, HandleTermination(t, c, FALSE))
    BY <2>4, <2>5, HandleTerminationSound
  <2> QED
    BY <1>2, <2>2, <2>4, <2>6, FollowsTransitive
<1> QED
  BY <1>1, <1>2

\* A line that the current process must not be blamed for finds its request.
LEMMA ReceiveSound ==
  ASSUME NEW N \in Nat, NEW L, NEW G, NEW s, NEW c, NEW line \in Lines,
         Sound(s, N, L, G), NoChild \notin L,
         c \in L /\ c \notin G => /\ line.genuine /\ line.kind # "bad"
                                  /\ [kind |-> line.kind, child |-> c] \in s.pending
  PROVE  /\ Sound(Receive(s, line, c), N, L, G)
         /\ Receive(s, line, c).suppress = s.suppress
         /\ s.stop = "none" => Receive(s, line, c).stop = "none"
         /\ ~IsActive(s, c) => Receive(s, line, c) = s
         /\ \/ Receive(s, line, c).process = NoChild
            \/ /\ Receive(s, line, c).process = s.process
               /\ s.pending \ {[kind |-> line.kind, child |-> c]}
                    \subseteq Receive(s, line, c).pending
         /\ c \in L /\ c \notin G => Receive(s, line, c).process = s.process
<1> DEFINE request == [kind |-> line.kind, child |-> c]
<1>1. CASE ~IsActive(s, c)
  BY <1>1 DEF Receive
<1>2. CASE IsActive(s, c) /\ (line.kind = "bad" \/ request \notin s.pending)
  <2>1. MayDie(c, L, G)
    BY <1>2 DEF MayDie
  <2>2. Receive(s, line, c) = FailProcess(s, c)
    BY <1>2 DEF Receive
  <2>3. Sound(FailProcess(s, c), N, L, G)
    BY <2>1, FailProcessSound
  <2>4. Follows(s, FailProcess(s, c))
    BY <2>1, <2>3, FailProcessSound
  <2> QED
    BY <1>2, <2>1, <2>2, <2>3, <2>4 DEF Follows, MayDie
<1>3. CASE IsActive(s, c) /\ line.kind # "bad" /\ request \in s.pending
  <2> DEFINE t == [s EXCEPT !.pending = @ \ {request},
                            !.hello = IF line.kind # "hello" THEN @
                                      ELSE IF line.genuine THEN "good" ELSE "foreign",
                            !.stop = IF line.kind = "shutdown" THEN "answered" ELSE @]
  <2>1. Receive(s, line, c) = t
    BY <1>3 DEF Receive
  <2>2. /\ t.pending = s.pending \ {request}
        /\ t.hello = IF line.kind # "hello" THEN s.hello
                     ELSE IF line.genuine THEN "good" ELSE "foreign"
        /\ t.stop = IF line.kind = "shutdown" THEN "answered" ELSE s.stop
        /\ t.process = s.process /\ t.suppress = s.suppress /\ t.cycle = s.cycle
        /\ t.state = s.state /\ t.stopping = s.stopping
        /\ t.killed = s.killed /\ t.ended = s.ended
    BY DEF Sound, Fields
  <2>3. t \in Fields(N)
    BY DEF Sound, Fields
  <2> HIDE DEF t
  <2>4. ASSUME NEW r \in t.pending
        PROVE  /\ ~(r.kind = "hello" /\ line.kind = "hello")
               /\ ~(r.kind = "shutdown" /\ line.kind = "shutdown")
    <3>1. r \in s.pending /\ r # request
      BY <2>2
    <3>2. r \in [kind : Kinds, child : 0..N]
      BY <3>1 DEF Sound, Fields
    <3>3. r.kind = line.kind /\ r.child = c => r = request
      BY <3>2
    <3>4. request.kind = line.kind /\ request.child = c
      OBVIOUS
    <3> HIDE DEF request
    <3> QED
      BY <1>3, <3>1, <3>3, <3>4 DEF Sound, Waiting, IsActive
  <2>5. /\ line.kind = "hello" => s.hello = "waiting"
        /\ line.kind = "shutdown" => s.stop = "waiting"
    <3>1. request.kind = line.kind
      OBVIOUS
    <3> HIDE DEF request
    <3> QED
      BY <1>3, <3>1 DEF Sound, Waiting
  <2>6. Waiting(t, L, G)
    <3> SUFFICES ASSUME NEW r \in t.pending
                 PROVE /\ r.child = t.process \/ MayDie(r.child, L, G)
                       /\ r.kind = "hello" => t.hello = "waiting" /\ r.child = t.process
                       /\ r.kind = "shutdown" => /\ t.stop = "waiting" /\ r.child = t.stopping
                                                 /\ t.process \in {t.stopping, NoChild}
      BY DEF Waiting
    <3>1. r \in s.pending
      BY <2>2
    <3> QED
      BY <2>2, <2>4, <3>1 DEF Sound, Waiting
  <2>7. Starting(t)
    BY <2>2, <2>5 DEF Sound, Starting
  <2>8. Judged(t, L, G)
    BY <1>3, <2>2 DEF Sound, Judged, MayDie, IsActive
  <2>9. Watched(t, L, G)
    BY <2>2 DEF Sound, Watched
  <2>10. Sound(t, N, L, G)
    BY <2>3, <2>6, <2>7, <2>8, <2>9 DEF Sound
  <2>11. s.stop = "none" => t.stop = "none"
    BY <2>2, <2>5
  <2> QED
    BY <1>3, <2>1, <2>2, <2>10, <2>11
<1> QED
  BY <1>1, <1>2, <1>3

\* The continuation of spawnAndHandshake.
LEMMA HelloSettledSound ==
  ASSUME NEW N \in Nat, NEW L, NEW G, NEW s, Sound(s, N, L, G), NoChild \notin L
  PROVE  /\ Sound(HelloSettled(s), N, L, G) /\ Follows(s, HelloSettled(s))
         /\ HelloSettled(s).hello \in {"none", "waiting"}
<1>1. CASE s.hello \in {"none", "waiting"}
  BY <1>1 DEF HelloSettled, Follows
<1>2. CASE s.hello = "good"
  <2> DEFINE t == [s EXCEPT !.state = "running", !.tries = s.attempt,
                            !.cycle = 0, !.hello = "none"]
  <2>1. HelloSettled(s) = t
    BY <1>2 DEF HelloSettled
  <2>2. /\ t \in Fields(N) /\ t.state = "running" /\ t.cycle = 0 /\ t.hello = "none"
        /\ t.process = s.process /\ t.pending = s.pending /\ t.suppress = s.suppress
        /\ t.stop = s.stop /\ t.stopping = s.stopping
        /\ t.killed = s.killed /\ t.ended = s.ended
    BY DEF Sound, Fields
  <2> HIDE DEF t
  <2>3. Waiting(t, L, G)
    BY <1>2, <2>2 DEF Sound, Waiting
  <2> QED
    BY <2>1, <2>2, <2>3 DEF Sound, Starting, Judged, Watched, Follows
<1>3. CASE s.hello \in {"foreign", "lost"}
  <2> DEFINE t == DisposeCurrentProcess(s, TRUE)
  <2>1. /\ t.process = NoChild /\ t.killed = s.killed \cup ({s.process} \ {NoChild})
        /\ t.pending = s.pending /\ t.suppress = s.suppress /\ t.cycle = s.cycle
        /\ t.hello = s.hello /\ t.stop = s.stop /\ t.stopping = s.stopping
        /\ t.ended = s.ended
    BY DEF DisposeCurrentProcess, Sound, Fields
  <2>2. t \in Fields(N)
    <3>1. ASSUME NEW k \in SUBSET (0..N)
          PROVE  [s EXCEPT !.process = 0, !.killed = k] \in Fields(N)
      <4>1. 0 \in 0..N
        OBVIOUS
      <4> QED
        BY <4>1 DEF Sound, Fields
    <3>2. s.killed \cup ({s.process} \ {0}) \in SUBSET (0..N)
      BY DEF Sound, Fields
    <3>3. t = [s EXCEPT !.process = 0, !.killed = s.killed \cup ({s.process} \ {0})]
      BY DEF DisposeCurrentProcess, Sound, Fields, NoChild
    <3> HIDE DEF t
    <3> QED
      BY <3>1, <3>2, <3>3
  <2>3. HelloSettled(s) = Attempt(t, s.cycle + 1)
    BY <1>3 DEF HelloSettled
  <2> HIDE DEF t
  <2>4. Waiting(t, L, G)
    BY <1>3, <2>1 DEF Sound, Waiting, Judged
  <2>5. Watched(t, L, G)
    BY <1>3, <2>1 DEF Sound, Watched, Judged, MayDie
  <2>6. t.stop = "failed" => MayDie(t.stopping, L, G)
    BY <2>1 DEF Sound, Judged
  <2>7. PICK k \in Nat \ {0} : k = s.cycle + 1
    BY DEF Sound, Fields
  <2>8. Sound(Attempt(t, k), N, L, G)
    BY <1>3, <2>1, <2>2, <2>4, <2>5, <2>6, AttemptSound
  <2>9. Follows(t, Attempt(t, k)) /\ Attempt(t, k).hello = "none"
    BY <1>3, <2>1, <2>2, <2>4, <2>5, <2>6, <2>8, AttemptSound
  <2>10. Follows(s, t)
    BY <2>1 DEF Follows
  <2> QED
    BY <2>3, <2>7, <2>8, <2>9, <2>10, FollowsTransitive
<1> QED
  BY <1>1, <1>2, <1>3 DEF Sound, Fields

\* The continuation of stop.
LEMMA StopSettledSound ==
  ASSUME NEW N \in Nat, NEW L, NEW G, NEW s, Sound(s, N, L, G)
  PROVE  /\ Sound(StopSettled(s), N, L, G) /\ Follows(s, StopSettled(s))
         /\ StopSettled(s).hello = s.hello
         /\ StopSettled(s).stop \notin {"answered", "failed"}
<1> DEFINE t == StopSettled(s)
<1>1. CASE s.stop \notin {"answered", "failed"}
  BY <1>1 DEF StopSettled, Follows
<1>2. CASE s.stop \in {"answered", "failed"}
  <2>1. /\ t.process = s.process /\ t.pending = s.pending /\ t.suppress = s.suppress
        /\ t.cycle = s.cycle /\ t.state = s.state /\ t.hello = s.hello
        /\ t.stop = "done" /\ t.stopping = s.stopping
        /\ t.ended = IF s.stop = "answered" THEN s.ended \cup {s.stopping} ELSE s.ended
        /\ t.killed = IF s.stop = "failed" THEN s.killed \cup {s.stopping} ELSE s.killed
    BY <1>2 DEF StopSettled, Sound, Fields
  <2>2. t \in Fields(N)
    <3>1. CASE s.stop = "answered"
      <4>1. t = [s EXCEPT !.stop = "done", !.ended = s.ended \cup {s.stopping}]
        BY <3>1 DEF StopSettled, Sound, Fields
      <4>2. s.ended \cup {s.stopping} \in SUBSET Nat
        BY DEF Sound, Fields
      <4> HIDE DEF t
      <4> QED
        BY <4>1, <4>2 DEF Sound, Fields
    <3>2. CASE s.stop = "failed"
      <4>1. t = [s EXCEPT !.stop = "done", !.killed = s.killed \cup {s.stopping}]
        BY <3>2 DEF StopSettled, Sound, Fields
      <4>2. s.killed \cup {s.stopping} \in SUBSET (0..N)
        BY DEF Sound, Fields
      <4> HIDE DEF t
      <4> QED
        BY <4>1, <4>2 DEF Sound, Fields
    <3> QED
      BY <1>2, <3>1, <3>2
  <2> HIDE DEF t
  <2>3. Waiting(t, L, G)
    BY <1>2, <2>1 DEF Sound, Waiting
  <2>4. Watched(t, L, G)
    BY <2>1 DEF Sound, Watched, Judged, MayDie
  <2>5. Starting(t) /\ Judged(t, L, G) /\ Follows(s, t)
    BY <1>2, <2>1 DEF Sound, Starting, Judged, Follows
  <2> QED
    BY <2>1, <2>2, <2>3, <2>4, <2>5 DEF Sound, t
<1> QED
  BY <1>1, <1>2

\* A task of the event loop, whose handler leaves s.
LEMMA TaskSound ==
  ASSUME NEW N \in Nat, NEW L, NEW G, NEW s, Sound(s, N, L, G), NoChild \notin L, Task(s)
  PROVE  Sound(sup', N, L, G) /\ Follows(s, sup') /\ Settled(sup')
<1> DEFINE t == HelloSettled(s)
<1>1. Sound(t, N, L, G) /\ Follows(s, t) /\ t.hello \in {"none", "waiting"}
  <2>1. Sound(t, N, L, G)
    BY HelloSettledSound
  <2> QED
    BY <2>1, HelloSettledSound
<1>2. sup' = StopSettled(t)
  BY DEF Task
<1> HIDE DEF t
<1>3. Sound(StopSettled(t), N, L, G)
  BY <1>1, StopSettledSound
<1>4. /\ Follows(t, StopSettled(t)) /\ StopSettled(t).hello = t.hello
      /\ StopSettled(t).stop \notin {"answered", "failed"}
  BY <1>1, <1>3, StopSettledSound
<1> QED
  BY <1>1, <1>2, <1>3, <1>4, FollowsTransitive DEF Settled

\* The recursion over the lines of a chunk, as an equation.
LEMMA AfterLinesEquation ==
  ASSUME NEW c, NEW n \in Nat
  PROVE  \E f : /\ f[0] = sup
                /\ \A k \in Nat : k < n => f[k + 1] = Receive(f[k], out[c][k + 1], c)
                /\ AfterLines(c, n) = f[n]
<1> DEFINE Is(f, k) == f = [i \in 0..k |->
                              IF i = 0 THEN sup ELSE Receive(f[i - 1], out[c][i], c)]
           T == {k \in Nat : \E f : Is(f, k)}
<1>1. 0 \in T
  <2>1. Is([i \in 0..0 |-> sup], 0)
    OBVIOUS
  <2> QED
    BY <2>1
<1>2. ASSUME NEW k \in Nat, k \in T PROVE k + 1 \in T
  <2>1. PICK f : Is(f, k)
    BY <1>2
  <2> DEFINE e == Receive(f[k], out[c][k + 1], c)
             g == [i \in 0..(k + 1) |-> IF i = k + 1 THEN e ELSE f[i]]
  <2>2. ASSUME NEW i \in 0..(k + 1)
        PROVE  g[i] = IF i = 0 THEN sup ELSE Receive(g[i - 1], out[c][i], c)
    <3>1. CASE i = k + 1
      BY <3>1
    <3>2. CASE i \in 0..k
      <4>1. g[i] = f[i] /\ (i # 0 => g[i - 1] = f[i - 1])
        BY <3>2
      <4>2. f[i] = IF i = 0 THEN sup ELSE Receive(f[i - 1], out[c][i], c)
        BY <2>1, <3>2
      <4> QED
        BY <4>1, <4>2
    <3> QED
      BY <3>1, <3>2
  <2>3. Is(g, k + 1)
    BY <2>2
  <2>4. \E h : Is(h, k + 1)
    <3> HIDE DEF g, Is
    <3> QED
      BY <2>3
  <2> HIDE DEF Is
  <2> QED
    BY <2>4
<1>3. n \in T
  <2> HIDE DEF T
  <2> QED
    BY <1>1, <1>2, SetInduction
<1>4. PICK f : Is(f, n)
  BY <1>3
<1> DEFINE g == CHOOSE h : Is(h, n)
<1>5. Is(g, n)
  BY <1>4
<1>6. AfterLines(c, n) = g[n]
  BY DEF AfterLines
<1> HIDE DEF g
<1>7. g[0] = sup
  BY <1>5
<1>8. ASSUME NEW k \in Nat, k < n
      PROVE  g[k + 1] = Receive(g[k], out[c][k + 1], c)
  <2>1. k + 1 \in 0..n /\ k + 1 # 0 /\ (k + 1) - 1 = k
    BY <1>8
  <2> QED
    BY <1>5, <2>1
<1> QED
  BY <1>6, <1>7, <1>8

\* What the handler of a chunk leaves: of an innocent process each line finds its request.
LEMMA AfterLinesSound ==
  ASSUME SupervisorInvariant, NEW c \in Child, NEW n \in Nat, n <= Len(out[c])
  PROVE  LET s == AfterLines(c, n)
         IN /\ Sound(s, spawned, alive, faulty)
            /\ s.suppress = sup.suppress
            /\ sup.stop = "none" => s.stop = "none"
            /\ s.process \in {sup.process, NoChild}
            /\ sup.process # c => s = sup
            /\ sup.process = c /\ Innocent(c) => s.process = c /\ Owed(s, c, n)
<1> DEFINE Left(s, k) ==
             /\ Sound(s, spawned, alive, faulty)
             /\ s.suppress = sup.suppress
             /\ sup.stop = "none" => s.stop = "none"
             /\ s.process \in {sup.process, NoChild}
             /\ sup.process # c => s = sup
             /\ sup.process = c /\ Innocent(c) => s.process = c /\ Owed(s, c, k)
<1>1. PICK f : /\ f[0] = sup
               /\ \A k \in Nat : k < n => f[k + 1] = Receive(f[k], out[c][k + 1], c)
               /\ AfterLines(c, n) = f[n]
  BY AfterLinesEquation
<1> DEFINE T == {k \in Nat : k <= n => Left(f[k], k)}
<1>2. /\ spawned \in Nat /\ NoChild \notin alive /\ c # NoChild
      /\ out[c] \in Seq(Lines) /\ Len(out[c]) \in Nat
      /\ \A i \in 1..Len(out[c]) : out[c][i].kind = "bad" => ~out[c][i].genuine
      /\ Sound(sup, spawned, alive, faulty)
  <2>1. out[c] \in Seq(Lines)
    BY DEF SupervisorInvariant, World
  <2> QED
    <3>1. Len(out[c]) \in Nat
      BY <2>1, LenProperties
    <3>2. NoChild \notin alive /\ c # NoChild
      <4>1. spawned \in Nat /\ alive \subseteq 1..spawned
        BY DEF SupervisorInvariant, World
      <4>2. 0 \notin alive
        BY <4>1
      <4>3. c # 0
        BY SupervisorAssumption DEF Child
      <4> QED
        BY <4>2, <4>3 DEF NoChild
    <3> QED
      BY <2>1, <3>1, <3>2 DEF SupervisorInvariant, World
<1>3. 0 \in T
  <2>1. Left(sup, 0)
    BY <1>2 DEF SupervisorInvariant, Trusted
  <2> HIDE DEF Left
  <2> QED
    BY <1>1, <2>1
<1>4. ASSUME NEW k \in Nat, k \in T, k + 1 <= n PROVE Left(f[k + 1], k + 1)
  <2> DEFINE s == f[k]
             line == out[c][k + 1]
             request == [kind |-> line.kind, child |-> c]
             t == Receive(s, line, c)
  <2>1. Left(s, k)
    <3> HIDE DEF Left
    <3> QED
      BY <1>4
  <2>2. f[k + 1] = t
    <3>1. k < n
      BY <1>4
    <3> QED
      BY <1>1, <3>1
  <2>3. k + 1 \in 1..Len(out[c]) /\ line \in Lines
    BY <1>2, <1>4, LenProperties
  <2>4. sup.process = c /\ Innocent(c) =>
          line.genuine /\ line.kind # "bad" /\ request \in s.pending
    BY <1>2, <2>1, <2>3 DEF Owed
  <2>5. s.process = c => sup.process = c
    BY <1>2, <2>1
  <2> HIDE DEF s, line
  <2>6. CASE s.process # c
    <3>1. t = s
      BY <2>6 DEF Receive, IsActive
    <3>2. ~(sup.process = c /\ Innocent(c))
      BY <2>1, <2>6
    <3> QED
      BY <2>1, <2>2, <3>1, <3>2
  <2>7. CASE s.process = c
    <3>1. c \in alive /\ c \notin faulty =>
            line.genuine /\ line.kind # "bad" /\ request \in s.pending
      BY <2>4, <2>5, <2>7 DEF Innocent
    <3>2. Sound(t, spawned, alive, faulty)
      BY <1>2, <2>1, <2>3, <3>1, ReceiveSound
    <3>3. /\ t.suppress = s.suppress
          /\ s.stop = "none" => t.stop = "none"
          /\ \/ t.process = NoChild
             \/ t.process = s.process /\ s.pending \ {request} \subseteq t.pending
          /\ c \in alive /\ c \notin faulty => t.process = s.process
      BY <1>2, <2>1, <2>3, <3>1, <3>2, ReceiveSound
    <3>4. ASSUME sup.process = c, Innocent(c) PROVE t.process = c /\ Owed(t, c, k + 1)
      <4>1. t.process = c /\ s.pending \ {request} \subseteq t.pending
        BY <1>2, <2>7, <3>3, <3>4 DEF Innocent
      <4>2. Owed(s, c, k) /\ Once(c, 0)
        BY <2>1, <3>4 DEF SupervisorInvariant, Trusted
      <4>3. ASSUME NEW i \in (k + 2)..Len(out[c])
            PROVE  out[c][i].genuine /\ [kind |-> out[c][i].kind, child |-> c] \in t.pending
        <5>1. i \in (k + 1)..Len(out[c]) /\ i \in 1..Len(out[c]) /\ i # k + 1
          BY <1>2
        <5>2. out[c][i].kind # line.kind
          BY <1>2, <2>3, <4>2, <5>1 DEF Once, line
        <5> QED
          BY <4>1, <4>2, <5>1, <5>2 DEF Owed
      <4>4. ASSUME NEW i \in 1..Len(inbox[c])
            PROVE  [kind |-> inbox[c][i], child |-> c] \in t.pending
        <5>1. inbox[c][i] # line.kind
          BY <2>3, <4>2 DEF Once, line
        <5> QED
          BY <4>1, <4>2, <5>1 DEF Owed
      <4> QED
        BY <4>1, <4>3, <4>4 DEF Owed
    <3> QED
      BY <2>1, <2>2, <2>5, <2>7, <3>2, <3>3, <3>4
  <2> QED
    BY <2>6, <2>7
<1>5. n \in T
  <2>1. ASSUME NEW k \in Nat, k \in T PROVE k + 1 \in T
    <3> HIDE DEF Left
    <3> QED
      BY <1>4, <2>1
  <2> HIDE DEF T
  <2> QED
    BY <1>3, <2>1, SetInduction
<1>6. Left(f[n], n)
  <2> HIDE DEF Left
  <2> QED
    BY <1>5
<1> QED
  BY <1>1, <1>6
-----------------------------------------------------------------------------
(* The steps *)

LEMMA SupervisorInitially == Init => SupervisorInvariant
<1> SUFFICES ASSUME Init PROVE SupervisorInvariant
  OBVIOUS
<1>1. Fresh \in Fields(0)
  BY DEF Fresh, Fields, NoChild
<1>2. Sound(Fresh, 0, {}, {}) /\ Settled(Fresh)
  <2>1. Starting(Fresh) /\ Waiting(Fresh, {}, {}) /\ Judged(Fresh, {}, {}) /\ Settled(Fresh)
    BY DEF Fresh, Starting, Waiting, Judged, MayDie, Settled
  <2>2. Watched(Fresh, {}, {})
    BY DEF Watched
  <2> QED
    BY <1>1, <2>1, <2>2 DEF Sound
<1>3. World
  BY DEF Init, World
<1>4. Phase /\ Trusted
  BY DEF Init, Phase, Trusted, Innocent, Fresh
<1> QED
  BY <1>2, <1>3, <1>4 DEF SupervisorInvariant, Init

LEMMA NoChildIsDead ==
  ASSUME SupervisorInvariant
  PROVE  NoChild \notin alive /\ spawned \in Nat
<1>1. spawned \in Nat /\ alive \subseteq 1..spawned
  BY DEF SupervisorInvariant, World
<1>2. 0 \notin alive
  BY <1>1
<1> QED
  BY <1>1, <1>2 DEF NoChild

\* A step that leaves the fields t disposes of the process, or takes nothing from it:
\* its lines, what it has to read and its requests stay, unless it is dead or at fault.
Spares(t) ==
  \/ t.process = NoChild
  \/ /\ t.process = sup.process
     /\ sup.process \in (Child \cap alive') \ faulty' =>
          /\ out'[sup.process] = out[sup.process] /\ inbox'[sup.process] = inbox[sup.process]
          /\ \A r \in sup.pending : r.child = sup.process => r \in t.pending

LEMMA TrustedKept ==
  ASSUME Trusted, alive' \subseteq alive, faulty \subseteq faulty', Spares(sup')
  PROVE  Trusted'
<1> SUFFICES ASSUME Innocent(sup.process)'
             PROVE  Owed(sup, sup.process, 0)' /\ Once(sup.process, 0)'
  BY DEF Trusted
<1> DEFINE p == sup.process
<1>1. sup'.process = p /\ p # NoChild
  BY DEF Innocent, Child, NoChild, Spares
<1>2. /\ p \in Child /\ p \in alive \ faulty /\ p \in alive' \ faulty'
      /\ out'[p] = out[p] /\ inbox'[p] = inbox[p]
  BY <1>1 DEF Innocent, Spares
<1>3. Owed(sup, p, 0) /\ Once(p, 0)
  BY <1>2 DEF Trusted, Innocent
<1>4. \A k : [kind |-> k, child |-> p] \in sup.pending => [kind |-> k, child |-> p] \in sup'.pending
  <2>1. \A r \in sup.pending : r.child = p => r \in sup'.pending
    BY <1>1, <1>2 DEF Spares
  <2> QED
    BY <2>1
<1>5. Once(p, 0)'
  BY <1>1, <1>2, <1>3 DEF Once
<1>6. Owed(sup, p, 0)'
  <2>1. /\ \A i \in (0 + 1)..Len(out[p]) :
             out[p][i].genuine /\ [kind |-> out[p][i].kind, child |-> p] \in sup'.pending
        /\ \A i \in 1..Len(inbox[p]) : [kind |-> inbox[p][i], child |-> p] \in sup'.pending
    <3> HIDE DEF p
    <3> QED
      BY <1>3, <1>4 DEF Owed
  <2> QED
    BY <1>1, <1>2, <2>1 DEF Owed
<1> QED
  BY <1>5, <1>6

\* A task that starts when the application has booted leaves the phase.
LEMMA PhaseKept ==
  ASSUME Phase, app' = app, app # "boot", sup'.suppress = sup.suppress,
         sup.stop = "none" => sup'.stop = "none"
  PROVE  Phase'
BY DEF Phase

LEMMA StartKeeps == SupervisorInvariant /\ Start => SupervisorInvariant'
<1> SUFFICES ASSUME SupervisorInvariant, Start PROVE SupervisorInvariant'
  OBVIOUS
<1> DEFINE s == RunStartCycle(sup, FALSE)
<1>1. sup.process = NoChild
  BY DEF SupervisorInvariant, Phase, Start, Fresh
<1>2. Sound(s, spawned, alive, faulty) /\ Follows(sup, s)
  <2>1. Sound(s, spawned, alive, faulty)
    BY <1>1, NoChildIsDead, RunStartCycleSound DEF SupervisorInvariant
  <2> QED
    BY <1>1, <2>1, NoChildIsDead, RunStartCycleSound DEF SupervisorInvariant
<1>3. Task(s)
  BY DEF Start
<1> HIDE DEF s
<1>4. Sound(sup', spawned, alive, faulty) /\ Follows(s, sup') /\ Settled(sup')
  BY <1>2, <1>3, NoChildIsDead, TaskSound
<1>5. sup'.process = NoChild
  BY <1>1, <1>2, <1>4 DEF Follows
<1>6. Phase'
  BY <1>2, <1>4 DEF SupervisorInvariant, Phase, Start, Follows, Fresh
<1>7. Trusted'
  BY <1>5 DEF Trusted, Innocent, Child, NoChild
<1>8. World' /\ UNCHANGED <<spawned, alive, faulty>>
  BY DEF SupervisorInvariant, World, Start, kids
<1> QED
  BY <1>4, <1>6, <1>7, <1>8 DEF SupervisorInvariant, Settled

LEMMA RetryKeeps == SupervisorInvariant /\ Retry => SupervisorInvariant'
<1> SUFFICES ASSUME SupervisorInvariant, Retry PROVE SupervisorInvariant'
  OBVIOUS
<1> DEFINE r == [sup EXCEPT !.suppress = FALSE]
           s == RunStartCycle(r, TRUE)
<1>1. r = sup
  BY DEF SupervisorInvariant, Phase, Retry, Sound, Fields
<1>2. sup.cycle = 0 => sup.process = NoChild
  BY DEF SupervisorInvariant, Sound, Starting, Retry
<1>3. Sound(s, spawned, alive, faulty)
  BY <1>1, <1>2, NoChildIsDead, RunStartCycleSound DEF SupervisorInvariant
<1>4. Follows(sup, s)
  BY <1>1, <1>2, <1>3, NoChildIsDead, RunStartCycleSound DEF SupervisorInvariant
<1>5. Task(s)
  BY DEF Retry
<1> HIDE DEF s
<1>6. Sound(sup', spawned, alive, faulty) /\ Follows(s, sup') /\ Settled(sup')
  BY <1>3, <1>5, NoChildIsDead, TaskSound
<1>7. Follows(sup, sup')
  BY <1>4, <1>6, FollowsTransitive
<1>8. Phase'
  BY <1>7, PhaseKept DEF SupervisorInvariant, Retry, Follows
<1>9. UNCHANGED <<spawned, alive, inbox, out, notice, done, hung, faulty>>
  BY DEF Retry, kids
<1>10. Trusted'
  BY <1>7, <1>9, TrustedKept DEF SupervisorInvariant, Follows, Spares
<1>11. World'
  BY <1>9 DEF SupervisorInvariant, World
<1> QED
  BY <1>6, <1>8, <1>9, <1>10, <1>11 DEF SupervisorInvariant, Settled

\* The current process is sent a request of a kind that does not wait yet.
LEMMA NewRequest ==
  ASSUME World, Trusted, NEW kind \in Kinds, sup.process \in 0..spawned,
         UNCHANGED <<spawned, alive, out, notice, done, hung, faulty>>,
         inbox' = [inbox EXCEPT ![sup.process] = Append(@, kind)],
         \A r \in sup.pending : r.kind # kind,
         sup'.process = sup.process,
         sup'.pending = sup.pending \cup {[kind |-> kind, child |-> sup.process]}
  PROVE  World' /\ Trusted'
<1> DEFINE p == sup.process
<1>1. spawned \in Nat
  BY DEF World
<1>2. World'
  <2>1. inbox' \in [Child -> Seq(Kinds)]
    <3>1. inbox \in [Child -> Seq(Kinds)]
      BY DEF World
    <3>2. p \in Child => Append(inbox[p], kind) \in Seq(Kinds)
      BY <3>1, AppendProperties
    <3> QED
      BY <3>1, <3>2
  <2>2. ASSUME NEW c \in Child, c > spawned PROVE inbox'[c] = <<>>
    <3>1. inbox \in [Child -> Seq(Kinds)] /\ inbox[c] = <<>>
      BY <2>2 DEF World
    <3>2. c # p
      BY <1>1, <2>2 DEF Child
    <3> QED
      BY <3>1, <3>2
  <2> QED
    BY <2>1, <2>2 DEF World
<1>3. Trusted'
  <2> SUFFICES ASSUME Innocent(sup.process)'
               PROVE  Owed(sup, sup.process, 0)' /\ Once(sup.process, 0)'
    BY DEF Trusted
  <2>1. sup'.process = p /\ Innocent(p) /\ p \in Child
    BY DEF Innocent
  <2>2. Owed(sup, p, 0) /\ Once(p, 0)
    BY <2>1 DEF Trusted
  <2>3. inbox[p] \in Seq(Kinds) /\ Len(inbox[p]) \in Nat
    <3>1. inbox[p] \in Seq(Kinds)
      BY <2>1 DEF World
    <3> QED
      BY <3>1, LenProperties
  <2>4. /\ Len(inbox'[p]) = Len(inbox[p]) + 1 /\ inbox'[p][Len(inbox[p]) + 1] = kind
        /\ \A i \in 1..Len(inbox[p]) : inbox'[p][i] = inbox[p][i]
    <3>1. inbox'[p] = Append(inbox[p], kind)
      BY <2>1 DEF World
    <3> QED
      BY <2>3, <3>1, AppendProperties
  <2>5. /\ \A i \in (0 + 1)..Len(out[p]) : out[p][i].kind # kind
        /\ \A i \in 1..Len(inbox[p]) : inbox[p][i] # kind
    <3> HIDE DEF p
    <3>1. \A k : [kind |-> k, child |-> p].kind = k
      OBVIOUS
    <3> QED
      BY <2>2, <3>1 DEF Owed
  <2>6. /\ \A i \in (0 + 1)..Len(out[p]) :
             out[p][i].genuine /\ [kind |-> out[p][i].kind, child |-> p] \in sup'.pending
        /\ \A i \in 1..Len(inbox'[p]) : [kind |-> inbox'[p][i], child |-> p] \in sup'.pending
    <3>1. ASSUME NEW i \in 1..Len(inbox'[p])
          PROVE  [kind |-> inbox'[p][i], child |-> p] \in sup'.pending
      <4>1. CASE i = Len(inbox[p]) + 1
        BY <2>4, <4>1
      <4>2. CASE i \in 1..Len(inbox[p])
        BY <2>2, <2>4, <4>2 DEF Owed
      <4> QED
        BY <2>3, <2>4, <4>1, <4>2
    <3> QED
      BY <2>2, <3>1 DEF Owed
  <2>7. Owed(sup, sup.process, 0)'
    BY <2>1, <2>6 DEF Owed
  <2>8. /\ \A i, j \in (0 + 1)..Len(out[p]) : out[p][i].kind = out[p][j].kind => i = j
        /\ \A i, j \in 1..Len(inbox'[p]) : inbox'[p][i] = inbox'[p][j] => i = j
        /\ \A i \in (0 + 1)..Len(out[p]), j \in 1..Len(inbox'[p]) :
             out[p][i].kind # inbox'[p][j]
    <3>1. \A i \in 1..Len(inbox'[p]) : i = Len(inbox[p]) + 1 \/ i \in 1..Len(inbox[p])
      BY <2>3, <2>4
    <3> HIDE DEF p
    <3> QED
      BY <2>2, <2>4, <2>5, <3>1 DEF Once
  <2>9. Once(sup.process, 0)'
    BY <2>1, <2>8 DEF Once
  <2> QED
    BY <2>7, <2>9
<1> QED
  BY <1>2, <1>3

LEMMA CommandKeeps ==
  ASSUME NEW kind \in Commands, SupervisorInvariant, Command(kind)
  PROVE  SupervisorInvariant'
<1> DEFINE p == sup.process
           request == [kind |-> kind, child |-> p]
           s == [sup EXCEPT !.pending = @ \cup {request}]
<1>1. kind \in Kinds /\ kind # "hello" /\ kind # "shutdown"
  BY SupervisorAssumption DEF Kinds
<1>2. sup \in Fields(spawned) /\ p \in 0..spawned /\ spawned \in Nat
  BY NoChildIsDead DEF SupervisorInvariant, Sound, Fields
<1>3. /\ s.pending = sup.pending \cup {request} /\ s.process = p /\ s.suppress = sup.suppress
      /\ s.cycle = sup.cycle /\ s.state = sup.state /\ s.hello = sup.hello
      /\ s.stop = sup.stop /\ s.stopping = sup.stopping
      /\ s.killed = sup.killed /\ s.ended = sup.ended
  BY <1>2 DEF Fields
<1>4. s \in Fields(spawned)
  BY <1>1, <1>2 DEF Fields
<1>5. Task(s) /\ p # NoChild /\ inbox' = [inbox EXCEPT ![p] = Append(@, kind)]
      /\ \A r \in sup.pending : r.kind # kind
  BY DEF Command, Requested
<1> HIDE DEF s
<1>6. Sound(s, spawned, alive, faulty)
  <2>1. Waiting(s, alive, faulty)
    BY <1>1, <1>3 DEF SupervisorInvariant, Sound, Waiting
  <2> QED
    BY <1>3, <1>4, <2>1 DEF SupervisorInvariant, Sound, Starting, Judged, Watched
<1>7. sup' = s
  BY <1>3, <1>5 DEF SupervisorInvariant, Settled, Task, HelloSettled, StopSettled
<1>8. UNCHANGED <<app, spawned, alive, out, notice, done, hung, faulty>> /\ Settled(s)
  BY <1>3 DEF Command, SupervisorInvariant, Settled
<1>9. Phase'
  BY <1>3, <1>7, <1>8, PhaseKept DEF SupervisorInvariant, Command
<1>10. World' /\ Trusted'
  BY <1>1, <1>2, <1>3, <1>5, <1>7, <1>8, NewRequest DEF SupervisorInvariant
<1> QED
  BY <1>6, <1>7, <1>8, <1>9, <1>10 DEF SupervisorInvariant, Settled

LEMMA AppExitsKeeps == SupervisorInvariant /\ AppExits => SupervisorInvariant'
<1> SUFFICES ASSUME SupervisorInvariant, AppExits PROVE SupervisorInvariant'
  OBVIOUS
<1>1. /\ sup' = [sup EXCEPT !.ended = 1..spawned] /\ app' = "gone"
      /\ UNCHANGED <<spawned, alive, inbox, out, notice, done, hung, faulty>>
  BY DEF AppExits, kids
<1>2. sup \in Fields(spawned) /\ alive \subseteq 1..spawned /\ spawned \in Nat
  BY DEF SupervisorInvariant, Sound, World
<1>3. /\ sup'.pending = sup.pending /\ sup'.process = sup.process
      /\ sup'.cycle = sup.cycle /\ sup'.state = sup.state /\ sup'.hello = sup.hello
      /\ sup'.stop = sup.stop /\ sup'.stopping = sup.stopping
      /\ sup'.killed = sup.killed /\ sup'.ended = 1..spawned
  BY <1>1, <1>2 DEF Fields
<1>4. sup' \in Fields(spawned)
  <2>1. 1..spawned \in SUBSET Nat
    BY <1>2
  <2> QED
    BY <1>1, <1>2, <2>1 DEF Fields
<1>5. Sound(sup', spawned, alive, faulty)
  BY <1>2, <1>3, <1>4 DEF SupervisorInvariant, Sound, Starting, Waiting, Judged, Watched
<1>6. Phase' /\ Settled(sup')
  BY <1>1, <1>3 DEF Phase, SupervisorInvariant, Settled
<1>7. World'
  BY <1>1 DEF SupervisorInvariant, World
<1>8. Trusted'
  BY <1>1, <1>3, TrustedKept DEF SupervisorInvariant, Spares
<1> QED
  BY <1>1, <1>5, <1>6, <1>7, <1>8 DEF SupervisorInvariant, Settled

LEMMA QuitKeeps == SupervisorInvariant /\ Quit => SupervisorInvariant'
<1> SUFFICES ASSUME SupervisorInvariant, Quit PROVE SupervisorInvariant'
  OBVIOUS
<1> DEFINE p == sup.process
           request == [kind |-> "shutdown", child |-> p]
<1>1. /\ sup \in Fields(spawned) /\ p \in 0..spawned /\ spawned \in Nat
      /\ NoChild \notin alive
  BY NoChildIsDead DEF SupervisorInvariant, Sound, Fields
<1>2. /\ app' = "quitting" /\ UNCHANGED <<spawned, alive, out, notice, done, hung, faulty>>
      /\ sup.stop = "none"
  BY DEF Quit, SupervisorInvariant, Phase
<1>3. \A r \in sup.pending : r.kind # "shutdown"
  BY <1>2 DEF SupervisorInvariant, Sound, Waiting
<1>4. CASE p = NoChild
  <2> DEFINE s == [sup EXCEPT !.suppress = TRUE, !.state = "stopped", !.tries = 0,
                              !.stop = "done"]
  <2>1. Task(s) /\ inbox' = inbox
    BY <1>4 DEF Quit
  <2>2. /\ s.pending = sup.pending /\ s.process = p /\ s.suppress = TRUE
        /\ s.cycle = sup.cycle /\ s.hello = sup.hello
        /\ s.stop = "done" /\ s.stopping = sup.stopping
        /\ s.killed = sup.killed /\ s.ended = sup.ended
    BY <1>1 DEF Fields
  <2>3. s \in Fields(spawned)
    BY <1>1 DEF Fields
  <2> HIDE DEF s
  <2>4. Sound(s, spawned, alive, faulty)
    BY <1>3, <1>4, <2>2, <2>3 DEF SupervisorInvariant, Sound, Starting, Waiting, Judged, Watched
  <2>5. Sound(sup', spawned, alive, faulty) /\ Follows(s, sup') /\ Settled(sup')
    BY <1>1, <2>1, <2>4, TaskSound
  <2>6. sup'.process = NoChild /\ sup'.suppress = TRUE
    BY <1>4, <2>2, <2>5 DEF Follows
  <2>7. Phase'
    BY <1>2, <2>6 DEF Phase
  <2>8. World'
    BY <1>2, <2>1 DEF SupervisorInvariant, World
  <2>9. Trusted'
    BY <2>6 DEF Trusted, Innocent, Child, NoChild
  <2> QED
    BY <1>2, <2>5, <2>7, <2>8, <2>9 DEF SupervisorInvariant, Settled
<1>5. CASE p # NoChild
  <2> DEFINE s == [sup EXCEPT !.suppress = TRUE, !.state = "stopping",
                              !.stop = "waiting", !.stopping = sup.process,
                              !.pending = @ \cup {[kind  |-> "shutdown",
                                                   child |-> sup.process]}]
  <2>1. Task(s) /\ inbox' = [inbox EXCEPT ![p] = Append(@, "shutdown")]
    BY <1>5 DEF Quit, Requested
  <2>2. /\ s.pending = sup.pending \cup {request} /\ s.process = p /\ s.suppress = TRUE
        /\ s.cycle = sup.cycle /\ s.hello = sup.hello /\ s.state = "stopping"
        /\ s.stop = "waiting" /\ s.stopping = p
        /\ s.killed = sup.killed /\ s.ended = sup.ended
    BY <1>1 DEF Fields
  <2>3. s \in Fields(spawned)
    <3>1. request \in [kind : Kinds, child : 0..spawned]
      BY <1>1 DEF Kinds
    <3>2. sup.pending \cup {request} \in SUBSET [kind : Kinds, child : 0..spawned]
      BY <1>1, <3>1 DEF Fields
    <3>3. s = [sup EXCEPT !.suppress = TRUE, !.state = "stopping", !.stop = "waiting",
                          !.stopping = p, !.pending = sup.pending \cup {request}]
      BY <1>1 DEF Fields
    <3> HIDE DEF s, request, p
    <3> QED
      BY <1>1, <3>2, <3>3 DEF Fields
  <2> HIDE DEF s
  <2>4. Waiting(s, alive, faulty)
    BY <1>3, <2>2 DEF SupervisorInvariant, Sound, Waiting
  <2>5. Sound(s, spawned, alive, faulty)
    BY <2>2, <2>3, <2>4 DEF SupervisorInvariant, Sound, Starting, Judged, Watched
  <2>6. sup' = s /\ Settled(s)
    BY <2>1, <2>2 DEF SupervisorInvariant, Settled, Task, HelloSettled, StopSettled
  <2>7. Phase'
    BY <1>2, <2>2, <2>6 DEF Phase
  <2>8. World' /\ Trusted'
    BY <1>1, <1>2, <1>3, <1>5, <2>1, <2>2, <2>6, NewRequest DEF Kinds, SupervisorInvariant
  <2> QED
    BY <1>2, <2>5, <2>6, <2>7, <2>8 DEF SupervisorInvariant, Settled
<1> QED
  BY <1>4, <1>5

\* A task of a callback: from the fields, its handler leaves s; the world but for one
\* process, and what that one still has to say, stays.
LEMMA CallbackKeeps ==
  ASSUME SupervisorInvariant, Up, NEW s, Task(s),
         Sound(s, spawned, alive, faulty'), faulty \subseteq faulty', World',
         s.suppress = sup.suppress, sup.stop = "none" => s.stop = "none",
         Spares(s),
         UNCHANGED <<app, spawned, alive>>
  PROVE  SupervisorInvariant'
<1>1. /\ Sound(sup', spawned, alive, faulty') /\ Follows(s, sup') /\ Settled(sup')
  BY NoChildIsDead, TaskSound
<1>2. Phase'
  BY <1>1, PhaseKept DEF SupervisorInvariant, Up, Follows
<1>3. Spares(sup')
  BY <1>1 DEF Follows, Spares
<1>4. Trusted'
  BY <1>3, TrustedKept DEF SupervisorInvariant
<1> QED
  BY <1>1, <1>2, <1>4 DEF SupervisorInvariant, Settled

LEMMA TerminatedKeeps ==
  ASSUME NEW c \in Child, SupervisorInvariant, Terminated(c)
  PROVE  SupervisorInvariant'
<1> DEFINE s == HandleTermination(sup, c, notice[c] = "exit 0")
<1>1. /\ Up /\ Task(s) /\ notice[c] # "none" /\ notice' = [notice EXCEPT ![c] = "none"]
      /\ UNCHANGED <<app, spawned, alive, inbox, out, done, hung, faulty>>
  BY DEF Terminated
<1>2. c \notin alive
  BY <1>1 DEF SupervisorInvariant, World
<1>3. PICK normal \in BOOLEAN : normal = (notice[c] = "exit 0")
  OBVIOUS
<1>4. s = HandleTermination(sup, c, normal)
  BY <1>3
<1> HIDE DEF s
<1>5. Sound(s, spawned, alive, faulty)
  BY <1>2, <1>4, NoChildIsDead, HandleTerminationSound DEF SupervisorInvariant, MayDie
<1>6. Follows(sup, s)
  BY <1>2, <1>4, <1>5, NoChildIsDead, HandleTerminationSound DEF SupervisorInvariant, MayDie
<1>7. World'
  BY <1>1 DEF SupervisorInvariant, World
<1>8. Spares(s)
  BY <1>1, <1>6 DEF Spares, Follows
<1> QED
  BY <1>1, <1>5, <1>6, <1>7, <1>8, CallbackKeeps DEF Follows

LEMMA WriteFailsKeeps ==
  ASSUME NEW c \in Child, SupervisorInvariant, WriteFails(c)
  PROVE  SupervisorInvariant'
<1> DEFINE R == {r \in sup.pending : r.child = c /\ r.kind = Head(inbox[c])}
           u == Reject(sup, R)
           s == FailProcess(u, c)
<1>1. /\ Up /\ Task(s) /\ c \notin alive /\ inbox[c] # <<>>
      /\ inbox' = [inbox EXCEPT ![c] = Tail(@)]
      /\ UNCHANGED <<app, spawned, alive, out, notice, done, hung, faulty>>
  BY DEF WriteFails
<1>2. \A r \in R : r \in sup.pending /\ r.child = c /\ MayDie(r.child, alive, faulty)
  BY <1>1 DEF MayDie
<1> HIDE DEF R
<1>3. Sound(u, spawned, alive, faulty)
  BY <1>2, NoChildIsDead, RejectSound DEF SupervisorInvariant
<1>4. /\ u.process = sup.process /\ u.suppress = sup.suppress /\ u.pending = sup.pending \ R
      /\ sup.stop = "none" => u.stop = "none"
  BY <1>2, <1>3, NoChildIsDead, RejectSound DEF SupervisorInvariant
<1> HIDE DEF u
<1>5. Sound(s, spawned, alive, faulty)
  BY <1>1, <1>3, NoChildIsDead, FailProcessSound DEF MayDie
<1>6. Follows(u, s)
  BY <1>1, <1>3, <1>5, NoChildIsDead, FailProcessSound DEF MayDie
<1> HIDE DEF s
<1>7. World'
  <2>1. inbox \in [Child -> Seq(Kinds)] /\ inbox[c] \in Seq(Kinds)
    BY DEF SupervisorInvariant, World
  <2>2. Tail(inbox[c]) \in Seq(Kinds)
    BY <1>1, <2>1, HeadTailProperties
  <2>3. inbox' \in [Child -> Seq(Kinds)]
    BY <1>1, <2>1, <2>2
  <2>4. ASSUME NEW d \in Child, d > spawned PROVE inbox'[d] = <<>>
    BY <1>1, <2>1, <2>4 DEF SupervisorInvariant, World
  <2> QED
    BY <1>1, <2>3, <2>4 DEF SupervisorInvariant, World
<1>8. Spares(s)
  <2>1. sup.process \in Child \ {c} => inbox'[sup.process] = inbox[sup.process]
    BY <1>1 DEF SupervisorInvariant, World
  <2>2. sup.process # c => \A r \in sup.pending : r.child = sup.process => r \in u.pending
    BY <1>2, <1>4
  <2> QED
    BY <1>1, <1>4, <1>6, <2>1, <2>2 DEF Spares, Follows
<1> QED
  BY <1>1, <1>4, <1>5, <1>6, <1>7, <1>8, CallbackKeeps DEF Follows

LEMMA TimeoutKeeps ==
  ASSUME NEW r \in Requests, SupervisorInvariant, Timeout(r)
  PROVE  SupervisorInvariant'
<1> DEFINE c == r.child
           R == {r}
           u == Reject(sup, R)
           s == FailProcess(u, c)
<1>1. /\ Up /\ Task(s) /\ r \in sup.pending /\ faulty \subseteq faulty'
      /\ Overdue(r) \/ c \in faulty'
      /\ UNCHANGED <<app, spawned, alive, inbox, out, notice, done, hung>>
  BY DEF Timeout, TimedOut, kids, Fault
<1>2. MayDie(c, alive, faulty')
  <2>1. CASE Overdue(r)
    BY <1>1, <2>1 DEF Overdue, MayDie, SupervisorInvariant, World, Sound, Waiting, IsActive
  <2>2. CASE c \in faulty'
    BY <2>2 DEF MayDie
  <2> QED
    BY <1>1, <2>1, <2>2
<1>3. \A q \in R : q \in sup.pending /\ q.child = c /\ MayDie(q.child, alive, faulty')
  BY <1>1, <1>2
<1>4. Sound(sup, spawned, alive, faulty')
  BY <1>1, SoundMonotone DEF SupervisorInvariant
<1> HIDE DEF R, c
<1>5. Sound(u, spawned, alive, faulty')
  BY <1>3, <1>4, NoChildIsDead, RejectSound
<1>6. /\ u.process = sup.process /\ u.suppress = sup.suppress /\ u.pending = sup.pending \ R
      /\ sup.stop = "none" => u.stop = "none"
  BY <1>3, <1>4, <1>5, NoChildIsDead, RejectSound
<1> HIDE DEF u
<1>7. Sound(s, spawned, alive, faulty')
  BY <1>2, <1>5, NoChildIsDead, FailProcessSound
<1>8. Follows(u, s)
  BY <1>2, <1>5, <1>7, NoChildIsDead, FailProcessSound
<1> HIDE DEF s
<1>9. World'
  BY <1>1 DEF SupervisorInvariant, World
<1>10. Spares(s)
  <2>1. sup.process \in alive' \ faulty' => c # sup.process
    BY <1>1, <1>2 DEF MayDie
  <2>2. c # sup.process => \A q \in sup.pending : q.child = sup.process => q \in u.pending
    BY <1>3, <1>6
  <2> QED
    BY <1>1, <1>6, <1>8, <2>1, <2>2 DEF Spares, Follows
<1> QED
  BY <1>1, <1>6, <1>7, <1>8, <1>9, <1>10, CallbackKeeps DEF Follows

\* A chunk of output: what it holds is taken from what the process has written.
LEMMA DeliverKeeps ==
  ASSUME NEW c \in Child, SupervisorInvariant, Deliver(c)
  PROVE  SupervisorInvariant'
<1>1. PICK n \in 1..ChunkLines :
        /\ n <= Len(out[c]) /\ Task(AfterLines(c, n))
        /\ out' = [out EXCEPT ![c] = SubSeq(@, n + 1, Len(@))]
  BY DEF Deliver
<1>2. /\ Up /\ UNCHANGED <<app, spawned, alive, inbox, notice, done, hung, faulty>>
  BY DEF Deliver
<1> DEFINE s == AfterLines(c, n)
           rest == SubSeq(out[c], n + 1, Len(out[c]))
<1>3. n \in Nat /\ n >= 1
  BY SupervisorAssumption
<1>4. /\ Sound(s, spawned, alive, faulty)
      /\ s.suppress = sup.suppress
      /\ sup.stop = "none" => s.stop = "none"
      /\ s.process \in {sup.process, NoChild}
      /\ sup.process # c => s = sup
      /\ sup.process = c /\ Innocent(c) => s.process = c /\ Owed(s, c, n)
  BY <1>1, <1>3, AfterLinesSound
<1> HIDE DEF s
<1>5. /\ out \in [Child -> Seq(Lines)] /\ out[c] \in Seq(Lines)
      /\ Len(out[c]) \in Nat /\ out'[c] = rest
  <2>1. out \in [Child -> Seq(Lines)]
    BY DEF SupervisorInvariant, World
  <2> QED
    BY <1>1, <2>1, LenProperties
<1>6. /\ rest \in Seq(Lines) /\ Len(rest) = Len(out[c]) - n
      /\ \A i \in 1..(Len(out[c]) - n) : rest[i] = out[c][n + i]
  <2>1. \A i \in (n + 1)..Len(out[c]) : out[c][i] \in Lines
    BY <1>3, <1>5, LenProperties
  <2>2. /\ SubSeq(out[c], n + 1, Len(out[c])) \in Seq(Lines)
        /\ Len(SubSeq(out[c], n + 1, Len(out[c]))) =
             IF n + 1 <= Len(out[c]) THEN Len(out[c]) - (n + 1) + 1 ELSE 0
        /\ \A i \in 1..(Len(out[c]) - (n + 1) + 1) :
             SubSeq(out[c], n + 1, Len(out[c]))[i] = out[c][(n + 1) + i - 1]
    BY <1>3, <1>5, <2>1, SubSeqProperties
  <2> HIDE DEF rest
  <2> QED
    BY <1>1, <1>3, <1>5, <2>2 DEF rest
<1>7. World'
  <2>1. out' \in [Child -> Seq(Lines)]
    BY <1>1, <1>5, <1>6
  <2>2. ASSUME NEW d \in Child, d > spawned PROVE out'[d] = <<>>
    <3>1. out[d] = <<>> /\ Len(<<>>) = 0
      BY <2>2 DEF SupervisorInvariant, World
    <3>2. d # c
      BY <1>1, <1>3, <3>1
    <3> QED
      BY <1>1, <1>5, <3>1, <3>2
  <2>3. ASSUME NEW d \in Child, NEW i \in 1..Len(out'[d]), out'[d][i].kind = "bad"
        PROVE  ~out'[d][i].genuine
    <3>1. CASE d = c
      <4>1. n + i \in 1..Len(out[c]) /\ out'[d][i] = out[c][n + i]
        BY <1>1, <1>3, <1>5, <1>6, <3>1
      <4> QED
        BY <2>3, <4>1 DEF SupervisorInvariant, World
    <3>2. CASE d # c
      <4>1. out'[d] = out[d]
        BY <1>1, <1>5, <3>2
      <4> QED
        BY <2>3, <4>1 DEF SupervisorInvariant, World
    <3> QED
      BY <3>1, <3>2
  <2> QED
    BY <1>2, <2>1, <2>2, <2>3 DEF SupervisorInvariant, World
<1>8. CASE sup.process # c
  <2>1. sup.process \in Child => out'[sup.process] = out[sup.process]
    BY <1>1, <1>5, <1>8
  <2>2. Spares(s)
    BY <1>2, <1>4, <1>8, <2>1 DEF Spares
  <2> QED
    BY <1>1, <1>2, <1>4, <1>7, <2>2, CallbackKeeps DEF s
<1>9. CASE sup.process = c
  <2>1. /\ Sound(sup', spawned, alive, faulty) /\ Follows(s, sup') /\ Settled(sup')
    BY <1>1, <1>4, NoChildIsDead, TaskSound DEF s
  <2>2. Phase'
    BY <1>2, <1>4, <2>1, PhaseKept DEF SupervisorInvariant, Up, Follows
  <2>3. Trusted'
    <3> SUFFICES ASSUME Innocent(sup.process)'
                 PROVE  Owed(sup, sup.process, 0)' /\ Once(sup.process, 0)'
      BY DEF Trusted
    <3>1. sup'.process = c /\ Innocent(c) /\ sup'.pending = s.pending
      BY <1>2, <1>4, <1>9, <2>1 DEF Innocent, Follows, Child, NoChild
    <3>2. Owed(s, c, n) /\ Once(c, 0)
      BY <1>4, <1>9, <3>1 DEF SupervisorInvariant, Trusted
    <3>3. ASSUME NEW i \in (0 + 1)..Len(out'[c])
          PROVE  out'[c][i] = out[c][n + i] /\ n + i \in (n + 1)..Len(out[c])
                 /\ n + i \in (0 + 1)..Len(out[c])
      BY <1>1, <1>3, <1>5, <1>6
    <3>4. Owed(sup, sup.process, 0)'
      BY <1>2, <3>1, <3>2, <3>3 DEF Owed
    <3>5. Once(sup.process, 0)'
      <4>1. ASSUME NEW i \in (0 + 1)..Len(out'[c]), NEW j \in (0 + 1)..Len(out'[c]),
                   out'[c][i].kind = out'[c][j].kind
            PROVE  i = j
        <5>1. PICK a \in (0 + 1)..Len(out[c]) : a = n + i /\ out'[c][i] = out[c][a]
          BY <3>3
        <5>2. PICK b \in (0 + 1)..Len(out[c]) : b = n + j /\ out'[c][j] = out[c][b]
          BY <3>3
        <5>3. a = b
          BY <3>2, <4>1, <5>1, <5>2 DEF Once
        <5> QED
          BY <1>3, <1>5, <1>6, <5>1, <5>2, <5>3
      <4>2. ASSUME NEW i \in (0 + 1)..Len(out'[c]), NEW j \in 1..Len(inbox[c])
            PROVE  out'[c][i].kind # inbox[c][j]
        <5>1. PICK a \in (0 + 1)..Len(out[c]) : out'[c][i] = out[c][a]
          BY <3>3
        <5> QED
          BY <3>2, <5>1 DEF Once
      <4> QED
        BY <1>2, <3>1, <3>2, <4>1, <4>2 DEF Once
    <3> QED
      BY <3>4, <3>5
  <2> QED
    BY <1>2, <1>7, <2>1, <2>2, <2>3 DEF SupervisorInvariant, Settled
<1> QED
  BY <1>8, <1>9

LEMMA AliveIsSpawned ==
  ASSUME SupervisorInvariant, NEW c \in alive
  PROVE  /\ c \in Nat /\ spawned \in Nat /\ c <= spawned
         /\ ~(c > spawned)
<1>1. spawned \in Nat /\ alive \subseteq 1..spawned
  BY DEF SupervisorInvariant, World
<1>2. c \in 1..spawned
  BY <1>1
<1> QED
  BY <1>1, <1>2

\* A process reads a command and answers it.
LEMMA AnswerKeeps ==
  ASSUME NEW c \in Child, SupervisorInvariant, Answer(c)
  PROVE  SupervisorInvariant'
<1> DEFINE line == [kind |-> Head(inbox[c]), genuine |-> TRUE]
<1>1. /\ c \in alive /\ inbox[c] # <<>>
      /\ out' = [out EXCEPT ![c] = Append(@, line)]
      /\ inbox' = [inbox EXCEPT ![c] = Tail(@)]
      /\ done' \in {done, done \cup {c}}
      /\ UNCHANGED <<sup, app, spawned, alive, notice, hung, faulty>>
  BY DEF Answer, Emits
<1>2. /\ out \in [Child -> Seq(Lines)] /\ inbox \in [Child -> Seq(Kinds)]
      /\ spawned \in Nat /\ c <= spawned /\ c \in Nat
  BY <1>1, AliveIsSpawned DEF SupervisorInvariant, World
<1>3. /\ Len(out[c]) \in Nat /\ Len(inbox[c]) \in Nat /\ out'[c] = Append(out[c], line)
      /\ inbox'[c] = Tail(inbox[c])
  BY <1>1, <1>2, LenProperties
<1>4. /\ Head(inbox[c]) \in Kinds /\ Head(inbox[c]) = inbox[c][1] /\ Len(inbox[c]) # 0
      /\ inbox'[c] \in Seq(Kinds) /\ Len(inbox'[c]) = Len(inbox[c]) - 1
      /\ \A i \in 1..Len(inbox'[c]) : inbox'[c][i] = inbox[c][i + 1]
  BY <1>1, <1>2, <1>3, HeadTailProperties, EmptySeq, LenProperties
<1>5. line \in Lines /\ line.genuine /\ line.kind # "bad"
  BY <1>4, SupervisorAssumption DEF Lines, Kinds
<1>6. /\ out'[c] \in Seq(Lines) /\ Len(out'[c]) = Len(out[c]) + 1
      /\ out'[c][Len(out[c]) + 1] = line
      /\ \A i \in 1..Len(out[c]) : out'[c][i] = out[c][i]
  BY <1>2, <1>3, <1>5, AppendProperties
<1>7. ASSUME NEW d \in Child, d # c PROVE out'[d] = out[d] /\ inbox'[d] = inbox[d]
  BY <1>1, <1>2, <1>7
<1> HIDE DEF line
<1>8. World'
  <2>1. out' \in [Child -> Seq(Lines)] /\ inbox' \in [Child -> Seq(Kinds)]
    BY <1>1, <1>2, <1>3, <1>4, <1>6
  <2>2. ASSUME NEW d \in Child, NEW i \in 1..Len(out'[d]), out'[d][i].kind = "bad"
        PROVE  ~out'[d][i].genuine
    <3>1. CASE d # c
      BY <1>7, <2>2, <3>1 DEF SupervisorInvariant, World
    <3>2. CASE d = c /\ i \in 1..Len(out[c])
      BY <1>6, <2>2, <3>2 DEF SupervisorInvariant, World
    <3>3. CASE d = c /\ i = Len(out[c]) + 1
      BY <1>5, <1>6, <2>2, <3>3
    <3> QED
      BY <1>3, <1>6, <3>1, <3>2, <3>3
  <2>3. ASSUME NEW d \in Child, d > spawned PROVE out'[d] = <<>> /\ inbox'[d] = <<>>
    <3>1. d # c
      BY <1>2, <2>3 DEF Child
    <3> QED
      BY <1>7, <2>3, <3>1 DEF SupervisorInvariant, World
  <2>4. done' \subseteq Nat
    BY <1>1, <1>2 DEF SupervisorInvariant, World
  <2> QED
    BY <1>1, <2>1, <2>2, <2>3, <2>4 DEF SupervisorInvariant, World
<1>9. Trusted'
  <2>1. CASE sup.process # c
    <3>1. Spares(sup')
      BY <1>1, <1>7, <2>1 DEF Spares
    <3> QED
      BY <1>1, <3>1, TrustedKept DEF SupervisorInvariant
  <2>2. CASE sup.process = c
    <3> SUFFICES ASSUME Innocent(c)
                 PROVE  Owed(sup, sup.process, 0)' /\ Once(sup.process, 0)'
      BY <1>1, <2>2 DEF Trusted, Innocent
    <3>1. Owed(sup, c, 0) /\ Once(c, 0)
      BY <2>2 DEF SupervisorInvariant, Trusted
    <3>2. \A i \in (0 + 1)..Len(out'[c]) : i = Len(out[c]) + 1 \/ i \in (0 + 1)..Len(out[c])
      BY <1>3, <1>6
    <3>3. \A i \in 1..Len(inbox'[c]) : i + 1 \in 1..Len(inbox[c]) /\ i + 1 # 1
      BY <1>3, <1>4
    <3>4. line.kind = inbox[c][1] /\ 1 \in 1..Len(inbox[c])
      BY <1>3, <1>4 DEF line
    <3>5. ASSUME NEW i \in (0 + 1)..Len(out'[c])
          PROVE  out'[c][i].genuine /\ [kind |-> out'[c][i].kind, child |-> c] \in sup.pending
      <4>1. CASE i = Len(out[c]) + 1
        BY <1>5, <1>6, <3>1, <3>4, <4>1 DEF Owed
      <4>2. CASE i \in (0 + 1)..Len(out[c])
        <5>1. out'[c][i] = out[c][i]
          BY <1>6, <4>2
        <5> QED
          BY <3>1, <4>2, <5>1 DEF Owed
      <4> QED
        BY <3>2, <4>1, <4>2
    <3>6. Owed(sup, sup.process, 0)'
      <4>1. ASSUME NEW i \in 1..Len(inbox'[c])
            PROVE  [kind |-> inbox'[c][i], child |-> c] \in sup.pending
        <5>1. PICK j \in 1..Len(inbox[c]) : inbox'[c][i] = inbox[c][j]
          BY <1>4, <3>3
        <5> QED
          BY <3>1, <5>1 DEF Owed
      <4> QED
        BY <1>1, <2>2, <3>5, <4>1 DEF Owed
    <3>7. ASSUME NEW i \in (0 + 1)..Len(out'[c]), NEW j \in (0 + 1)..Len(out'[c]),
                 out'[c][i].kind = out'[c][j].kind
          PROVE  i = j
      <4>1. \A k \in (0 + 1)..Len(out[c]) : out'[c][k] = out[c][k] /\ out[c][k].kind # line.kind
        BY <1>6, <3>1, <3>4 DEF Once
      <4>2. CASE i \in (0 + 1)..Len(out[c]) /\ j \in (0 + 1)..Len(out[c])
        BY <3>1, <3>7, <4>1, <4>2 DEF Once
      <4> QED
        BY <1>6, <3>2, <3>7, <4>1, <4>2
    <3>8. ASSUME NEW i \in 1..Len(inbox'[c]), NEW j \in 1..Len(inbox'[c]),
                 inbox'[c][i] = inbox'[c][j]
          PROVE  i = j
      <4>1. i + 1 = j + 1
        BY <1>4, <3>1, <3>3, <3>8 DEF Once
      <4> QED
        BY <1>3, <1>4, <4>1
    <3>9. ASSUME NEW i \in (0 + 1)..Len(out'[c]), NEW j \in 1..Len(inbox'[c])
          PROVE  out'[c][i].kind # inbox'[c][j]
      <4>1. PICK k \in 1..Len(inbox[c]) : inbox'[c][j] = inbox[c][k] /\ k # 1
        BY <1>4, <3>3
      <4>2. CASE i = Len(out[c]) + 1
        BY <1>6, <3>1, <3>4, <4>1, <4>2 DEF Once
      <4>3. CASE i \in (0 + 1)..Len(out[c])
        <5>1. out'[c][i] = out[c][i]
          BY <1>6, <4>3
        <5> QED
          BY <3>1, <4>1, <4>3, <5>1 DEF Once
      <4> QED
        BY <3>2, <4>2, <4>3
    <3>10. Once(sup.process, 0)'
      <4>1. sup'.process = c
        BY <1>1, <2>2
      <4>2. /\ \A i, j \in (0 + 1)..Len(out'[c]) : out'[c][i].kind = out'[c][j].kind => i = j
            /\ \A i, j \in 1..Len(inbox'[c]) : inbox'[c][i] = inbox'[c][j] => i = j
            /\ \A i \in (0 + 1)..Len(out'[c]), j \in 1..Len(inbox'[c]) :
                 out'[c][i].kind # inbox'[c][j]
        BY <3>7, <3>8, <3>9
      <4> QED
        BY <4>1, <4>2 DEF Once
    <3> QED
      BY <3>6, <3>10
  <2> QED
    BY <2>1, <2>2
<1>10. Phase'
  BY <1>1 DEF SupervisorInvariant, Phase
<1> QED
  BY <1>1, <1>8, <1>9, <1>10 DEF SupervisorInvariant, Settled

\* A step of a process that is not, or is no longer, an innocent one.
LEMMA FallenKeeps ==
  ASSUME SupervisorInvariant, World', NEW c, c \notin alive' \/ c \in faulty',
         alive' \subseteq alive, faulty \subseteq faulty',
         \A d \in Child \ {c} : out'[d] = out[d] /\ inbox'[d] = inbox[d],
         UNCHANGED <<sup, app, spawned>>
  PROVE  SupervisorInvariant'
<1>1. Sound(sup, spawned, alive', faulty')
  BY SoundMonotone DEF SupervisorInvariant
<1>2. Spares(sup')
  BY DEF Spares
<1>3. Trusted' /\ Phase'
  BY <1>2, TrustedKept DEF SupervisorInvariant, Phase
<1> QED
  BY <1>1, <1>3 DEF SupervisorInvariant, Settled

\* A process ends, and its exit is still to be noticed.
LEMMA ExitWritten ==
  ASSUME SupervisorInvariant, NEW c \in Child, NEW how \in {"exit 0", "exit 1"}, c \in alive,
         alive' = alive \ {c}, notice' = [notice EXCEPT ![c] = how],
         faulty \subseteq faulty', UNCHANGED <<spawned, inbox, out, done, hung>>
  PROVE  World'
<1>1. ~(c > spawned)
  BY AliveIsSpawned
<1>2. notice \in [Child -> {"none", "exit 0", "exit 1", "error"}]
  BY DEF SupervisorInvariant, World
<1>3. notice' \in [Child -> {"none", "exit 0", "exit 1", "error"}]
  BY <1>2
<1>4. ASSUME NEW d \in Child, d > spawned PROVE notice'[d] = "none"
  <2>1. notice[d] = "none"
    BY <1>4 DEF SupervisorInvariant, World
  <2>2. d # c
    BY <1>1, <1>4, Zenon
  <2> QED
    BY <1>2, <2>1, <2>2
<1>5. ASSUME NEW d \in Child, notice'[d] # "none" PROVE d \notin alive'
  BY <1>2, <1>5 DEF SupervisorInvariant, World
<1> QED
  BY <1>3, <1>4, <1>5 DEF SupervisorInvariant, World

\* A line that is not genuine is written by a process that runs.
LEMMA LineWritten ==
  ASSUME SupervisorInvariant, NEW c \in Child, c \in alive,
         NEW line \in Lines, ~line.genuine, out' = [out EXCEPT ![c] = Append(@, line)],
         inbox' \in [Child -> Seq(Kinds)], \A d \in Child \ {c} : inbox'[d] = inbox[d],
         faulty \subseteq faulty', UNCHANGED <<spawned, alive, notice, done, hung>>
  PROVE  World' /\ \A d \in Child \ {c} : out'[d] = out[d]
<1>1. /\ out \in [Child -> Seq(Lines)] /\ spawned \in Nat
      /\ c \in Nat /\ c <= spawned
  BY AliveIsSpawned DEF SupervisorInvariant, World
<1>2. out[c] \in Seq(Lines) /\ Len(out[c]) \in Nat /\ out'[c] = Append(out[c], line)
  BY <1>1, LenProperties
<1>3. /\ out'[c] \in Seq(Lines) /\ Len(out'[c]) = Len(out[c]) + 1
      /\ out'[c][Len(out[c]) + 1] = line
      /\ \A i \in 1..Len(out[c]) : out'[c][i] = out[c][i]
  BY <1>2, AppendProperties
<1>4. \A d \in Child \ {c} : out'[d] = out[d]
  BY <1>1
<1>5. out' \in [Child -> Seq(Lines)]
  BY <1>1, <1>2, <1>3
<1>6. ASSUME NEW d \in Child, NEW i \in 1..Len(out'[d]), out'[d][i].kind = "bad"
      PROVE  ~out'[d][i].genuine
  <2>1. CASE d # c
    BY <1>4, <1>6, <2>1 DEF SupervisorInvariant, World
  <2>2. CASE d = c /\ i \in 1..Len(out[c])
    BY <1>3, <1>6, <2>2 DEF SupervisorInvariant, World
  <2>3. CASE d = c /\ i = Len(out[c]) + 1
    BY <1>3, <2>3
  <2> QED
    BY <1>2, <1>3, <2>1, <2>2, <2>3
<1>7. ASSUME NEW d \in Child, d > spawned PROVE out'[d] = <<>> /\ inbox'[d] = <<>>
  <2>1. d # c
    BY <1>1, <1>7 DEF Child
  <2> QED
    BY <1>4, <1>7, <2>1 DEF SupervisorInvariant, World
<1> QED
  BY <1>4, <1>5, <1>6, <1>7 DEF SupervisorInvariant, World

LEMMA LeaveKeeps ==
  ASSUME NEW c \in Child, SupervisorInvariant, Leave(c)
  PROVE  SupervisorInvariant'
<1>1. PICK how \in {"exit 0", "exit 1"} :
        alive' = alive \ {c} /\ notice' = [notice EXCEPT ![c] = how]
  BY DEF Leave, Exits
<1>2. UNCHANGED <<sup, app, spawned, inbox, out, done, hung, faulty>>
  BY DEF Leave
<1>3. c \in alive
  BY DEF Leave, Exits
<1>4. World'
  BY <1>1, <1>2, <1>3, ExitWritten
<1> QED
  BY <1>1, <1>2, <1>4, FallenKeeps

LEMMA MisbehaveKeeps ==
  ASSUME NEW c \in Child, SupervisorInvariant, Misbehave(c)
  PROVE  SupervisorInvariant'
<1>1. c \in alive /\ faulty' = faulty \cup {c} /\ UNCHANGED <<sup, app, spawned, done>>
  BY DEF Misbehave, Fault
<1>2. /\ out \in [Child -> Seq(Lines)] /\ inbox \in [Child -> Seq(Kinds)]
      /\ spawned \in Nat /\ c <= spawned /\ c \in Nat
  BY <1>1, AliveIsSpawned DEF SupervisorInvariant, World
<1>3. CASE UNCHANGED <<alive, notice, hung>> /\ inbox[c] # <<>>
           /\ Emits(c, [kind |-> "hello", genuine |-> FALSE])
           /\ inbox' = [inbox EXCEPT ![c] = Tail(@)]
  <2> DEFINE line == [kind |-> "hello", genuine |-> FALSE]
  <2>1. line \in Lines /\ ~line.genuine /\ out' = [out EXCEPT ![c] = Append(@, line)]
    BY <1>3 DEF Emits, Lines, Kinds
  <2> HIDE DEF line
  <2>2. Tail(inbox[c]) \in Seq(Kinds)
    BY <1>2, <1>3, HeadTailProperties
  <2>3. inbox' \in [Child -> Seq(Kinds)] /\ \A d \in Child \ {c} : inbox'[d] = inbox[d]
    BY <1>2, <1>3, <2>2
  <2> QED
    BY <1>1, <1>2, <1>3, <2>1, <2>3, LineWritten, FallenKeeps
<1>4. CASE UNCHANGED <<alive, notice, inbox, hung>>
           /\ Emits(c, [kind |-> "bad", genuine |-> FALSE])
  <2> DEFINE line == [kind |-> "bad", genuine |-> FALSE]
  <2>1. line \in Lines /\ ~line.genuine /\ out' = [out EXCEPT ![c] = Append(@, line)]
    BY <1>4 DEF Emits, Lines, Kinds
  <2> HIDE DEF line
  <2> QED
    BY <1>1, <1>2, <1>4, <2>1, LineWritten, FallenKeeps
<1>5. CASE (\E how \in {"exit 0", "exit 1"} : Exits(c, how)) /\ UNCHANGED <<inbox, out, hung>>
  <2>1. PICK how \in {"exit 0", "exit 1"} :
          alive' = alive \ {c} /\ notice' = [notice EXCEPT ![c] = how]
    BY <1>5 DEF Exits
  <2>2. World'
    BY <1>1, <1>5, <2>1, ExitWritten
  <2> QED
    BY <1>1, <1>5, <2>1, <2>2, FallenKeeps
<1>6. CASE hung' = hung \cup {c} /\ UNCHANGED <<alive, notice, inbox, out>>
  <2>1. World'
    BY <1>1, <1>6 DEF SupervisorInvariant, World
  <2> QED
    BY <1>1, <1>6, <2>1, FallenKeeps
<1> QED
  BY <1>3, <1>4, <1>5, <1>6 DEF Misbehave

\* A delay that is over: the start is given up, or a process is spawned.
LEMMA DelayOverKeeps == SupervisorInvariant /\ DelayOver => SupervisorInvariant'
<1> SUFFICES ASSUME SupervisorInvariant, DelayOver PROVE SupervisorInvariant'
  OBVIOUS
<1>1. /\ Up /\ sup.cycle # 0 /\ sup.hello = "none" /\ UNCHANGED <<app, done, hung, out, calls>>
      /\ sup.process = NoChild /\ sup \in Fields(spawned)
      /\ NoChild \notin alive /\ spawned \in Nat
  BY NoChildIsDead DEF DelayOver, SupervisorInvariant, Sound, Starting
<1>2. CASE /\ sup.suppress
           /\ Task([sup EXCEPT !.state = "stopped", !.tries = 0, !.cycle = 0])
           /\ UNCHANGED <<spawned, alive, inbox, notice, faulty, faults>>
  <2> DEFINE s == [sup EXCEPT !.state = "stopped", !.tries = 0, !.cycle = 0]
  <2>1. /\ s \in Fields(spawned) /\ s.pending = sup.pending /\ s.process = NoChild
        /\ s.suppress = sup.suppress /\ s.cycle = 0 /\ s.hello = "none"
        /\ s.stop = sup.stop /\ s.stopping = sup.stopping
        /\ s.killed = sup.killed /\ s.ended = sup.ended
    BY <1>1 DEF Fields
  <2>2. Task(s)
    BY <1>2
  <2> HIDE DEF s
  <2>3. Sound(s, spawned, alive, faulty)
    BY <1>1, <2>1 DEF SupervisorInvariant, Sound, Starting, Waiting, Judged, Watched
  <2>4. Spares(s)
    BY <2>1 DEF Spares
  <2>5. World'
    BY <1>1, <1>2 DEF SupervisorInvariant, World
  <2> QED
    BY <1>1, <1>2, <2>1, <2>2, <2>3, <2>4, <2>5, CallbackKeeps
<1>3. CASE /\ ~sup.suppress /\ Fault(NoChild)
           /\ Task([sup EXCEPT !.hello = "lost"])
           /\ UNCHANGED <<spawned, alive, inbox, notice>>
  <2> DEFINE s == [sup EXCEPT !.hello = "lost"]
  <2>1. /\ s \in Fields(spawned) /\ s.pending = sup.pending /\ s.process = NoChild
        /\ s.suppress = sup.suppress /\ s.cycle = sup.cycle /\ s.hello = "lost"
        /\ s.stop = sup.stop /\ s.stopping = sup.stopping
        /\ s.killed = sup.killed /\ s.ended = sup.ended
    BY <1>1 DEF Fields
  <2>2. Task(s) /\ faulty \subseteq faulty'
    BY <1>3 DEF Fault
  <2> HIDE DEF s
  <2>3. Sound(sup, spawned, alive, faulty')
    BY <2>2, SoundMonotone DEF SupervisorInvariant
  <2>4. Waiting(s, alive, faulty')
    BY <1>1, <2>1, <2>3 DEF Sound, Waiting
  <2>5. Sound(s, spawned, alive, faulty')
    BY <1>1, <2>1, <2>3, <2>4 DEF Sound, Starting, Judged, Watched, MayDie
  <2>6. Spares(s)
    BY <2>1 DEF Spares
  <2>7. World'
    BY <1>1, <1>3, <2>2 DEF SupervisorInvariant, World
  <2> QED
    BY <1>1, <1>3, <2>1, <2>2, <2>5, <2>6, <2>7, CallbackKeeps
<1>4. ASSUME NEW c, c = spawned + 1, ~sup.suppress, spawned' = c,
             Task([sup EXCEPT !.process = c, !.hello = "waiting",
                              !.pending = @ \cup {[kind |-> "hello", child |-> c]}]),
             Requested(c, "hello"),
             \/ alive' = alive \cup {c} /\ UNCHANGED <<notice, faulty, faults>>
             \/ /\ Fault(c)
                /\ notice' = [notice EXCEPT ![c] = "error"] /\ UNCHANGED alive
      PROVE  SupervisorInvariant'
  <2> DEFINE request == [kind |-> "hello", child |-> c]
             s == [sup EXCEPT !.process = c, !.hello = "waiting",
                              !.pending = @ \cup {request}]
  <2>1. /\ c \in Nat /\ c \in 0..c /\ c # NoChild /\ c > spawned
        /\ \A n \in 0..spawned : n \in 0..c /\ n # c
    BY <1>1, <1>4 DEF NoChild
  <2>2. /\ s.pending = sup.pending \cup {request} /\ s.process = c
        /\ s.suppress = sup.suppress /\ s.cycle = sup.cycle /\ s.hello = "waiting"
        /\ s.stop = sup.stop /\ s.stopping = sup.stopping
        /\ s.killed = sup.killed /\ s.ended = sup.ended
    BY <1>1 DEF Fields
  <2>3. s \in Fields(c)
    <3>1. request \in [kind : Kinds, child : 0..c]
      BY <2>1 DEF Kinds
    <3>2. sup \in Fields(c)
      <4>1. sup.pending \in SUBSET [kind : Kinds, child : 0..c]
        <5>1. \A r \in [kind : Kinds, child : 0..spawned] : r \in [kind : Kinds, child : 0..c]
          BY <2>1
        <5> QED
          BY <1>1, <5>1 DEF Fields
      <4>2. sup.process \in 0..c /\ sup.stopping \in 0..c /\ sup.killed \in SUBSET (0..c)
        BY <1>1, <2>1 DEF Fields
      <4> QED
        BY <1>1, <4>1, <4>2 DEF Fields
    <3>3. sup.pending \cup {request} \in SUBSET [kind : Kinds, child : 0..c]
      BY <3>1, <3>2 DEF Fields
    <3>4. s = [sup EXCEPT !.process = c, !.hello = "waiting",
                          !.pending = sup.pending \cup {request}]
      BY <1>1 DEF Fields
    <3> HIDE DEF s, request
    <3> QED
      BY <2>1, <3>2, <3>3, <3>4 DEF Fields
  <2>4. Task(s) /\ inbox' = [inbox EXCEPT ![c] = Append(@, "hello")]
    BY <1>4 DEF Requested
  <2>5. sup.stop = "none" /\ app = "up"
    BY <1>1, <1>4 DEF Up, SupervisorInvariant, Phase
  <2> HIDE DEF s
  <2>6. sup' = s /\ Settled(s)
    BY <2>2, <2>4, <2>5 DEF SupervisorInvariant, Settled, Task, HelloSettled, StopSettled
  <2>7. /\ alive' \subseteq alive \cup {c} /\ faulty \subseteq faulty'
        /\ c \notin alive /\ NoChild \notin alive'
    <3>1. c \notin alive
      BY <1>1, <1>4, AliveIsSpawned
    <3> QED
      BY <1>1, <1>4, <2>1, <3>1 DEF Fault
  <2>8. ASSUME NEW r \in sup.pending PROVE MayDie(r.child, alive', faulty')
    <3>1. r.child # c
      <4>1. r.child \in 0..spawned
        BY <1>1 DEF Fields
      <4> QED
        BY <2>1, <4>1
    <3>2. r.child = NoChild \/ MayDie(r.child, alive, faulty)
      BY <1>1 DEF SupervisorInvariant, Sound, Waiting
    <3> QED
      BY <2>7, <3>1, <3>2 DEF MayDie
  <2>9. Waiting(s, alive', faulty')
    <3>1. \A r \in sup.pending : r.kind # "hello" /\ r.kind # "shutdown"
      BY <1>1, <2>5 DEF SupervisorInvariant, Sound, Waiting
    <3> QED
      BY <2>2, <2>8, <3>1 DEF Waiting
  <2>10. Watched(s, alive', faulty')
    <3>1. c \notin sup.killed
      BY <1>1, <2>1 DEF Fields
    <3> QED
      BY <1>1, <2>2, <2>7, <3>1 DEF SupervisorInvariant, Sound, Watched
  <2>11. Sound(s, c, alive', faulty')
    BY <1>1, <2>1, <2>2, <2>3, <2>5, <2>9, <2>10 DEF Sound, Starting, Judged
  <2>12. Phase'
    BY <1>1, <1>4, <2>2, <2>5, <2>6 DEF SupervisorInvariant, Phase
  <2>13. inbox \in [Child -> Seq(Kinds)] /\ inbox' \in [Child -> Seq(Kinds)]
    <3>1. inbox \in [Child -> Seq(Kinds)]
      BY DEF SupervisorInvariant, World
    <3>2. c \in Child => Append(inbox[c], "hello") \in Seq(Kinds)
      BY <3>1, AppendProperties DEF Kinds
    <3> QED
      BY <2>4, <3>1, <3>2
  <2>14. World'
    <3>1. ASSUME NEW d \in Child, d > spawned' PROVE out'[d] = <<>> /\ inbox'[d] = <<>> /\ notice'[d] = "none"
      <4>1. d > spawned /\ d # c
        BY <1>1, <1>4, <3>1 DEF Child
      <4> QED
        <5>1. notice \in [Child -> {"none", "exit 0", "exit 1", "error"}] /\ notice[d] = "none"
          BY <4>1 DEF SupervisorInvariant, World
        <5>2. notice'[d] = "none"
          BY <1>4, <4>1, <5>1
        <5>3. out[d] = <<>> /\ inbox[d] = <<>>
          BY <4>1 DEF SupervisorInvariant, World
        <5> QED
          BY <1>1, <2>4, <2>13, <4>1, <5>2, <5>3
    <3>2. alive' \subseteq 1..spawned' /\ spawned' \in Nat
      <4>1. alive \subseteq 1..spawned
        BY DEF SupervisorInvariant, World
      <4>2. \A d \in 1..spawned : d \in 1..c
        BY <1>1, <1>4
      <4>3. c \in 1..c
        BY <1>1, <1>4
      <4> QED
        BY <1>4, <2>1, <2>7, <4>1, <4>2, <4>3
    <3>3. ASSUME NEW d \in Child, notice'[d] # "none" PROVE d \notin alive'
      <4>1. notice \in [Child -> {"none", "exit 0", "exit 1", "error"}]
        BY DEF SupervisorInvariant, World
      <4>2. CASE alive' = alive \cup {c} /\ UNCHANGED <<notice, faulty, faults>>
        <5>1. d # c
          BY <2>1, <3>3, <4>2 DEF SupervisorInvariant, World
        <5> QED
          BY <3>3, <4>2, <5>1 DEF SupervisorInvariant, World
      <4>3. CASE Fault(c) /\ notice' = [notice EXCEPT ![c] = "error"] /\ UNCHANGED alive
        BY <2>7, <3>3, <4>1, <4>3 DEF SupervisorInvariant, World
      <4> QED
        BY <1>4, <4>2, <4>3
    <3>4. notice' \in [Child -> {"none", "exit 0", "exit 1", "error"}]
      BY <1>4 DEF SupervisorInvariant, World
    <3> QED
      BY <1>1, <2>7, <2>13, <3>1, <3>2, <3>3, <3>4 DEF SupervisorInvariant, World
  <2>15. Trusted'
    <3> SUFFICES ASSUME c \in Child
                 PROVE  Owed(sup, sup.process, 0)' /\ Once(sup.process, 0)'
      BY <2>2, <2>6 DEF Trusted, Innocent
    <3>1. out'[c] = <<>> /\ inbox'[c] = Append(<<>>, "hello") /\ sup'.process = c
      BY <1>1, <2>1, <2>2, <2>4, <2>6, <2>13 DEF SupervisorInvariant, World
    <3>2. Len(out'[c]) = 0 /\ Len(inbox'[c]) = 1 /\ inbox'[c][1] = "hello"
      BY <3>1
    <3> QED
      BY <2>2, <2>6, <3>1, <3>2 DEF Owed, Once
  <2> QED
    BY <1>4, <2>6, <2>11, <2>12, <2>14, <2>15 DEF SupervisorInvariant, Settled
<1> QED
  BY <1>2, <1>3, <1>4 DEF DelayOver
-----------------------------------------------------------------------------
(* The theorems *)

LEMMA StepKeeps == SupervisorInvariant /\ [Next]_vars => SupervisorInvariant'
<1> SUFFICES ASSUME SupervisorInvariant, [Next]_vars PROVE SupervisorInvariant'
  OBVIOUS
<1>1. CASE UNCHANGED vars
  <2>1. UNCHANGED <<sup, app, spawned, alive, inbox, out, notice, done, hung, faulty>>
    BY <1>1 DEF vars, kids
  <2>2. Phase' /\ World' /\ Settled(sup')
    BY <2>1 DEF SupervisorInvariant, Phase, World, Settled
  <2>3. Spares(sup')
    BY <2>1 DEF Spares
  <2>4. Trusted'
    BY <2>1, <2>3, TrustedKept DEF SupervisorInvariant
  <2> QED
    BY <2>1, <2>2, <2>4 DEF SupervisorInvariant, Settled
<1>2. CASE Start \/ Retry \/ Quit \/ AppExits \/ DelayOver
  BY <1>2, StartKeeps, RetryKeeps, QuitKeeps, AppExitsKeeps, DelayOverKeeps
<1>3. ASSUME NEW kind \in Commands, Command(kind) PROVE SupervisorInvariant'
  BY <1>3, CommandKeeps
<1>4. ASSUME NEW r \in Requests, Timeout(r) PROVE SupervisorInvariant'
  BY <1>4, TimeoutKeeps
<1>5. ASSUME NEW c \in Child, Deliver(c) \/ Terminated(c) \/ WriteFails(c)
      PROVE  SupervisorInvariant'
  BY <1>5, DeliverKeeps, TerminatedKeeps, WriteFailsKeeps
<1>6. ASSUME NEW c \in Child, Answer(c) \/ Leave(c) \/ Misbehave(c)
      PROVE  SupervisorInvariant'
  BY <1>6, AnswerKeeps, LeaveKeeps, MisbehaveKeeps
<1> QED
  BY <1>1, <1>2, <1>3, <1>4, <1>5, <1>6 DEF Next

\* SupervisorInvariant is an invariant of the supervisor and its companions.
THEOREM SupervisorIsSound == Spec => []SupervisorInvariant
<1> QED
  BY SupervisorInitially, StepKeeps, PTL DEF Spec

\* Whatever the companions do and in whatever order their output, exits and timers
\* arrive, a companion that runs and is not the current process any more has been
\* killed or has had its input ended (companion-supervisor.ts:330, 478).
THEOREM NoOrphans == Spec => []NoOrphan
<1>1. SupervisorInvariant => NoOrphan
  BY DEF SupervisorInvariant, Sound, Watched, NoOrphan
<1> QED
  BY <1>1, SupervisorIsSound, PTL

\* A running companion is killed only if it did something wrong: the timers, exits
\* and late lines of a process it replaced never reach it.
THEOREM OnlyTheFaultyAreKilled == Spec => []KilledForCause
<1>1. SupervisorInvariant => KilledForCause
  BY DEF SupervisorInvariant, Sound, Watched, KilledForCause
<1> QED
  BY <1>1, SupervisorIsSound, PTL
=============================================================================

--------------------------- MODULE ControlsProofs ---------------------------
(***************************************************************************)
(* What is reported of the commands of the controls, and that no control   *)
(* waits for nothing: for any number of events, commands and answers, any  *)
(* failures, and any lag of the renders and effects behind them.           *)
(***************************************************************************)
EXTENDS ViewerProofs

-----------------------------------------------------------------------------
(* The controls: the generations their answers are of *)

\* The answer to a bias that was applied.
Applied(e) == e.type = "reply" /\ e.channel = "bias" /\ e.result = "ok"

\* What a message makes of a generation and of the stamp of the last event, where each
\* bias that is reported as applied was applied to a generation in B.
Leads(g, t, e, h, u, B) ==
  IF e.type = "reply" THEN h = g /\ u = t /\ (Applied(e) => g \in B)
  ELSE IsEvent(e) /\ e.at = u /\ u > t /\ MayFollow(e, g) /\ h = GenerationAfter(g, e)

\* What messages make of them one after the other.
Reaches(q, g, t, h, u, B) ==
  \E gens \in [0..Len(q) -> Nat], times \in [0..Len(q) -> Nat] :
    /\ gens[0] = g /\ times[0] = t /\ gens[Len(q)] = h /\ times[Len(q)] = u
    /\ \A k \in 1..Len(q) : Leads(gens[k - 1], times[k - 1], q[k], gens[k], times[k], B)

LEMMA JoinedIs ==
  ASSUME NEW p, NEW q, CalmMail(p), CalmMail(q)
  PROVE  /\ Len(p) \in Nat /\ Len(q) \in Nat /\ Len(p \o q) = Len(p) + Len(q)
         /\ \A k \in 1..(Len(p) + Len(q)) :
              (p \o q)[k] = IF k <= Len(p) THEN p[k] ELSE q[k - Len(p)]
<1>1. PICK S : p \in Seq(S)
  BY DEF CalmMail
<1>2. PICK T : q \in Seq(T)
  BY DEF CalmMail
<1>3. PICK U : U = S \union T
  OBVIOUS
<1>4. p \in Seq(U)
  <2>1. \A i \in 1..Len(p) : p[i] \in U
    BY <1>1, <1>3, ElementOfSeq
  <2> QED
    BY <1>1, <2>1, SeqInside
<1>5. q \in Seq(U)
  <2>1. \A i \in 1..Len(q) : q[i] \in U
    BY <1>2, <1>3, ElementOfSeq
  <2> QED
    BY <1>2, <2>1, SeqInside
<1> QED
  BY <1>4, <1>5, ConcatProperties, LenProperties

\* Two ways follow each other.
LEMMA WaysAreJoined ==
  ASSUME NEW p, NEW q, CalmMail(p), CalmMail(q), NEW g, NEW t, NEW h, NEW u, NEW k, NEW v, NEW B,
         Reaches(p, g, t, h, u, B), Reaches(q, h, u, k, v, B)
  PROVE  Reaches(p \o q, g, t, k, v, B)
<1>1. PICK m \in Nat, n \in Nat : m = Len(p) /\ n = Len(q)
  BY JoinedIs
<1>2. PICK r : r = p \o q
  OBVIOUS
<1>3. Len(r) = m + n /\ \A i \in 1..(m + n) : r[i] = IF i <= m THEN p[i] ELSE q[i - m]
  BY <1>1, <1>2, JoinedIs
<1>4. PICK a \in [0..m -> Nat], b \in [0..m -> Nat] :
        /\ a[0] = g /\ b[0] = t /\ a[m] = h /\ b[m] = u
        /\ \A i \in 1..m : Leads(a[i - 1], b[i - 1], p[i], a[i], b[i], B)
  BY <1>1 DEF Reaches
<1>5. PICK c \in [0..n -> Nat], d \in [0..n -> Nat] :
        /\ c[0] = h /\ d[0] = u /\ c[n] = k /\ d[n] = v
        /\ \A i \in 1..n : Leads(c[i - 1], d[i - 1], q[i], c[i], d[i], B)
  BY <1>1 DEF Reaches
<1>6. ASSUME NEW x \in [0..m -> Nat], NEW y \in [0..n -> Nat], x[m] = y[0]
      PROVE  \E z \in [0..(m + n) -> Nat] : /\ \A i \in 0..m : z[i] = x[i]
                                            /\ \A i \in 0..n : z[m + i] = y[i]
  <2>1. PICK z : z = [i \in 0..(m + n) |-> IF i <= m THEN x[i] ELSE y[i - m]]
    OBVIOUS
  <2>2. \A i \in 0..(m + n) : IF i <= m THEN i \in 0..m ELSE i - m \in 0..n
    OBVIOUS
  <2>3. z \in [0..(m + n) -> Nat]
    BY <2>1, <2>2
  <2>4. \A i \in 0..m : z[i] = x[i]
    BY <2>1
  <2>5. ASSUME NEW i \in 0..n PROVE z[m + i] = y[i]
    <3>1. CASE i = 0
      BY <1>6, <2>4, <3>1
    <3>2. CASE i # 0
      <4>1. m + i \in 0..(m + n) /\ ~(m + i <= m) /\ (m + i) - m = i
        BY <3>2
      <4> QED
        BY <2>1, <4>1
    <3> QED
      BY <3>1, <3>2
  <2> QED
    BY <2>3, <2>4, <2>5
<1>7. PICK gens \in [0..(m + n) -> Nat] : /\ \A i \in 0..m : gens[i] = a[i]
                                          /\ \A i \in 0..n : gens[m + i] = c[i]
  <2>1. a[m] = c[0]
    BY <1>4, <1>5
  <2> QED
    BY <1>6, <2>1, Zenon
<1>8. PICK times \in [0..(m + n) -> Nat] : /\ \A i \in 0..m : times[i] = b[i]
                                           /\ \A i \in 0..n : times[m + i] = d[i]
  <2>1. b[m] = d[0]
    BY <1>4, <1>5
  <2> QED
    BY <1>6, <2>1, Zenon
<1>9. ASSUME NEW i \in 1..(m + n)
      PROVE  Leads(gens[i - 1], times[i - 1], r[i], gens[i], times[i], B)
  <2>1. CASE i <= m
    <3>1. i \in 1..m /\ i \in 0..m /\ i - 1 \in 0..m
      BY <2>1
    <3>2. r[i] = p[i] /\ gens[i] = a[i] /\ gens[i - 1] = a[i - 1]
          /\ times[i] = b[i] /\ times[i - 1] = b[i - 1]
      BY <1>3, <1>7, <1>8, <2>1, <3>1
    <3> QED
      BY <1>4, <3>1, <3>2
  <2>2. CASE ~(i <= m)
    <3>1. PICK j \in 1..n : j = i - m
      BY <2>2
    <3>2. m + j = i /\ m + (j - 1) = i - 1 /\ j - 1 \in 0..n /\ j \in 0..n
      BY <3>1
    <3>3. r[i] = q[j] /\ gens[i] = c[j] /\ gens[i - 1] = c[j - 1]
          /\ times[i] = d[j] /\ times[i - 1] = d[j - 1]
      BY <1>3, <1>7, <1>8, <2>2, <3>1, <3>2
    <3> QED
      BY <1>5, <3>1, <3>3
  <2> QED
    BY <2>1, <2>2
<1>10. gens[0] = g /\ times[0] = t /\ gens[m + n] = k /\ times[m + n] = v
  <2>1. 0 \in 0..m /\ n \in 0..n
    OBVIOUS
  <2> QED
    BY <1>4, <1>5, <1>7, <1>8, <2>1
<1>11. Reaches(r, g, t, k, v, B)
  BY <1>3, <1>7, <1>8, <1>9, <1>10 DEF Reaches
<1> QED
  BY <1>2, <1>11

\* The first message, and the way of those behind it.
LEMMA WayIsBegun ==
  ASSUME NEW q, CalmMail(q), q # <<>>, NEW g, NEW t, NEW k, NEW v, NEW B, Reaches(q, g, t, k, v, B)
  PROVE  \E h, u \in Nat : Leads(g, t, Head(q), h, u, B) /\ Reaches(Tail(q), h, u, k, v, B)
<1>1. PICK S : q \in Seq(S)
  BY DEF CalmMail
<1>2. PICK m \in Nat : m = Len(q)
  BY <1>1, LenProperties
<1>3. PICK r : r = Tail(q)
  OBVIOUS
<1>4. m # 0 /\ Len(r) = m - 1 /\ Head(q) = q[1] /\ \A i \in 1..(m - 1) : r[i] = q[i + 1]
  BY <1>1, <1>2, <1>3, HeadTailProperties, EmptySeq
<1>5. PICK a \in [0..m -> Nat], b \in [0..m -> Nat] :
        /\ a[0] = g /\ b[0] = t /\ a[m] = k /\ b[m] = v
        /\ \A i \in 1..m : Leads(a[i - 1], b[i - 1], q[i], a[i], b[i], B)
  BY <1>2 DEF Reaches
<1>6. 1 \in 1..m /\ 1 \in 0..m /\ 1 - 1 = 0
  BY <1>4
<1>7. a[1] \in Nat /\ b[1] \in Nat /\ Leads(g, t, q[1], a[1], b[1], B)
  BY <1>5, <1>6
<1>8. PICK c, d : /\ c = [i \in 0..(m - 1) |-> a[i + 1]]
                  /\ d = [i \in 0..(m - 1) |-> b[i + 1]]
  OBVIOUS
<1>9. /\ c \in [0..(m - 1) -> Nat] /\ d \in [0..(m - 1) -> Nat]
      /\ \A i \in 0..(m - 1) : c[i] = a[i + 1] /\ d[i] = b[i + 1]
  <2>1. \A i \in 0..(m - 1) : i + 1 \in 0..m
    OBVIOUS
  <2> QED
    BY <1>5, <1>8, <2>1
<1>10. c[0] = a[1] /\ d[0] = b[1] /\ c[m - 1] = k /\ d[m - 1] = v
  <2>1. 0 \in 0..(m - 1) /\ m - 1 \in 0..(m - 1) /\ (m - 1) + 1 = m /\ 0 + 1 = 1
    BY <1>4
  <2> QED
    BY <1>5, <1>9, <2>1
<1>11. ASSUME NEW i \in 1..(m - 1) PROVE Leads(c[i - 1], d[i - 1], r[i], c[i], d[i], B)
  <2>1. i + 1 \in 1..m /\ (i + 1) - 1 = i /\ i - 1 \in 0..(m - 1) /\ (i - 1) + 1 = i
        /\ i \in 0..(m - 1)
    OBVIOUS
  <2>2. c[i] = a[i + 1] /\ c[i - 1] = a[i] /\ d[i] = b[i + 1] /\ d[i - 1] = b[i] /\ r[i] = q[i + 1]
    BY <1>4, <1>9, <2>1
  <2>3. Leads(a[i], b[i], q[i + 1], a[i + 1], b[i + 1], B)
    BY <1>5, <2>1
  <2> QED
    BY <2>2, <2>3
<1>12. Reaches(r, a[1], b[1], k, v, B)
  BY <1>4, <1>9, <1>10, <1>11 DEF Reaches
<1> QED
  BY <1>3, <1>4, <1>7, <1>12

\* A way stays one when more was biased.
LEMMA WayStays ==
  ASSUME NEW q, NEW g, NEW t, NEW h, NEW u, NEW B, NEW C, Reaches(q, g, t, h, u, B),
         \A x \in B : x \in C
  PROVE  Reaches(q, g, t, h, u, C)
<1>1. PICK a \in [0..Len(q) -> Nat], b \in [0..Len(q) -> Nat] :
        /\ a[0] = g /\ b[0] = t /\ a[Len(q)] = h /\ b[Len(q)] = u
        /\ \A i \in 1..Len(q) : Leads(a[i - 1], b[i - 1], q[i], a[i], b[i], B)
  BY DEF Reaches
<1>2. \A i \in 1..Len(q) : Leads(a[i - 1], b[i - 1], q[i], a[i], b[i], C)
  <2> SUFFICES ASSUME NEW i \in 1..Len(q) PROVE Leads(a[i - 1], b[i - 1], q[i], a[i], b[i], C)
    OBVIOUS
  <2>1. PICK w, x, y, z : w = a[i - 1] /\ x = b[i - 1] /\ y = a[i] /\ z = b[i]
    OBVIOUS
  <2>2. Leads(w, x, q[i], y, z, B)
    BY <1>1, <2>1
  <2>3. Leads(w, x, q[i], y, z, C)
    BY <2>2 DEF Leads
  <2> QED
    BY <2>1, <2>3
<1> QED
  BY <1>1, <1>2 DEF Reaches

\* Answers change neither.
LEMMA RepliesLeadNowhere ==
  ASSUME NEW q, CalmMail(q), NEW g \in Nat, NEW t \in Nat, NEW B,
         \A i \in 1..Len(q) : q[i].type = "reply" /\ (Applied(q[i]) => g \in B)
  PROVE  Reaches(q, g, t, g, t, B)
<1>1. PICK n \in Nat : n = Len(q)
  BY JoinedIs
<1>2. PICK a, b : a = [i \in 0..n |-> g] /\ b = [i \in 0..n |-> t]
  OBVIOUS
<1>3. a \in [0..n -> Nat] /\ b \in [0..n -> Nat] /\ \A i \in 0..n : a[i] = g /\ b[i] = t
  BY <1>2
<1>4. ASSUME NEW i \in 1..n PROVE Leads(a[i - 1], b[i - 1], q[i], a[i], b[i], B)
  <2>1. a[i - 1] = g /\ b[i - 1] = t /\ a[i] = g /\ b[i] = t
    BY <1>3
  <2> QED
    BY <1>1, <2>1 DEF Leads
<1>5. 0 \in 0..n /\ n \in 0..n
  OBVIOUS
<1> QED
  BY <1>1, <1>3, <1>4, <1>5 DEF Reaches

\* Events that lead from one generation to the next, or stay in one.
Sendable(es, g, h) ==
  /\ Len(es) = 0 => h = g
  /\ \A i \in 1..Len(es) :
       /\ Carries(es[i]) /\ IsEvent(es[i]) /\ MayFollow(es[i], IF i = 1 THEN g ELSE h)
       /\ GenerationAfter(IF i = 1 THEN g ELSE h, es[i]) = h

LEMMA EventsLead ==
  ASSUME NEW es, CalmMail(es), NEW g \in Nat, NEW h \in Nat, clock \in Nat, NEW B,
         Sendable(es, g, h)
  PROVE  /\ Len(es) \in Nat /\ Len(Stamped(es)) = Len(es)
         /\ \A i \in 1..Len(es) : Stamped(es)[i].type # "reply"
         /\ Reaches(Stamped(es), g, clock, h, clock + Len(es), B)
<1>1. PICK S : es \in Seq(S)
  BY DEF CalmMail
<1>2. PICK n \in Nat : n = Len(es) /\ DOMAIN es = 1..n
  BY <1>1, LenProperties
<1>3. PICK q : q = [i \in 1..n |-> At(clock + i, es[i])]
  OBVIOUS
<1>4. Stamped(es) = q
  BY <1>2, <1>3 DEF Stamped
<1>5. Len(q) = n
  BY <1>3
<1>6. ASSUME NEW i \in 1..n
      PROVE  /\ q[i].at = clock + i /\ q[i].type # "reply" /\ IsEvent(q[i])
             /\ MayFollow(q[i], IF i = 1 THEN g ELSE h)
             /\ GenerationAfter(IF i = 1 THEN g ELSE h, q[i]) = h
  <2>1. PICK e, s, f : e = es[i] /\ s = clock + i /\ f = IF i = 1 THEN g ELSE h
    OBVIOUS
  <2>2. Carries(e) /\ IsEvent(e) /\ MayFollow(e, f) /\ GenerationAfter(f, e) = h
    BY <1>2, <2>1 DEF Sendable
  <2>3. q[i] = At(s, e)
    BY <1>3, <2>1
  <2>4. /\ q[i].at = s /\ IsEvent(q[i])
        /\ GenerationAfter(f, q[i]) = h /\ MayFollow(q[i], f)
    BY <2>2, <2>3, EventIsStamped
  <2>5. q[i].type # "reply"
    BY <2>4 DEF IsEvent
  <2> QED
    BY <2>1, <2>4, <2>5
<1>7. PICK a, b : a = [i \in 0..n |-> IF i = 0 THEN g ELSE h] /\ b = [i \in 0..n |-> clock + i]
  OBVIOUS
<1>8. /\ a \in [0..n -> Nat] /\ b \in [0..n -> Nat]
      /\ \A i \in 0..n : a[i] = (IF i = 0 THEN g ELSE h) /\ b[i] = clock + i
  BY <1>7
<1>9. ASSUME NEW i \in 1..n PROVE Leads(a[i - 1], b[i - 1], q[i], a[i], b[i], B)
  <2>1. PICK f : f = IF i = 1 THEN g ELSE h
    OBVIOUS
  <2>2. i \in 0..n /\ i - 1 \in 0..n /\ i # 0 /\ (i - 1 = 0 <=> i = 1)
    OBVIOUS
  <2>3. a[i - 1] = f /\ a[i] = h /\ b[i] = clock + i /\ b[i - 1] = clock + (i - 1)
    BY <1>8, <2>1, <2>2
  <2>4. clock + i > clock + (i - 1)
    OBVIOUS
  <2>5. MayFollow(q[i], f) /\ GenerationAfter(f, q[i]) = h
    BY <1>6, <2>1
  <2> QED
    BY <1>6, <2>3, <2>4, <2>5 DEF Leads
<1>10. 0 \in 0..n /\ n \in 0..n /\ a[0] = g /\ b[0] = clock /\ a[n] = h /\ b[n] = clock + n
  <2>1. 0 \in 0..n /\ n \in 0..n /\ clock + 0 = clock
    OBVIOUS
  <2>2. n = 0 => h = g
    BY <1>2 DEF Sendable
  <2> QED
    BY <1>8, <2>1, <2>2
<1>11. Reaches(q, g, clock, h, clock + n, B)
  BY <1>5, <1>8, <1>9, <1>10 DEF Reaches
<1> QED
  BY <1>2, <1>4, <1>5, <1>6, <1>11

\* An event that leaves the generation as it is.
Steady(e, g) == Carries(e) /\ IsEvent(e) /\ MayFollow(e, g) /\ GenerationAfter(g, e) = g

LEMMA SteadyIsSendable ==
  ASSUME NEW S, NEW q \in Seq(S), NEW g, \A x \in S : Steady(x, g)
  PROVE  Sendable(q, g, g)
<1>1. \A i \in 1..Len(q) : Steady(q[i], g)
  BY ElementOfSeq
<1>2. \A i \in 1..Len(q) : (IF i = 1 THEN g ELSE g) = g
  OBVIOUS
<1> QED
  BY <1>1, <1>2 DEF Sendable, Steady

LEMMA RecordingEventIsSteady ==
  ASSUME NEW state, NEW g
  PROVE  Steady(RecordingEvent(state), g)
<1>1. PICK e : e = RecordingEvent(state)
  OBVIOUS
<1>2. /\ DOMAIN e = {"type", "state", "path", "error", "cuts"}
      /\ e.type = "recording_state" /\ e.cuts = {}
  BY <1>1 DEF RecordingEvent
<1>3. Carries(e)
  BY <1>2 DEF Carries
<1>4. ~Ends(e)
  BY <1>2 DEF Ends
<1>5. IsEvent(e)
  BY <1>2, <1>4 DEF IsEvent
<1>6. MayFollow(e, g) /\ GenerationAfter(g, e) = g
  BY <1>2, <1>4 DEF MayFollow, GenerationAfter
<1> QED
  BY <1>1, <1>3, <1>5, <1>6 DEF Steady

LEMMA LinkEventIsSteady ==
  ASSUME NEW state, state # "connecting", NEW g \in Nat, NEW paused
  PROVE  Steady(LinkEvent(state, g, paused), g)
<1>1. PICK e : e = LinkEvent(state, g, paused)
  OBVIOUS
<1>2. IsLinkEvent(e, state, g)
  BY <1>1, PlainLinkEventIsRight
<1> QED
  BY <1>1, <1>2 DEF IsLinkEvent, Steady

\* What the companion and its session are in.
IsPeer(p) ==
  /\ p = [f \in DOMAIN p |-> p[f]] /\ DOMAIN p = PeerFields
  /\ p.generation \in Nat /\ p.errors \in Nat /\ p.rejects \in Nat

\* A running companion answers a command: what it is in then, and sends.
LEMMA AnswersLead ==
  ASSUME IsPeer(peer), NEW kind, NEW does \in Answers(kind)
  PROVE  /\ does.next.backend = peer.backend /\ IsPeer(does.next)
         /\ Sendable(does.events, peer.generation, does.next.generation)
         /\ kind = "bias" => does.events = <<>>
<1> DEFINE Good(d) == /\ d.next.backend = peer.backend /\ IsPeer(d.next)
                      /\ Sendable(d.events, peer.generation, d.next.generation)
<1>1. PICK g \in Nat : g = peer.generation
  BY DEF IsPeer
<1>2. ASSUME NEW next, NEW es, NEW results, NEW d \in Does(next, es, results),
             next.backend = peer.backend, IsPeer(next), Sendable(es, g, next.generation)
      PROVE  Good(d) /\ d.events = es
  <2>1. d.next = next /\ d.events = es
    BY <1>2 DEF Does
  <2> QED
    BY <1>1, <1>2, <2>1
<1>3. Sendable(<<>>, g, g)
  BY DEF Sendable
<1>4. ASSUME NEW e, Steady(e, g) PROVE Sendable(<<e>>, g, g)
  <2>1. PICK S : S = {e}
    OBVIOUS
  <2>2. <<e>> \in Seq(S) /\ \A x \in S : Steady(x, g)
    BY <1>4, <2>1
  <2> QED
    BY <2>2, SteadyIsSendable
<1>5. ASSUME NEW results, does \in Does(peer, <<>>, results) PROVE Good(does) /\ does.events = <<>>
  <2> HIDE DEF Good
  <2> QED
    BY <1>1, <1>2, <1>3, <1>5
<1>6. ASSUME does \in Disconnected PROVE Good(does)
  <2>1. PICK p : p = (IF peer.recording = "idle" THEN <<>> ELSE <<RecordingEvent("idle")>>)
    OBVIOUS
  <2>2. PICK x, y, z : /\ x = LinkEvent("disconnecting", g, FALSE)
                       /\ y = LinkEvent("disconnected", g, FALSE) /\ z = RecordingEvent("idle")
    OBVIOUS
  <2>3. PICK d, e : d = <<x>> /\ e = <<y>>
    OBVIOUS
  <2>4. PICK S : S = {x, y, z}
    OBVIOUS
  <2>5. d \in Seq(S) /\ e \in Seq(S) /\ p \in Seq(S)
    <3>1. x \in S /\ y \in S /\ z \in S
      BY <2>4
    <3>2. <<x>> \in Seq(S) /\ <<y>> \in Seq(S) /\ <<z>> \in Seq(S) /\ <<>> \in Seq(S)
      BY <3>1
    <3>3. p = <<>> \/ p = <<z>>
      BY <2>1, <2>2
    <3> QED
      BY <2>3, <3>2, <3>3
  <2>6. \A s \in S : Steady(s, g)
    <3>1. Steady(x, g) /\ Steady(y, g) /\ Steady(z, g)
      BY <1>1, <2>2, LinkEventIsSteady, RecordingEventIsSteady
    <3> QED
      BY <2>4, <3>1
  <2>7. (d \o p) \o e \in Seq(S)
    BY <2>5, ConcatProperties
  <2>8. Sendable((d \o p) \o e, g, g)
    BY <2>6, <2>7, SteadyIsSendable
  <2>9. PICK next : next = [peer EXCEPT !.link = "disconnected", !.paused = FALSE,
                                        !.recording = "idle"]
    OBVIOUS
  <2>10. next.backend = peer.backend /\ IsPeer(next) /\ next.generation = g
    BY <1>1, <2>9 DEF IsPeer, PeerFields
  <2>11. Disconnected = Does(next, (d \o p) \o e, {TRUE})
    BY <1>1, <2>1, <2>2, <2>3, <2>9, Zenon DEF Disconnected
  <2> HIDE DEF Good
  <2> QED
    <3>1. PICK es : es = (d \o p) \o e
      OBVIOUS
    <3>2. does \in Does(next, es, {TRUE})
      BY <1>6, <2>11, <3>1
    <3>3. Sendable(es, g, next.generation)
      BY <2>8, <2>10, <3>1
    <3> QED
      BY <1>2, <2>10, <3>2, <3>3, Zenon
<1>7. ASSUME NEW flag, does \in Paused(flag) PROVE Good(does)
  <2>1. PICK e : e = LinkEvent("streaming", g, flag)
    OBVIOUS
  <2>2. PICK next : next = [peer EXCEPT !.paused = flag]
    OBVIOUS
  <2>3. Paused(flag) = Does(next, <<e>>, BOOLEAN)
    BY <1>1, <2>1, <2>2, Zenon DEF Paused
  <2>4. next.backend = peer.backend /\ IsPeer(next) /\ next.generation = g
    BY <1>1, <2>2 DEF IsPeer, PeerFields
  <2>5. Sendable(<<e>>, g, g)
    <3>1. Steady(e, g)
      BY <1>1, <2>1, LinkEventIsSteady
    <3> QED
      BY <1>4, <3>1
  <2> HIDE DEF Good
  <2> QED
    <3>1. does \in Does(next, <<e>>, BOOLEAN)
      BY <1>7, <2>3
    <3>2. Sendable(<<e>>, g, next.generation)
      BY <2>4, <2>5
    <3> QED
      BY <1>2, <2>4, <3>1, <3>2, Zenon
<1>8. ASSUME does \in Connected PROVE Good(does)
  <2>1. PICK gen \in Nat : gen = g + 1
    OBVIOUS
  <2>2. PICK begun : begun = [peer EXCEPT !.link = "connecting", !.generation = gen]
    OBVIOUS
  <2>3. PICK c, x : c = LinkEvent("connecting", gen, FALSE) /\ x = LinkEvent("error", gen, FALSE)
    OBVIOUS
  <2>4. PICK q, r : q = <<c>> /\ r = <<c, x>>
    OBVIOUS
  <2>5. PICK failed : failed = [begun EXCEPT !.link = "error"]
    OBVIOUS
  <2>6. Connected = Does(begun, q, {TRUE}) \union Does(failed, r, {FALSE})
    BY <1>1, <2>1, <2>2, <2>3, <2>4, <2>5, Zenon DEF Connected
  <2>7. begun.backend = peer.backend /\ IsPeer(begun) /\ begun.generation = gen
    BY <2>2 DEF IsPeer, PeerFields
  <2>8. failed.backend = peer.backend /\ IsPeer(failed) /\ failed.generation = gen
    BY <2>5, <2>7 DEF IsPeer, PeerFields
  <2>9. Carries(c) /\ IsEvent(c) /\ MayFollow(c, g) /\ GenerationAfter(g, c) = gen
    <3>1. IsLinkEvent(c, "connecting", gen)
      BY <2>3, PlainLinkEventIsRight
    <3>2. gen >= g /\ gen > g
      BY <2>1
    <3> QED
      BY <3>1, <3>2 DEF IsLinkEvent
  <2>10. Steady(x, gen)
    BY <2>3, LinkEventIsSteady
  <2>11. Sendable(q, g, gen)
    <3>1. Len(q) = 1 /\ q[1] = c /\ \A i \in 1..1 : i = 1
      BY <2>4
    <3> QED
      BY <2>9, <3>1 DEF Sendable
  <2>12. Sendable(r, g, gen)
    <3>1. Len(r) = 2 /\ r[1] = c /\ r[2] = x /\ \A i \in 1..2 : i = 1 \/ i = 2
      BY <2>4
    <3> QED
      BY <2>9, <2>10, <3>1 DEF Sendable, Steady
  <2> HIDE DEF Good
  <2> QED
    <3>1. does \in Does(begun, q, {TRUE}) \/ does \in Does(failed, r, {FALSE})
      BY <1>8, <2>6
    <3>2. Sendable(q, g, begun.generation) /\ Sendable(r, g, failed.generation)
      BY <2>7, <2>8, <2>11, <2>12
    <3> QED
      BY <1>2, <2>7, <2>8, <3>1, <3>2, Zenon
<1>9. ASSUME NEW recording, NEW state, NEW results,
             does \in Does([peer EXCEPT !.recording = recording], <<RecordingEvent(state)>>, results)
      PROVE  Good(does)
  <2>1. PICK e : e = RecordingEvent(state)
    OBVIOUS
  <2>2. PICK next : next = [peer EXCEPT !.recording = recording]
    OBVIOUS
  <2>3. next.backend = peer.backend /\ IsPeer(next) /\ next.generation = g
    BY <1>1, <2>2 DEF IsPeer, PeerFields
  <2>4. Sendable(<<e>>, g, g)
    <3>1. Steady(e, g)
      BY <2>1, RecordingEventIsSteady
    <3> QED
      BY <1>4, <3>1
  <2> HIDE DEF Good
  <2> QED
    <3>1. does \in Does(next, <<e>>, results)
      BY <1>9, <2>1, <2>2
    <3>2. Sendable(<<e>>, g, next.generation)
      BY <2>3, <2>4
    <3> QED
      BY <1>2, <2>3, <3>1, <3>2, Zenon
<1>10. CASE kind = "bias"
  <2>1. \E results : does \in Does(peer, <<>>, results)
    BY <1>10 DEF Answers
  <2> HIDE DEF Good
  <2>2. Good(does) /\ does.events = <<>>
    BY <1>5, <2>1
  <2> QED
    BY <2>2 DEF Good
<1>11. CASE kind # "bias"
  <2>1. \/ \E results : does \in Does(peer, <<>>, results)
        \/ does \in Disconnected \/ (\E flag : does \in Paused(flag)) \/ does \in Connected
        \/ \E recording, state, results :
             does \in Does([peer EXCEPT !.recording = recording], <<RecordingEvent(state)>>, results)
    <3>1. CASE kind = "connect"
      BY <3>1, Zenon DEF Answers
    <3>2. CASE kind = "disconnect"
      BY <3>2, Zenon DEF Answers
    <3>3. CASE kind \in {"pause", "resume"}
      BY <3>3 DEF Answers
    <3>4. CASE kind = "record"
      <4>1. PICK none, one : /\ none = Does(peer, <<>>, {FALSE})
                             /\ one = Does([peer EXCEPT !.recording = "recording"],
                                           <<RecordingEvent("recording")>>, {TRUE})
        OBVIOUS
      <4>2. Answers(kind) = IF /\ peer.link = "streaming" /\ ~peer.paused
                               /\ peer.recording = "idle"
                            THEN none \union one ELSE none
        BY <3>4, <4>1 DEF Answers
      <4>3. does \in none \/ does \in one
        BY <4>2
      <4> QED
        BY <4>1, <4>3, Zenon
    <3>5. CASE kind \notin {"connect", "disconnect", "pause", "resume", "bias", "record"}
      <4>1. Answers(kind) = IF peer.recording = "idle" THEN Does(peer, <<>>, {FALSE})
                            ELSE Does([peer EXCEPT !.recording = "idle"],
                                      <<RecordingEvent("idle")>>, BOOLEAN)
        BY <3>5 DEF Answers
      <4> QED
        BY <4>1, Zenon
    <3> QED
      BY <1>11, <3>1, <3>2, <3>3, <3>4, <3>5
  <2> HIDE DEF Good
  <2>2. Good(does)
    <3>1. CASE \E results : does \in Does(peer, <<>>, results)
      BY <1>5, <3>1, Zenon
    <3> QED
      BY <1>6, <1>7, <1>8, <1>9, <2>1, <3>1, Zenon
  <2> QED
    BY <1>11, <2>2 DEF Good
<1> QED
  BY <1>10, <1>11

\* Of two scopes the one that is not before the other.
NotBefore(a, b) == a.epoch > b.epoch \/ (a.epoch = b.epoch /\ a.generation >= b.generation)

\* The reducer never goes back to a session that has ended.
LEMMA ScopeGoesOn ==
  ASSUME NEW s, IsApp(s), NEW e, IsEvent(e), e.type # "live_wrench", e.at \in Nat,
         e.at > s.backend.at, e.at > s.connectionAt, MayFollow(e, s.generation)
  PROVE  NotBefore(Scope(Reduce(s, e)), Scope(s))
<1>1. PICK r : r = Reduce(s, e)
  OBVIOUS
<1>2. s.backend.at \in Nat /\ s.generation \in Nat
  BY DEF IsApp
<1>3. r.backend.at > s.backend.at \/ (r.backend.at = s.backend.at /\ r.generation >= s.generation)
  <2>1. CASE Ends(e)
    BY <1>1, <2>1, EndIsReduced
  <2>2. CASE e.type = "backend_state" /\ e.state = "running"
    BY <1>1, <2>2, RunningIsReduced
  <2>3. CASE e.type = "connection_state"
    <3>1. e.gen \in Nat /\ e.gen >= s.generation
      BY <2>3 DEF IsEvent, MayFollow
    <3>2. r.backend = s.backend /\ r.generation = e.gen
      BY <1>1, <2>3, <3>1, ConnectionIsReduced
    <3> QED
      BY <3>1, <3>2
  <2>4. CASE e.type = "error"
    <3>1. e.sequence \in Nat
      BY <2>4 DEF IsEvent
    <3>2. r.backend = s.backend /\ r.generation = s.generation
      BY <1>1, <2>4, <3>1, ErrorIsReduced
    <3> QED
      BY <1>2, <3>2
  <2>5. CASE e.type \in {"plot_batch", "configuration_changed", "recording_state"}
    <3>1. r.backend = s.backend /\ r.generation = s.generation
      BY <1>1, <2>5, OthersAreKept
    <3> QED
      BY <1>2, <3>1
  <2> QED
    BY <2>1, <2>2, <2>3, <2>4, <2>5 DEF IsEvent, Ends
<1> QED
  BY <1>1, <1>3 DEF NotBefore, Scope
-----------------------------------------------------------------------------
(* The controls: what they show, and what they will *)

\* What the conditions of the controls depend on, as the renderer knows it and as the
\* session has it.
View(connection, paused, recording) ==
  [connection |-> connection, paused |-> paused, recording |-> recording]
Sight(s) == View(s.connection, s.paused, s.recording.state)
Behind   == View(peer.link, peer.paused, peer.recording)

\* What a message makes of it.
After(v, e) ==
  IF Gone(e) THEN View("disconnected", FALSE, "idle")
  ELSE IF e.type = "connection_state" THEN View(e.state, e.paused, v.recording)
  ELSE IF e.type = "recording_state" /\ (v.connection = "streaming" \/ e.state \in Idle)
  THEN View(v.connection, v.paused, e.state)
  ELSE v

\* What messages make of it one after the other.
Guides(q, v, w) ==
  \E views : /\ views[0] = v /\ views[Len(q)] = w
             /\ \A k \in 1..Len(q) : views[k] = After(views[k - 1], q[k])

LEMMA ViewIs ==
  ASSUME NEW c, NEW p, NEW r
  PROVE  View(c, p, r).connection = c /\ View(c, p, r).paused = p /\ View(c, p, r).recording = r
  BY DEF View

LEMMA SightIsReduced ==
  ASSUME NEW s, IsApp(s), NEW t, Recorded(s, t), NEW e, IsEvent(e),
         e.type \in CalmTypes, e.at \in Nat, e.at > s.backend.at,
         e.at > s.connectionAt, e.at > s.recording.at, MayFollow(e, s.generation)
  PROVE  /\ Sight(Reduce(s, e)) = After(Sight(s), e)
         /\ Recorded(Reduce(s, e), e.at)
<1>1. e.type = "connection_state" => e.gen \in Nat /\ e.gen >= s.generation
  BY DEF IsEvent, MayFollow
<1>2. PICK r : r = Reduce(s, e)
  OBVIOUS
<1>3. PICK c, p, x : c = s.connection /\ p = s.paused /\ x = s.recording
  OBVIOUS
<1>4. PICK v : v = Sight(s) /\ v = View(c, p, x.state)
  BY <1>3 DEF Sight
<1>5. v.connection = c /\ v.paused = p /\ v.recording = x.state
  BY <1>4, ViewIs
<1>6. /\ DOMAIN x = DOMAIN EmptyRecording /\ x.at \in Nat /\ e.at > x.at
  BY <1>3 DEF Recorded
<1>7. ASSUME NEW a, NEW b, NEW y, Looks(r, a, b, y), View(a, b, y.state) = After(v, e),
             DOMAIN y = DOMAIN EmptyRecording, y.at \in Nat, y.at <= e.at
      PROVE  Sight(r) = After(v, e) /\ Recorded(r, e.at)
  BY <1>7 DEF Looks, Sight, Recorded
<1>8. /\ EmptyRecording.state = "idle" /\ EmptyRecording.at = 0
  BY DEF EmptyRecording
<1>9. e.type # "reply"
  BY DEF IsEvent
<1>10. CASE Gone(e)
  <2>1. Looks(r, "disconnected", FALSE, EmptyRecording)
    BY <1>1, <1>2, <1>10, GoneIsSeen
  <2>2. After(v, e) = View("disconnected", FALSE, "idle")
    BY <1>10 DEF After
  <2>3. 0 \in Nat /\ 0 <= e.at
    OBVIOUS
  <2>4. Sight(r) = After(v, e) /\ Recorded(r, e.at)
    BY <1>7, <1>8, <2>1, <2>2, <2>3
  <2> QED
    BY <1>2, <1>4, <2>4
<1>11. CASE ~Gone(e) /\ e.type \in {"backend_disconnected", "backend_state"}
  <2>1. e.type = "backend_state"
    BY <1>11 DEF Gone, Ends
  <2>2. Looks(r, c, p, x)
    BY <1>1, <1>2, <1>3, <1>11, <2>1, StateIsSeen
  <2>3. After(v, e) = v
    BY <1>11, <2>1 DEF After
  <2>4. Sight(r) = After(v, e) /\ Recorded(r, e.at)
    BY <1>4, <1>6, <1>7, <2>2, <2>3
  <2> QED
    BY <1>2, <1>4, <2>4
<1>12. CASE ~Gone(e) /\ e.type = "connection_state"
  <2>1. PICK a, b : a = e.state /\ b = e.paused
    OBVIOUS
  <2>2. Looks(r, a, b, x)
    BY <1>1, <1>2, <1>3, <1>12, <2>1, StateIsSeen
  <2>3. After(v, e) = View(a, b, x.state)
    BY <1>5, <1>12, <2>1 DEF After
  <2>4. Sight(r) = After(v, e) /\ Recorded(r, e.at)
    BY <1>6, <1>7, <2>2, <2>3
  <2> QED
    BY <1>2, <1>4, <2>4
<1>13. CASE e.type = "recording_state"
  <2>1. ~Gone(e)
    BY <1>13 DEF Gone, Ends
  <2>2. PICK y : /\ Looks(r, c, p, y)
                 /\ c # "streaming" /\ e.state \notin Idle => y = x
                 /\ c = "streaming" \/ e.state \in Idle =>
                      DOMAIN y = DOMAIN EmptyRecording /\ y.state = e.state /\ y.at = e.at
    BY <1>2, <1>3, <1>6, <1>13, RecordingIsSeen
  <2>3. After(v, e) = IF c = "streaming" \/ e.state \in Idle THEN View(c, p, e.state) ELSE v
    BY <1>5, <1>13, <2>1 DEF After
  <2>4. View(c, p, y.state) = After(v, e)
    BY <1>4, <2>2, <2>3
  <2>5. DOMAIN y = DOMAIN EmptyRecording /\ y.at \in Nat /\ y.at <= e.at
    BY <1>6, <2>2
  <2>6. Sight(r) = After(v, e) /\ Recorded(r, e.at)
    BY <1>7, <2>2, <2>4, <2>5
  <2> QED
    BY <1>2, <1>4, <2>6
<1> QED
  BY <1>9, <1>10, <1>11, <1>12, <1>13 DEF CalmTypes
-----------------------------------------------------------------------------
(* The controls: their invariant *)

\* The token of the bias that waits for its answer, 0 for none.
BiasToken == pending["bias"].token

\* A request of a channel.  Those who wait for it were given tokens, of n by now; the bias
\* that waits, waits for no other channel; and a bias is answered at once.
IsRequest(c, o, n, token) ==
  \/ o = NoOp
  \/ /\ DOMAIN o = {"step", "kind", "callers", "result"} /\ o = [f \in DOMAIN o |-> o[f]]
     /\ o.step \in {"asked", "sent", "saving", "done"}
     /\ o.callers \in SUBSET (1..n) /\ (c # "bias" => token \notin o.callers)
     /\ c = "bias" => o.kind = "bias" /\ o.step # "done"

\* The same of the answers on their way.
Addressed(q, n, token) ==
  \A k \in 1..Len(q) : q[k].type = "reply" =>
    q[k].callers \in SUBSET (1..n) /\ (q[k].channel # "bias" => token \notin q[k].callers)

RequestsAre(n, token) ==
  /\ ops = [c \in Channels |-> ops[c]]
  /\ \A c \in Channels : IsRequest(c, ops[c], n, token)
  /\ Addressed(mail, n, token)

EntriesAreRight ==
  /\ calls \in Nat /\ BiasToken \in 0..calls
  /\ DOMAIN pending = Actions \union {"connection"} /\ pending = [c \in DOMAIN pending |-> pending[c]]
  /\ "token" \in DOMAIN pending["bias"]

\* A running companion has one command of each channel that was sent.
InboxIsRight ==
  /\ inbox \in Seq(Channels) /\ (inbox # <<>> => peer.backend = "running")
  /\ \A i \in 1..Len(inbox) : ops[inbox[i]].step = "sent"
  /\ \A i, j \in 1..Len(inbox) : inbox[i] = inbox[j] => i = j

\* The mail leads from what the renderer knows to what the session is in.
MailLeads ==
  /\ clock \in Nat /\ IsApp(app)
  /\ \E t \in Nat : /\ app.backend.at <= t /\ app.connectionAt <= t /\ Recorded(app, t)
                    /\ Reaches(mail, app.generation, t, peer.generation, clock, biased)

IsScope(s) == s.epoch \in Nat /\ s.generation \in Nat

\* What is reported is of the session that was shown when the effects last ran, or of the
\* one that is shown; none is later than what the renderer knows, and of the session it
\* knows a bias is reported only when it was applied.
ReportIsRight ==
  /\ IsScope(feedback.scope) /\ NotBefore(Scope(app), feedback.scope)
  /\ \/ /\ feedback.scope = effected.now.scope
        /\ effected.now.backend = "running" /\ effected.now.connection = "streaming"
     \/ feedback.scope = Scope(shown) /\ Streams(shown)
  /\ feedback.result = "success" /\ feedback.scope = Scope(app) =>
       feedback.scope.generation \in biased

FeedbackIsRight ==
  /\ due \in Nat /\ IsScope(Scope(shown)) /\ NotBefore(Scope(app), Scope(shown))
  /\ due = 0 => effected.now = Dependencies(shown)
  /\ feedback # NoFeedback => ReportIsRight

PeerIsKnown == IsPeer(peer) /\ (peer.backend # "running" => peer.generation = 0)

ControlsAreRight ==
  /\ PeerIsKnown /\ MailLeads /\ EntriesAreRight
  /\ RequestsAre(calls, BiasToken) /\ InboxIsRight /\ FeedbackIsRight

ControlsInvariant == CalmInvariant /\ ControlsAreRight

\* More tokens were given, and the bias that waits is the same, or none that waited.
LEMMA TokensAreNew ==
  ASSUME NEW n \in Nat, NEW token, NEW m \in Nat, m >= n, NEW next, next = token \/ next \notin 1..n
  PROVE  /\ \A c, o : IsRequest(c, o, n, token) => IsRequest(c, o, m, next)
         /\ \A q : Addressed(q, n, token) => Addressed(q, m, next)
<1>1. \A s \in SUBSET (1..n) : s \in SUBSET (1..m) /\ (token \notin s => next \notin s)
  <2>1. \A x \in 1..n : x \in 1..m
    OBVIOUS
  <2> QED
    BY <2>1, Zenon
<1>2. ASSUME NEW c, NEW o, IsRequest(c, o, n, token) PROVE IsRequest(c, o, m, next)
  BY <1>1, <1>2 DEF IsRequest
<1>3. ASSUME NEW q, Addressed(q, n, token) PROVE Addressed(q, m, next)
  BY <1>1, <1>3 DEF Addressed
<1> QED
  BY <1>2, <1>3

LEMMA AddressedJoined ==
  ASSUME NEW p, NEW q, CalmMail(p), CalmMail(q), NEW n, NEW token,
         Addressed(p, n, token), Addressed(q, n, token)
  PROVE  Addressed(p \o q, n, token)
<1>1. PICK a \in Nat, b \in Nat : a = Len(p) /\ b = Len(q)
  BY JoinedIs
<1>2. PICK r : r = p \o q
  OBVIOUS
<1>3. Len(r) = a + b /\ \A k \in 1..(a + b) : r[k] = IF k <= a THEN p[k] ELSE q[k - a]
  BY <1>1, <1>2, JoinedIs
<1>4. ASSUME NEW k \in 1..(a + b), r[k].type = "reply"
      PROVE  r[k].callers \in SUBSET (1..n) /\ (r[k].channel # "bias" => token \notin r[k].callers)
  <2>1. CASE k <= a
    <3>1. r[k] = p[k] /\ k \in 1..a
      BY <1>3, <2>1
    <3> QED
      BY <1>1, <1>4, <3>1 DEF Addressed
  <2>2. CASE ~(k <= a)
    <3>1. PICK j \in 1..b : j = k - a
      BY <2>2
    <3>2. r[k] = q[j]
      BY <1>3, <2>2, <3>1
    <3> QED
      BY <1>1, <1>4, <3>2 DEF Addressed
  <2> QED
    BY <2>1, <2>2
<1> QED
  BY <1>3, <1>4, <1>2 DEF Addressed

LEMMA AppendedIsJoined ==
  ASSUME NEW q, CalmMail(q), NEW e
  PROVE  Append(q, e) = q \o <<e>>
<1>1. PICK S : q \in Seq(S)
  BY DEF CalmMail
<1> QED
  BY <1>1

\* A list of answers, of which a bias is reported as applied only when it was.
AreReplies(q, n, token, yes) ==
  /\ CalmMail(q) /\ Addressed(q, n, token)
  /\ \A k \in 1..Len(q) : q[k].type = "reply" /\ (Applied(q[k]) => yes)

\* The answer to those who wait for a request.
LEMMA ReplyIsRight ==
  ASSUME NEW c, NEW o, NEW n, NEW token, IsRequest(c, o, n, token), o.step # "free",
         NEW result, NEW yes, c = "bias" /\ result = "ok" => yes,
         NEW e, e = [type |-> "reply", channel |-> c, callers |-> o.callers,
                     result |-> result, at |-> 0]
  PROVE  AreReplies(<<e>>, n, token, yes)
<1>1. o # NoOp
  BY DEF NoOp
<1>2. o.callers \in SUBSET (1..n) /\ (c # "bias" => token \notin o.callers)
  BY <1>1 DEF IsRequest
<1>3. /\ e.type = "reply" /\ e.channel = c /\ e.callers = o.callers /\ e.result = result
      /\ "type" \in DOMAIN e
  OBVIOUS
<1>4. CalmMail(<<e>>)
  BY <1>3, CalmOne DEF CalmTypes
<1>5. PICK q : q = <<e>>
  OBVIOUS
<1>6. Len(q) = 1 /\ q[1] = e /\ \A k \in 1..1 : k = 1
  BY <1>5
<1>7. Addressed(q, n, token)
  BY <1>2, <1>3, <1>6 DEF Addressed
<1>8. \A k \in 1..Len(q) : q[k].type = "reply" /\ (Applied(q[k]) => yes)
  BY <1>3, <1>6 DEF Applied
<1> QED
  BY <1>4, <1>5, <1>7, <1>8 DEF AreReplies

\* Messages are sent behind those on their way.
LEMMA MailIsSent ==
  ASSUME MailLeads, CalmMail(mail), NEW x, CalmMail(x), mail' = mail \o x, app' = app,
         clock' \in Nat, \A g \in biased : g \in biased',
         Reaches(x, peer.generation, clock, peer'.generation, clock', biased')
  PROVE  MailLeads'
<1>1. PICK t \in Nat : /\ app.backend.at <= t /\ app.connectionAt <= t /\ Recorded(app, t)
                       /\ Reaches(mail, app.generation, t, peer.generation, clock, biased)
  BY DEF MailLeads
<1>2. PICK C : C = biased'
  OBVIOUS
<1>3. Reaches(mail, app.generation, t, peer.generation, clock, C)
  BY <1>1, <1>2, WayStays
<1>4. PICK g, u : g = peer'.generation /\ u = clock'
  OBVIOUS
<1>5. Reaches(mail \o x, app.generation, t, g, u, C)
  BY <1>2, <1>3, <1>4, WaysAreJoined
<1>6. Reaches(mail, app.generation, t, peer.generation, clock, biased)'
  BY <1>2, <1>4, <1>5
<1>7. Recorded(app, t)'
  BY <1>1 DEF Recorded
<1> QED
  BY <1>1, <1>6, <1>7 DEF MailLeads

LEMMA RepliesAreSent ==
  ASSUME MailLeads, CalmMail(mail), peer.generation \in Nat, NEW x, NEW n, NEW token, NEW yes,
         AreReplies(x, n, token, yes), mail' = mail \o x, yes => peer.generation \in biased',
         app' = app, peer' = peer, clock' = clock, \A g \in biased : g \in biased'
  PROVE  MailLeads'
<1>1. clock \in Nat
  BY DEF MailLeads
<1>2. PICK C : C = biased'
  OBVIOUS
<1>3. Reaches(x, peer.generation, clock, peer.generation, clock, C)
  BY <1>1, <1>2, RepliesLeadNowhere DEF AreReplies
<1>4. Reaches(x, peer.generation, clock, peer'.generation, clock', biased')
  BY <1>2, <1>3
<1> QED
  BY <1>1, <1>4, MailIsSent DEF AreReplies

\* One request changes.
LEMMA RequestIsSet ==
  ASSUME NEW n, NEW token, RequestsAre(n, token), NEW c \in Channels, NEW o,
         IsRequest(c, o, n, token), ops' = [ops EXCEPT ![c] = o], Addressed(mail', n, token)
  PROVE  /\ RequestsAre(n, token)' /\ ops'[c] = o
         /\ \A d \in Channels \ {c} : ops'[d] = ops[d]
<1>1. /\ ops' = [d \in Channels |-> ops'[d]] /\ ops'[c] = o
      /\ \A d \in Channels \ {c} : ops'[d] = ops[d]
  BY DEF RequestsAre
<1>2. \A d \in Channels : IsRequest(d, ops'[d], n, token)
  <2> SUFFICES ASSUME NEW d \in Channels PROVE IsRequest(d, ops'[d], n, token)
    OBVIOUS
  <2>1. CASE d = c
    BY <1>1, <2>1
  <2>2. CASE d # c
    BY <1>1, <2>2 DEF RequestsAre
  <2> QED
    BY <2>1, <2>2
<1> QED
  BY <1>1, <1>2 DEF RequestsAre

LEMMA RequestIsMoved ==
  ASSUME NEW c, NEW o, NEW n, NEW token, IsRequest(c, o, n, token), o.step # "free",
         NEW state \in {"sent", "saving"}
  PROVE  IsRequest(c, [o EXCEPT !.step = state], n, token) /\ [o EXCEPT !.step = state].step = state
<1>1. o # NoOp
  BY DEF NoOp
<1>2. PICK r : r = [o EXCEPT !.step = state]
  OBVIOUS
<1>3. /\ DOMAIN r = {"step", "kind", "callers", "result"} /\ r = [f \in DOMAIN r |-> r[f]]
      /\ r.step = state /\ r.callers = o.callers /\ r.kind = o.kind
  BY <1>1, <1>2 DEF IsRequest
<1>4. IsRequest(c, r, n, token)
  BY <1>1, <1>3 DEF IsRequest
<1> QED
  BY <1>2, <1>3, <1>4

\* No channel of a command that the companion has moves.
LEMMA InboxStays ==
  ASSUME InboxIsRight, inbox' = inbox, peer.backend = "running" => peer'.backend = "running",
         \A c \in Channels : ops[c].step = "sent" => ops'[c].step = "sent"
  PROVE  InboxIsRight'
<1>1. \A i \in 1..Len(inbox) : inbox[i] \in Channels
  BY ElementOfSeq DEF InboxIsRight
<1>2. \A i \in 1..Len(inbox) : ops'[inbox[i]].step = "sent"
  BY <1>1 DEF InboxIsRight
<1> QED
  BY <1>2 DEF InboxIsRight

\* What was reported still stands, or nothing is reported.
LEMMA ReportStays ==
  ASSUME FeedbackIsRight, UNCHANGED <<app, shown, due, effected>>, feedback' \in {feedback, NoFeedback},
         \A g \in biased : g \in biased'
  PROVE  FeedbackIsRight'
<1>1. feedback' # NoFeedback => ReportIsRight'
  BY DEF FeedbackIsRight, ReportIsRight
<1> QED
  BY <1>1 DEF FeedbackIsRight
-----------------------------------------------------------------------------
(* The controls: their steps *)

LEMMA NoReplies ==
  ASSUME CalmMail(mail), NEW n, NEW token
  PROVE  AreReplies(<<>>, n, token, FALSE) /\ mail = mail \o <<>>
<1>1. PICK S : mail \in Seq(S)
  BY DEF CalmMail
<1>2. mail = mail \o <<>>
  BY <1>1, ConcatEmptySeq
<1>3. CalmMail(<<>>)
  BY CalmNothing
<1>4. Addressed(<<>>, n, token)
  BY DEF Addressed
<1>5. \A k \in 1..Len(<<>>) : FALSE
  OBVIOUS
<1> QED
  BY <1>2, <1>3, <1>4, <1>5 DEF AreReplies

LEMMA RepliesAreAddressed ==
  ASSUME CalmMail(mail), NEW n, NEW token, RequestsAre(n, token), NEW x, NEW yes,
         AreReplies(x, n, token, yes), mail' = mail \o x
  PROVE  Addressed(mail', n, token)
  BY AddressedJoined DEF RequestsAre, AreReplies

\* A command is sent to the companion, or answered at once where none runs.
LEMMA CommandIsSent ==
  ASSUME CalmMail(mail), NEW n, NEW token, RequestsAre(n, token), InboxIsRight,
         NEW c \in Channels, NEW o, IsRequest(c, o, n, token), o.step # "free",
         ops[c].step # "sent", Commands(c, o), peer' = peer
  PROVE  /\ RequestsAre(n, token)' /\ InboxIsRight'
         /\ \E x : AreReplies(x, n, token, FALSE) /\ mail' = mail \o x
<1>1. CASE peer.backend = "running"
  <2>1. /\ inbox' = Append(inbox, c) /\ mail' = mail
        /\ ops' = [ops EXCEPT ![c] = [o EXCEPT !.step = "sent"]]
    BY <1>1 DEF Commands
  <2>2. PICK r : r = [o EXCEPT !.step = "sent"]
    OBVIOUS
  <2>3. IsRequest(c, r, n, token) /\ r.step = "sent"
    BY <2>2, RequestIsMoved
  <2>4. Addressed(mail', n, token)
    BY <2>1 DEF RequestsAre
  <2>5. RequestsAre(n, token)' /\ ops'[c] = r /\ \A d \in Channels \ {c} : ops'[d] = ops[d]
    <3>1. ops' = [ops EXCEPT ![c] = r]
      BY <2>1, <2>2
    <3> QED
      BY <2>3, <2>4, <3>1, RequestIsSet
  <2>6. inbox \in Seq(Channels)
    BY DEF InboxIsRight
  <2>7. PICK m \in Nat : m = Len(inbox)
    BY <2>6, LenProperties
  <2>8. /\ inbox' \in Seq(Channels) /\ Len(inbox') = m + 1 /\ inbox'[m + 1] = c
        /\ \A i \in 1..m : inbox'[i] = inbox[i]
    BY <2>1, <2>6, <2>7, AppendProperties
  <2>9. \A i \in 1..m : inbox[i] \in Channels /\ ops[inbox[i]].step = "sent" /\ inbox[i] # c
    BY <2>6, <2>7, ElementOfSeq DEF InboxIsRight
  <2>10. \A i \in 1..(m + 1) : i \in 1..m \/ i = m + 1
    OBVIOUS
  <2>11. \A i \in 1..(m + 1) : ops'[inbox'[i]].step = "sent"
    BY <2>3, <2>5, <2>8, <2>9, <2>10
  <2>12. \A i, j \in 1..(m + 1) : inbox'[i] = inbox'[j] => i = j
    BY <2>7, <2>8, <2>9, <2>10 DEF InboxIsRight
  <2>13. InboxIsRight'
    BY <1>1, <2>8, <2>11, <2>12 DEF InboxIsRight
  <2> QED
    BY <2>1, <2>5, <2>13, NoReplies
<1>2. CASE ~(peer.backend = "running")
  <2>1. PICK e : e = [type |-> "reply", channel |-> c, callers |-> o.callers,
                      result |-> "thrown", at |-> 0]
    OBVIOUS
  <2>2. e = [type |-> "reply", channel |-> c, at |-> 0, callers |-> o.callers,
             result |-> "thrown"]
    BY <2>1
  <2>3. mail' = Append(mail, e) /\ ops' = [ops EXCEPT ![c] = NoOp] /\ inbox' = inbox
    BY <1>2, <2>2 DEF Commands
  <2>4. mail' = mail \o <<e>>
    BY <2>3, AppendedIsJoined
  <2>5. AreReplies(<<e>>, n, token, FALSE)
    BY <2>1, ReplyIsRight
  <2>6. Addressed(mail', n, token)
    BY <2>4, <2>5, RepliesAreAddressed
  <2>7. IsRequest(c, NoOp, n, token)
    BY DEF IsRequest
  <2>8. RequestsAre(n, token)' /\ \A d \in Channels \ {c} : ops'[d] = ops[d]
    BY <2>3, <2>6, <2>7, RequestIsSet
  <2>9. \A d \in Channels : ops[d].step = "sent" => ops'[d].step = "sent"
    BY <2>8
  <2>10. InboxIsRight'
    BY <2>3, <2>9, InboxStays
  <2> QED
    BY <2>4, <2>5, <2>8, <2>10
<1> QED
  BY <1>1, <1>2

\* The main process and the companion move, and nothing in the renderer.
LEMMA MainMoves ==
  ASSUME ControlsInvariant, UNCHANGED <<app, shown, due, effected, feedback, pending, calls>>,
         PeerIsKnown', MailLeads', RequestsAre(calls, BiasToken)', InboxIsRight',
         \A g \in biased : g \in biased'
  PROVE  ControlsAreRight'
<1>1. EntriesAreRight'
  BY DEF ControlsInvariant, ControlsAreRight, EntriesAreRight, BiasToken
<1>2. FeedbackIsRight'
  BY ReportStays DEF ControlsInvariant, ControlsAreRight
<1> QED
  BY <1>1, <1>2 DEF ControlsAreRight

LEMMA RequestsAreKnown ==
  ASSUME NEW n, n = calls', NEW token, token = BiasToken', RequestsAre(n, token)'
  PROVE  RequestsAre(calls, BiasToken)'
  BY DEF RequestsAre

LEMMA DialogIsAnswered ==
  ASSUME ControlsInvariant, DialogAnswered
  PROVE  ControlsAreRight'
<1>1. PICK c \in {"bias", "record"} :
        /\ ops[c].step = "asked"
        /\ \/ Commands(c, ops[c])
           \/ \E result \in {"cancelled", "thrown"} :
                /\ mail' = Append(mail, Reply(c, result))
                /\ ops' = [ops EXCEPT ![c] = NoOp] /\ inbox' = inbox
  BY DEF DialogAnswered
<1>2. UNCHANGED <<peer, clock, app, shown, due, effected, feedback, pending, calls, biased>>
  BY DEF DialogAnswered, world, renderer
<1>3. PICK n, token : n = calls /\ token = BiasToken
  OBVIOUS
<1>4. /\ CalmMail(mail) /\ PeerIsKnown /\ MailLeads /\ RequestsAre(n, token) /\ InboxIsRight
  BY <1>3 DEF ControlsInvariant, ControlsAreRight, CalmInvariant
<1>5. c \in Channels
  BY DEF Channels, Channel, Kinds
<1>6. PICK o : o = ops[c]
  OBVIOUS
<1>7. IsRequest(c, o, n, token) /\ o.step = "asked"
  BY <1>1, <1>4, <1>5, <1>6 DEF RequestsAre
<1>8. /\ RequestsAre(n, token)' /\ InboxIsRight'
      /\ \E x : AreReplies(x, n, token, FALSE) /\ mail' = mail \o x
  <2>1. CASE Commands(c, o)
    BY <1>2, <1>4, <1>5, <1>6, <1>7, <2>1, CommandIsSent
  <2>2. CASE \E result \in {"cancelled", "thrown"} :
               /\ mail' = Append(mail, Reply(c, result))
               /\ ops' = [ops EXCEPT ![c] = NoOp] /\ inbox' = inbox
    <3>1. PICK result \in {"cancelled", "thrown"} :
            /\ mail' = Append(mail, Reply(c, result))
            /\ ops' = [ops EXCEPT ![c] = NoOp] /\ inbox' = inbox
      BY <2>2
    <3>2. PICK e : e = [type |-> "reply", channel |-> c, callers |-> o.callers,
                        result |-> result, at |-> 0]
      OBVIOUS
    <3>3. Reply(c, result) = e
      BY <1>6, <3>2 DEF Reply
    <3>4. mail' = mail \o <<e>>
      BY <1>4, <3>1, <3>3, AppendedIsJoined
    <3>5. AreReplies(<<e>>, n, token, FALSE)
      BY <1>7, <3>2, ReplyIsRight
    <3>6. Addressed(mail', n, token)
      BY <1>4, <3>4, <3>5, RepliesAreAddressed
    <3>7. IsRequest(c, NoOp, n, token)
      BY DEF IsRequest
    <3>8. RequestsAre(n, token)' /\ \A d \in Channels \ {c} : ops'[d] = ops[d]
      BY <1>4, <1>5, <3>1, <3>6, <3>7, RequestIsSet
    <3>9. \A d \in Channels : ops[d].step = "sent" => ops'[d].step = "sent"
      BY <1>6, <1>7, <3>8
    <3>10. InboxIsRight'
      BY <1>2, <1>4, <3>1, <3>9, InboxStays
    <3> QED
      BY <3>4, <3>5, <3>8, <3>10
  <2> QED
    BY <1>1, <1>6, <2>1, <2>2
<1>9. PICK x : AreReplies(x, n, token, FALSE) /\ mail' = mail \o x
  BY <1>8
<1>10. peer.generation \in Nat
  BY <1>4 DEF PeerIsKnown, IsPeer
<1>11. MailLeads'
  BY <1>2, <1>4, <1>9, <1>10, RepliesAreSent
<1>12. n = calls' /\ token = BiasToken'
  BY <1>2, <1>3 DEF BiasToken
<1>13. RequestsAre(calls, BiasToken)'
  BY <1>8, <1>12, RequestsAreKnown
<1>14. PeerIsKnown'
  BY <1>2, <1>4 DEF PeerIsKnown
<1> QED
  BY <1>2, <1>8, <1>11, <1>13, <1>14, MainMoves

LEMMA HostIsStored ==
  ASSUME ControlsInvariant, HostStored
  PROVE  ControlsAreRight'
<1>1. /\ ops["connect"].step = "saving" /\ mail' = Append(mail, Reply("connect", "ok"))
      /\ ops' = [ops EXCEPT !["connect"] = NoOp] /\ inbox' = inbox
  BY DEF HostStored
<1>2. UNCHANGED <<peer, clock, app, shown, due, effected, feedback, pending, calls, biased>>
  BY DEF HostStored, world, renderer
<1>3. PICK n, token : n = calls /\ token = BiasToken
  OBVIOUS
<1>4. /\ CalmMail(mail) /\ PeerIsKnown /\ MailLeads /\ RequestsAre(n, token) /\ InboxIsRight
  BY <1>3 DEF ControlsInvariant, ControlsAreRight, CalmInvariant
<1>5. PICK c : c = "connect"
  OBVIOUS
<1>6. c \in Channels
  BY <1>5 DEF Channels, Channel, Kinds
<1>7. PICK o : o = ops[c]
  OBVIOUS
<1>8. IsRequest(c, o, n, token) /\ o.step = "saving"
  BY <1>1, <1>4, <1>5, <1>6, <1>7 DEF RequestsAre
<1>9. PICK e : e = [type |-> "reply", channel |-> c, callers |-> o.callers,
                    result |-> "ok", at |-> 0]
  OBVIOUS
<1>10. mail' = mail \o <<e>>
  <2>1. Reply("connect", "ok") = e
    BY <1>5, <1>7, <1>9 DEF Reply
  <2> QED
    BY <1>1, <1>4, <2>1, AppendedIsJoined
<1>11. AreReplies(<<e>>, n, token, FALSE)
  BY <1>5, <1>8, <1>9, ReplyIsRight
<1>12. Addressed(mail', n, token)
  BY <1>4, <1>10, <1>11, RepliesAreAddressed
<1>13. RequestsAre(n, token)' /\ \A d \in Channels \ {c} : ops'[d] = ops[d]
  <2>1. IsRequest(c, NoOp, n, token)
    BY DEF IsRequest
  <2> QED
    BY <1>1, <1>4, <1>5, <1>6, <1>12, <2>1, RequestIsSet
<1>14. InboxIsRight'
  <2>1. \A d \in Channels : ops[d].step = "sent" => ops'[d].step = "sent"
    BY <1>7, <1>8, <1>13
  <2> QED
    BY <1>1, <1>2, <1>4, <2>1, InboxStays
<1>15. peer.generation \in Nat
  BY <1>4 DEF PeerIsKnown, IsPeer
<1>16. MailLeads'
  BY <1>2, <1>4, <1>10, <1>11, <1>15, RepliesAreSent
<1>17. n = calls' /\ token = BiasToken'
  BY <1>2, <1>3 DEF BiasToken
<1>18. RequestsAre(calls, BiasToken)'
  BY <1>13, <1>17, RequestsAreKnown
<1>19. PeerIsKnown'
  BY <1>2, <1>4 DEF PeerIsKnown
<1> QED
  BY <1>2, <1>14, <1>16, <1>18, <1>19, MainMoves

\* The answer of the companion is told to those who wait, where it is one.
LEMMA ToldIsRight ==
  ASSUME NEW n, NEW token, RequestsAre(n, token), NEW c \in Channels, ops[c].step # "free",
         NEW does, NEW told, told = Told(c, does)
  PROVE  AreReplies(told, n, token, c = "bias" /\ does.ok)
<1>1. PICK o : o = ops[c]
  OBVIOUS
<1>2. IsRequest(c, o, n, token) /\ o.step # "free"
  BY <1>1 DEF RequestsAre
<1>3. PICK result : result = Result(does)
  OBVIOUS
<1>4. PICK e : e = [type |-> "reply", channel |-> c, callers |-> o.callers,
                    result |-> result, at |-> 0]
  OBVIOUS
<1>5. Reply(c, Result(does)) = e
  BY <1>1, <1>3, <1>4 DEF Reply
<1>6. told = <<>> \/ told = <<e>>
  BY <1>5 DEF Told
<1>7. c = "bias" /\ result = "ok" => c = "bias" /\ does.ok
  BY <1>3 DEF Result
<1>8. AreReplies(<<e>>, n, token, c = "bias" /\ does.ok)
  BY <1>2, <1>4, <1>7, ReplyIsRight
<1>9. AreReplies(<<>>, n, token, c = "bias" /\ does.ok)
  <2>1. CalmMail(<<>>)
    BY CalmNothing
  <2>2. Addressed(<<>>, n, token)
    BY DEF Addressed
  <2>3. \A k \in 1..Len(<<>>) : FALSE
    OBVIOUS
  <2> QED
    BY <2>1, <2>2, <2>3 DEF AreReplies
<1> QED
  BY <1>6, <1>8, <1>9

\* A request is over, or the host of its connection is to be stored.
LEMMA OverIsRight ==
  ASSUME NEW n, NEW token, RequestsAre(n, token), NEW c \in Channels, ops[c].step # "free",
         NEW does, ops' = Over(c, does), Addressed(mail', n, token)
  PROVE  RequestsAre(n, token)' /\ \A d \in Channels \ {c} : ops'[d] = ops[d]
<1>1. PICK o : o = ops[c]
  OBVIOUS
<1>2. PICK r : r = IF c = "connect" /\ does.ok THEN [o EXCEPT !.step = "saving"] ELSE NoOp
  OBVIOUS
<1>3. ops' = [ops EXCEPT ![c] = r]
  BY <1>1, <1>2 DEF Over
<1>4. IsRequest(c, o, n, token) /\ o.step # "free"
  BY <1>1 DEF RequestsAre
<1>5. IsRequest(c, [o EXCEPT !.step = "saving"], n, token)
  BY <1>4, RequestIsMoved
<1>6. IsRequest(c, NoOp, n, token)
  BY DEF IsRequest
<1>7. IsRequest(c, r, n, token)
  BY <1>2, <1>5, <1>6
<1> QED
  BY <1>3, <1>7, RequestIsSet

LEMMA AnswerIsTold ==
  ASSUME ControlsInvariant, Answered
  PROVE  ControlsAreRight'
<1>1. PICK c \in Channels :
        /\ ops[c].step = "done"
        /\ LET does == [ok |-> ops[c].result = "ok"]
           IN ops' = Over(c, does) /\ mail' = mail \o Told(c, does)
        /\ inbox' = inbox
  BY DEF Answered
<1>2. UNCHANGED <<peer, clock, app, shown, due, effected, feedback, pending, calls, biased>>
  BY DEF Answered, world, renderer
<1>3. PICK n, token : n = calls /\ token = BiasToken
  OBVIOUS
<1>4. /\ CalmMail(mail) /\ PeerIsKnown /\ MailLeads /\ RequestsAre(n, token) /\ InboxIsRight
  BY <1>3 DEF ControlsInvariant, ControlsAreRight, CalmInvariant
<1>5. c # "bias"
  BY <1>1, <1>4 DEF RequestsAre, IsRequest, NoOp
<1>6. PICK does : ops' = Over(c, does) /\ mail' = mail \o Told(c, does)
  BY <1>1
<1>7. PICK told, yes : told = Told(c, does) /\ yes = (c = "bias" /\ does.ok)
  OBVIOUS
<1>8. AreReplies(told, n, token, yes)
  BY <1>1, <1>4, <1>7, ToldIsRight
<1>9. mail' = mail \o told /\ ~yes
  BY <1>5, <1>6, <1>7
<1>10. Addressed(mail', n, token)
  BY <1>4, <1>8, <1>9, RepliesAreAddressed
<1>11. RequestsAre(n, token)' /\ \A d \in Channels \ {c} : ops'[d] = ops[d]
  BY <1>1, <1>4, <1>6, <1>10, OverIsRight
<1>12. InboxIsRight'
  <2>1. \A d \in Channels : ops[d].step = "sent" => ops'[d].step = "sent"
    BY <1>1, <1>11
  <2> QED
    BY <1>1, <1>2, <1>4, <2>1, InboxStays
<1>13. peer.generation \in Nat
  BY <1>4 DEF PeerIsKnown, IsPeer
<1>14. MailLeads'
  BY <1>2, <1>4, <1>8, <1>9, <1>13, RepliesAreSent
<1>15. n = calls' /\ token = BiasToken'
  BY <1>2, <1>3 DEF BiasToken
<1>16. RequestsAre(calls, BiasToken)'
  BY <1>11, <1>15, RequestsAreKnown
<1>17. PeerIsKnown'
  BY <1>2, <1>4 DEF PeerIsKnown
<1> QED
  BY <1>2, <1>12, <1>14, <1>16, <1>17, MainMoves

LEMMA CalmIsAssociative ==
  ASSUME NEW p, NEW r, NEW s, CalmMail(p), CalmMail(r), CalmMail(s),
         NEW a, a = p \o r, NEW b, b = r \o s
  PROVE  a \o s = p \o b
<1>1. PICK S, T, U : p \in Seq(S) /\ r \in Seq(T) /\ s \in Seq(U)
  BY DEF CalmMail
<1>2. PICK A : A = S \union (T \union U)
  OBVIOUS
<1>3. p \in Seq(A) /\ r \in Seq(A) /\ s \in Seq(A)
  <2>1. /\ \A i \in 1..Len(p) : p[i] \in A
        /\ \A i \in 1..Len(r) : r[i] \in A
        /\ \A i \in 1..Len(s) : s[i] \in A
    BY <1>1, <1>2, ElementOfSeq
  <2> QED
    BY <1>1, <2>1, SeqInside
<1> QED
  BY <1>3, ConcatAssociative

\* Events are sent, answers perhaps before or behind them.
LEMMA EventsGo ==
  ASSUME CalmMail(mail), MailLeads, IsPeer(peer), IsPeer(peer'),
         NEW ahead, NEW es, NEW behind, NEW n, NEW token, NEW yes,
         AreReplies(ahead, n, token, yes), AreReplies(behind, n, token, FALSE),
         CalmMail(es), Sendable(es, peer.generation, peer'.generation), Addressed(mail, n, token),
         mail' = ((mail \o ahead) \o Stamped(es)) \o behind,
         app' = app, clock' = clock + Len(es), \A g \in biased : g \in biased',
         yes => peer.generation \in biased'
  PROVE  MailLeads' /\ Addressed(mail', n, token)
<1>1. PICK g \in Nat, h \in Nat : g = peer.generation /\ h = peer'.generation
  BY DEF IsPeer
<1>2. PICK C : C = biased'
  OBVIOUS
<1>3. clock \in Nat
  BY DEF MailLeads
<1>4. PICK q : q = Stamped(es)
  OBVIOUS
<1>5. /\ Len(es) \in Nat /\ Len(q) = Len(es) /\ \A i \in 1..Len(es) : q[i].type # "reply"
      /\ Reaches(q, g, clock, h, clock + Len(es), C)
  BY <1>1, <1>3, <1>4, EventsLead
<1>6. PICK u \in Nat : u = clock + Len(es)
  BY <1>3, <1>5
<1>7. CalmMail(q) /\ CalmMail(ahead) /\ CalmMail(behind)
  BY <1>4, CalmStamped DEF AreReplies
<1>8. Reaches(ahead, g, clock, g, clock, C)
  BY <1>1, <1>2, <1>3, RepliesLeadNowhere DEF AreReplies
<1>9. Reaches(behind, h, u, h, u, C)
  BY <1>1, <1>6, RepliesLeadNowhere DEF AreReplies
<1>10. Reaches(q, g, clock, h, u, C)
  BY <1>5, <1>6
<1>11. CalmMail(ahead \o q) /\ Reaches(ahead \o q, g, clock, h, u, C)
  BY <1>7, <1>8, <1>10, WaysAreJoined, CalmBoth
<1>12. PICK x : x = (ahead \o q) \o behind
  OBVIOUS
<1>13. CalmMail(x) /\ Reaches(x, g, clock, h, u, C)
  BY <1>7, <1>9, <1>11, <1>12, WaysAreJoined, CalmBoth
<1>14. mail' = mail \o x
  <2>1. PICK r, m, a, b : r = ahead \o q /\ m = mail /\ a = m \o ahead /\ b = m \o r
    OBVIOUS
  <2>2. CalmMail(m) /\ CalmMail(r)
    BY <1>11, <2>1
  <2>3. a \o q = m \o r
    <3>1. CalmMail(m) /\ CalmMail(ahead) /\ CalmMail(q) /\ a = m \o ahead /\ r = ahead \o q
      BY <1>7, <2>1, <2>2
    <3> QED
      BY <3>1, CalmIsAssociative
  <2>4. PICK y : y = r \o behind
    OBVIOUS
  <2>5. b \o behind = m \o y
    <3>1. CalmMail(m) /\ CalmMail(r) /\ CalmMail(behind) /\ b = m \o r /\ y = r \o behind
      BY <1>7, <2>1, <2>2, <2>4
    <3> QED
      BY <3>1, CalmIsAssociative
  <2>6. mail' = (a \o q) \o behind /\ x = y
    BY <1>4, <1>12, <2>1, <2>4
  <2> QED
    BY <2>1, <2>3, <2>5, <2>6
<1>15. MailLeads'
  <2>1. Reaches(x, peer.generation, clock, peer'.generation, clock', biased')
    BY <1>1, <1>2, <1>6, <1>13
  <2> QED
    BY <1>6, <1>13, <1>14, <2>1, MailIsSent
<1>16. Addressed(mail', n, token)
  <2>1. Addressed(q, n, token)
    BY <1>5 DEF Addressed
  <2>2. Addressed(ahead \o q, n, token)
    BY <1>7, <2>1, AddressedJoined DEF AreReplies
  <2>3. Addressed(x, n, token)
    BY <1>7, <1>11, <1>12, <2>2, AddressedJoined DEF AreReplies
  <2> QED
    BY <1>13, <1>14, <2>3, AddressedJoined
<1> QED
  BY <1>15, <1>16

\* The first command of the companion's is answered: it is no longer there.
LEMMA InboxGoesOn ==
  ASSUME InboxIsRight, inbox # <<>>, inbox' = Tail(inbox), peer'.backend = peer.backend,
         \A d \in Channels \ {Head(inbox)} : ops'[d] = ops[d]
  PROVE  InboxIsRight'
<1>1. inbox \in Seq(Channels)
  BY DEF InboxIsRight
<1>2. PICK m \in Nat : m + 1 = Len(inbox)
  <2>1. Len(inbox) \in Nat /\ Len(inbox) # 0
    BY <1>1, EmptySeq, LenProperties
  <2>2. Len(inbox) - 1 \in Nat /\ (Len(inbox) - 1) + 1 = Len(inbox)
    BY <2>1
  <2> QED
    BY <2>2
<1>3. /\ inbox' \in Seq(Channels) /\ Len(inbox') = m /\ Head(inbox) = inbox[1]
      /\ \A i \in 1..m : inbox'[i] = inbox[i + 1]
  <2>1. Len(inbox') = Len(inbox) - 1
    BY <1>1, HeadTailProperties
  <2>2. Len(inbox') = m
    BY <1>2, <2>1
  <2>3. inbox' \in Seq(Channels) /\ \A i \in 1..Len(inbox') : inbox'[i] = inbox[i + 1]
    BY <1>1, HeadTailProperties
  <2>4. Head(inbox) = inbox[1]
    BY <1>1, HeadTailProperties
  <2> QED
    BY <2>2, <2>3, <2>4
<1>4. \A i \in 1..m : i + 1 \in 1..Len(inbox) /\ 1 \in 1..Len(inbox) /\ i + 1 # 1
  BY <1>2
<1>5. \A i \in 1..m : inbox'[i] \in Channels \ {Head(inbox)} /\ ops[inbox'[i]].step = "sent"
  <2> SUFFICES ASSUME NEW i \in 1..m
               PROVE  inbox'[i] \in Channels \ {Head(inbox)} /\ ops[inbox'[i]].step = "sent"
    OBVIOUS
  <2>1. inbox'[i] = inbox[i + 1] /\ inbox[i + 1] \in Channels /\ inbox[i + 1] # inbox[1]
    BY <1>1, <1>3, <1>4, ElementOfSeq DEF InboxIsRight
  <2>2. ops[inbox[i + 1]].step = "sent"
    BY <1>4 DEF InboxIsRight
  <2> QED
    BY <1>3, <2>1, <2>2
<1>6. \A i, j \in 1..m : inbox'[i] = inbox'[j] => i = j
  <2> SUFFICES ASSUME NEW i \in 1..m, NEW j \in 1..m, inbox'[i] = inbox'[j] PROVE i = j
    OBVIOUS
  <2>1. inbox[i + 1] = inbox[j + 1]
    BY <1>3
  <2>2. i + 1 = j + 1
    BY <1>4, <2>1 DEF InboxIsRight
  <2> QED
    BY <2>2
<1>7. \A i \in 1..m : ops'[inbox'[i]].step = "sent"
  BY <1>5
<1>8. peer'.backend = "running"
  BY DEF InboxIsRight
<1> QED
  BY <1>3, <1>6, <1>7, <1>8 DEF InboxIsRight

LEMMA CommandIsAnswered ==
  ASSUME ControlsInvariant, Executes
  PROVE  ControlsAreRight'
<1>1. PICK c : c = Head(inbox)
  OBVIOUS
<1>2. /\ inbox # <<>> /\ inbox' = Tail(inbox)
      /\ UNCHANGED <<app, shown, due, effected, feedback, pending, calls>>
  BY DEF Executes, renderer
<1>3. PICK n, token : n = calls /\ token = BiasToken
  OBVIOUS
<1>4. CalmMail(mail) /\ PeerIsKnown /\ MailLeads /\ RequestsAre(n, token) /\ InboxIsRight
  BY <1>3 DEF ControlsInvariant, ControlsAreRight, CalmInvariant
<1>5. c \in Channels /\ ops[c].step = "sent" /\ peer.backend = "running"
  <2>1. inbox \in Seq(Channels) /\ peer.backend = "running"
    BY <1>2, <1>4 DEF InboxIsRight
  <2>2. 1 \in 1..Len(inbox)
    <3>1. Len(inbox) \in Nat /\ Len(inbox) # 0
      BY <1>2, <2>1, EmptySeq, LenProperties
    <3> QED
      BY <3>1
  <2>3. c = inbox[1]
    BY <1>1, <1>2, <2>1, HeadTailProperties
  <2> QED
    BY <1>4, <2>1, <2>2, <2>3, ElementOfSeq DEF InboxIsRight
<1>6. PICK does \in Answers(ops[c].kind) :
        /\ clock' = clock + Len(does.events) /\ peer' = does.next
        /\ biased' = IF c = "bias" /\ does.ok THEN biased \union {peer.generation} ELSE biased
        /\ \/ /\ ops' = Over(c, does)
              /\ mail' = mail \o Told(c, does) \o Stamped(does.events)
           \/ /\ does.events # <<>>
              /\ ops' = [ops EXCEPT ![c].step = "done", ![c].result = Result(does)]
              /\ mail' = mail \o Stamped(does.events)
  BY <1>1 DEF Executes
<1>7. PICK o, es : o = ops[c] /\ es = does.events
  OBVIOUS
<1>8. IsRequest(c, o, n, token) /\ o.step = "sent" /\ (c = "bias" => o.kind = "bias")
  <2>1. IsRequest(c, o, n, token) /\ o.step = "sent"
    BY <1>4, <1>5, <1>7 DEF RequestsAre
  <2> QED
    BY <2>1 DEF IsRequest, NoOp
<1>9. /\ peer'.backend = "running" /\ IsPeer(peer) /\ IsPeer(peer')
      /\ Sendable(es, peer.generation, peer'.generation) /\ CalmMail(es)
      /\ c = "bias" => es = <<>>
  BY <1>4, <1>5, <1>6, <1>7, <1>8, AnswersLead, CalmAnswers DEF PeerIsKnown
<1>10. (\A g \in biased : g \in biased') /\ (c = "bias" /\ does.ok => peer.generation \in biased')
  BY <1>6
<1>11. AreReplies(<<>>, n, token, FALSE)
  BY <1>4, NoReplies
<1>12. Addressed(mail, n, token)
  BY <1>4 DEF RequestsAre
<1>13. CalmMail(Stamped(es))
  BY <1>9, CalmStamped
<1>14. ASSUME NEW q, CalmMail(q) PROVE q \o <<>> = q
  <2>1. PICK S : q \in Seq(S)
    BY <1>14 DEF CalmMail
  <2> QED
    BY <2>1, ConcatEmptySeq
<1>15. /\ MailLeads' /\ RequestsAre(n, token)'
       /\ \A d \in Channels \ {c} : ops'[d] = ops[d]
  <2>1. CASE ops' = Over(c, does) /\ mail' = mail \o Told(c, does) \o Stamped(does.events)
    <3>1. PICK told, yes : told = Told(c, does) /\ yes = (c = "bias" /\ does.ok)
      OBVIOUS
    <3>2. AreReplies(told, n, token, yes)
      BY <1>4, <1>5, <3>1, ToldIsRight
    <3>3. CalmMail((mail \o told) \o Stamped(es))
      BY <1>4, <1>13, <3>2, CalmBoth DEF AreReplies
    <3>4. mail' = (mail \o told) \o Stamped(es)
      BY <1>7, <2>1, <3>1
    <3>5. mail' = ((mail \o told) \o Stamped(es)) \o <<>>
      BY <1>14, <3>3, <3>4
    <3>6. MailLeads' /\ Addressed(mail', n, token)
      BY <1>2, <1>4, <1>6, <1>7, <1>9, <1>10, <1>11, <1>12, <3>1, <3>2, <3>5, EventsGo
    <3>7. RequestsAre(n, token)' /\ \A d \in Channels \ {c} : ops'[d] = ops[d]
      BY <1>4, <1>5, <2>1, <3>6, OverIsRight
    <3> QED
      BY <3>6, <3>7
  <2>2. CASE /\ es # <<>> /\ mail' = mail \o Stamped(es)
             /\ ops' = [ops EXCEPT ![c].step = "done", ![c].result = Result(does)]
    <3>1. CalmMail(mail \o Stamped(es)) /\ mail \o <<>> = mail
      BY <1>4, <1>13, <1>14, CalmBoth
    <3>2. mail' = ((mail \o <<>>) \o Stamped(es)) \o <<>>
      BY <1>14, <2>2, <3>1
    <3>3. MailLeads' /\ Addressed(mail', n, token)
      BY <1>2, <1>4, <1>6, <1>7, <1>9, <1>10, <1>11, <1>12, <3>2, EventsGo
    <3>4. PICK result : result = Result(does)
      OBVIOUS
    <3>5. o # NoOp /\ c # "bias"
      BY <1>8, <1>9, <2>2 DEF NoOp
    <3>6. PICK r : r = [step |-> "done", kind |-> o.kind, callers |-> o.callers, result |-> result]
      OBVIOUS
    <3>7. ops' = [ops EXCEPT ![c] = r]
      <4>1. o = [step |-> o.step, kind |-> o.kind, callers |-> o.callers, result |-> o.result]
        BY <1>8, <3>5 DEF IsRequest
      <4>2. [[o EXCEPT !.step = "done"] EXCEPT !.result = result] = r
        <5>1. PICK a, k, w, t : a = o.step /\ k = o.kind /\ w = o.callers /\ t = o.result
          OBVIOUS
        <5>2. o = [step |-> a, kind |-> k, callers |-> w, result |-> t]
          BY <4>1, <5>1
        <5>3. [o EXCEPT !.step = "done"] = [step |-> "done", kind |-> k, callers |-> w, result |-> t]
          BY <5>2
        <5>4. PICK y : y = [o EXCEPT !.step = "done"]
          OBVIOUS
        <5>5. [y EXCEPT !.result = result]
                = [step |-> "done", kind |-> k, callers |-> w, result |-> result]
          <6>1. y = [step |-> "done", kind |-> k, callers |-> w, result |-> t]
            BY <5>3, <5>4
          <6> QED
            BY <6>1
        <5> QED
          BY <3>6, <5>1, <5>4, <5>5
      <4>3. ops = [d \in Channels |-> ops[d]]
        BY <1>4 DEF RequestsAre
      <4>4. PICK x : x = [ops EXCEPT ![c].step = "done"]
        OBVIOUS
      <4>5. x = [d \in Channels |-> x[d]] /\ x[c] = [o EXCEPT !.step = "done"]
            /\ \A d \in Channels \ {c} : x[d] = ops[d]
        BY <1>5, <1>7, <4>3, <4>4
      <4>6. ops' = [x EXCEPT ![c].result = result]
        BY <2>2, <3>4, <4>4, Zenon
      <4>7. ops' = [d \in Channels |-> ops'[d]] /\ ops'[c] = r
            /\ \A d \in Channels \ {c} : ops'[d] = ops[d]
        BY <1>5, <4>2, <4>5, <4>6
      <4> QED
        BY <1>5, <4>3, <4>7
    <3>8. IsRequest(c, r, n, token)
      <4>1. o.callers \in SUBSET (1..n) /\ token \notin o.callers
        BY <1>8, <3>5 DEF IsRequest
      <4>2. DOMAIN r = {"step", "kind", "callers", "result"} /\ r.step = "done" /\ r.callers = o.callers
            /\ r = [f \in DOMAIN r |-> r[f]]
        BY <3>6
      <4> QED
        BY <3>5, <4>1, <4>2 DEF IsRequest
    <3>9. RequestsAre(n, token)' /\ \A d \in Channels \ {c} : ops'[d] = ops[d]
      BY <1>4, <1>5, <3>3, <3>7, <3>8, RequestIsSet
    <3> QED
      BY <3>3, <3>9
  <2> QED
    BY <1>6, <1>7, <2>1, <2>2
<1>16. InboxIsRight'
  BY <1>1, <1>2, <1>4, <1>5, <1>9, <1>15, InboxGoesOn
<1>17. n = calls' /\ token = BiasToken'
  BY <1>2, <1>3 DEF BiasToken
<1>18. RequestsAre(calls, BiasToken)'
  BY <1>15, <1>17, RequestsAreKnown
<1>19. PeerIsKnown'
  BY <1>9 DEF PeerIsKnown
<1> QED
  BY <1>2, <1>10, <1>15, <1>16, <1>18, <1>19, MainMoves

\* Events come unasked.
LEMMA UnaskedAreSent ==
  ASSUME ControlsInvariant, NEW es, Sends(es), CalmMail(es),
         Sendable(es, peer.generation, peer'.generation), PeerIsKnown',
         peer.backend = "running" => peer'.backend = "running",
         UNCHANGED <<renderer, main, biased>>
  PROVE  ControlsAreRight'
<1>1. /\ mail' = mail \o Stamped(es) /\ clock' = clock + Len(es)
      /\ UNCHANGED <<app, shown, due, effected, feedback, pending, calls, ops, inbox, biased>>
  BY DEF Sends, Stamped, Renderer, renderer, main
<1>2. PICK n, token : n = calls /\ token = BiasToken
  OBVIOUS
<1>3. CalmMail(mail) /\ PeerIsKnown /\ MailLeads /\ RequestsAre(n, token) /\ InboxIsRight
  BY <1>2 DEF ControlsInvariant, ControlsAreRight, CalmInvariant
<1>4. ASSUME NEW q, CalmMail(q) PROVE q \o <<>> = q
  <2>1. PICK S : q \in Seq(S)
    BY <1>4 DEF CalmMail
  <2> QED
    BY <2>1, ConcatEmptySeq
<1>5. CalmMail(Stamped(es)) /\ CalmMail(mail \o Stamped(es))
  BY <1>3, CalmStamped, CalmBoth
<1>6. mail' = ((mail \o <<>>) \o Stamped(es)) \o <<>>
  BY <1>1, <1>3, <1>4, <1>5
<1>7. AreReplies(<<>>, n, token, FALSE)
  BY <1>3, NoReplies
<1>8. MailLeads' /\ Addressed(mail', n, token)
  BY <1>1, <1>3, <1>6, <1>7, EventsGo DEF PeerIsKnown, RequestsAre
<1>9. RequestsAre(n, token)'
  BY <1>1, <1>3, <1>8 DEF RequestsAre
<1>10. n = calls' /\ token = BiasToken'
  BY <1>1, <1>2 DEF BiasToken
<1>11. RequestsAre(calls, BiasToken)'
  BY <1>9, <1>10, RequestsAreKnown
<1>12. InboxIsRight'
  BY <1>1, <1>3, InboxStays
<1> QED
  BY <1>1, <1>8, <1>11, <1>12, MainMoves

\* Nothing is left of a session when its companion comes or goes.
LEMMA NoLinkIsKnown ==
  ASSUME IsPeer(peer), NEW state, peer' = [NoLink EXCEPT !.backend = state]
  PROVE  PeerIsKnown' /\ peer'.generation = 0 /\ peer'.backend = state
<1>1. PICK x : x = NoLink
  OBVIOUS
<1>2. x = [peer EXCEPT !.link = "disconnected", !.generation = 0, !.paused = FALSE,
                       !.revision = 0, !.errors = 0, !.rejects = 0, !.recording = "idle"]
  BY <1>1, Zenon DEF NoLink
<1>3. x = [f \in DOMAIN x |-> x[f]] /\ DOMAIN x = PeerFields /\ x.generation = 0
      /\ x.errors = 0 /\ x.rejects = 0
  BY <1>2 DEF IsPeer, PeerFields
<1>4. peer' = [x EXCEPT !.backend = state]
  BY <1>1, Zenon
<1>5. PICK p : p = peer'
  OBVIOUS
<1>6. /\ p = [f \in DOMAIN p |-> p[f]] /\ DOMAIN p = PeerFields
      /\ p.generation = 0 /\ p.errors = 0 /\ p.rejects = 0 /\ p.backend = state
  BY <1>3, <1>4, <1>5 DEF PeerFields
<1>7. IsPeer(p)
  BY <1>6 DEF IsPeer
<1> QED
  BY <1>5, <1>6, <1>7 DEF PeerIsKnown

LEMMA OneIsSendable ==
  ASSUME NEW e, NEW g, NEW h, Carries(e), IsEvent(e), MayFollow(e, g), GenerationAfter(g, e) = h
  PROVE  Sendable(<<e>>, g, h)
<1>1. PICK q : q = <<e>>
  OBVIOUS
<1>2. Len(q) = 1 /\ q[1] = e /\ \A i \in 1..1 : i = 1
  BY <1>1
<1>3. \A i \in 1..Len(q) : /\ Carries(q[i]) /\ IsEvent(q[i])
                           /\ MayFollow(q[i], IF i = 1 THEN g ELSE h)
                           /\ GenerationAfter(IF i = 1 THEN g ELSE h, q[i]) = h
  BY <1>2
<1> QED
  BY <1>1, <1>2, <1>3 DEF Sendable

LEMMA UnaskedIsRight ==
  ASSUME ControlsInvariant, Unasked
  PROVE  ControlsAreRight'
<1>1. IsPeer(peer) /\ PeerIsKnown /\ UNCHANGED <<renderer, main, biased>>
  BY DEF ControlsInvariant, ControlsAreRight, PeerIsKnown, Unasked
<1>2. PICK g \in Nat : g = peer.generation
  BY <1>1 DEF IsPeer
<1>3. CASE BackendRuns
  <2>1. PICK e : e = BackendEvent("running")
    OBVIOUS
  <2>2. Sends(<<e>>) /\ peer.backend = "starting" /\ peer' = [NoLink EXCEPT !.backend = "running"]
    BY <1>3, <2>1 DEF BackendRuns
  <2>3. PeerIsKnown' /\ peer'.generation = 0 /\ peer'.backend = "running" /\ g = 0
    BY <1>1, <1>2, <2>2, NoLinkIsKnown DEF PeerIsKnown
  <2>4. Carries(e) /\ IsEvent(e) /\ MayFollow(e, 0) /\ GenerationAfter(0, e) = 0
    BY <2>1, BackendEventIsRight
  <2>5. Sendable(<<e>>, 0, 0)
    BY <2>4, OneIsSendable
  <2>6. CalmMail(<<e>>)
    BY <2>1, CalmEvents, CalmOne DEF Calm
  <2>7. Sendable(<<e>>, peer.generation, peer'.generation)
    BY <1>2, <2>3, <2>5
  <2> QED
    BY <1>1, <2>2, <2>3, <2>6, <2>7, UnaskedAreSent
<1>4. CASE RecordingFails
  <2>1. PICK e : e = RecordingEvent("error")
    OBVIOUS
  <2>2. Sends(<<e>>) /\ peer' = [peer EXCEPT !.recording = "error"]
    BY <1>4, <2>1 DEF RecordingFails
  <2>3. IsPeer(peer') /\ peer'.generation = g /\ peer'.backend = peer.backend
    BY <1>1, <1>2, <2>2 DEF IsPeer, PeerFields
  <2>4. PeerIsKnown'
    BY <1>1, <1>2, <2>3 DEF PeerIsKnown
  <2>5. Steady(e, g)
    BY <2>1, RecordingEventIsSteady
  <2>6. Sendable(<<e>>, g, g)
    BY <2>5, OneIsSendable DEF Steady
  <2>7. CalmMail(<<e>>)
    BY <2>1, CalmEvents, CalmOne DEF Calm
  <2>8. Sendable(<<e>>, peer.generation, peer'.generation)
    BY <1>2, <2>3, <2>6
  <2> QED
    BY <1>1, <2>2, <2>3, <2>4, <2>7, <2>8, UnaskedAreSent
<1>5. CASE \E link \in Connections : LinkChanges(link)
  <2>1. PICK link \in Connections : LinkChanges(link)
    BY <1>5
  <2>2. PICK e : e = LinkEvent(link, g, peer.paused)
    OBVIOUS
  <2>3. link # "connecting" /\ peer' = [peer EXCEPT !.link = link] /\ Sends(<<e>>)
    BY <1>2, <2>1, <2>2 DEF LinkChanges, LinkSteps
  <2>4. IsPeer(peer') /\ peer'.generation = g /\ peer'.backend = peer.backend
    BY <1>1, <1>2, <2>3 DEF IsPeer, PeerFields
  <2>5. PeerIsKnown'
    BY <1>1, <1>2, <2>4 DEF PeerIsKnown
  <2>6. Steady(e, g)
    BY <1>2, <2>2, <2>3, LinkEventIsSteady
  <2>7. Sendable(<<e>>, g, g)
    BY <2>6, OneIsSendable DEF Steady
  <2>8. CalmMail(<<e>>)
    BY <2>2, CalmEvents, CalmOne DEF Calm
  <2>9. Sendable(<<e>>, peer.generation, peer'.generation)
    BY <1>2, <2>4, <2>7
  <2> QED
    BY <1>1, <2>3, <2>4, <2>5, <2>8, <2>9, UnaskedAreSent
<1> QED
  BY <1>3, <1>4, <1>5 DEF Unasked

\* Those who waited for a companion that has died are told.
LEMMA LostAreTold ==
  ASSUME NEW n, NEW token, RequestsAre(n, token),
         NEW unserved, unserved = SetToSeq({c \in Channels : ops[c].step \in {"sent", "done"}}),
         NEW replies, replies = [i \in DOMAIN unserved |-> Reply(unserved[i], "thrown")]
  PROVE  AreReplies(replies, n, token, FALSE)
<1>1. PICK m \in Nat : /\ DOMAIN unserved = 1..m
                       /\ \A i \in 1..m : /\ unserved[i] \in Channels
                                           /\ ops[unserved[i]].step \in {"sent", "done"}
  BY LostAreListed
<1>2. PICK S : S = {replies[i] : i \in 1..m}
  OBVIOUS
<1>3. replies \in Seq(S) /\ Len(replies) = m
  <2>1. replies \in [1..m -> S]
    BY <1>1, <1>2
  <2> QED
    BY <2>1, LenProperties
<1>4. \A i \in 1..m : replies[i] = Reply(unserved[i], "thrown")
  BY <1>1
<1>5. \A i \in 1..m : Calm(replies[i])
  BY <1>4, CalmEvents
<1>6. CalmMail(replies)
  <2>1. \A x \in S : "type" \in DOMAIN x /\ x.type \in CalmTypes
    BY <1>2, <1>5 DEF Calm
  <2> QED
    BY <1>3, <2>1 DEF CalmMail
<1>7. ASSUME NEW i \in 1..m
      PROVE  /\ replies[i].type = "reply" /\ ~Applied(replies[i])
             /\ replies[i].callers \in SUBSET (1..n)
             /\ replies[i].channel # "bias" => token \notin replies[i].callers
  <2>1. PICK c, o : c = unserved[i] /\ o = ops[c]
    OBVIOUS
  <2>2. c \in Channels /\ o.step \in {"sent", "done"}
    BY <1>1, <2>1
  <2>3. IsRequest(c, o, n, token) /\ o # NoOp
    <3>1. IsRequest(c, o, n, token)
      BY <2>1, <2>2 DEF RequestsAre
    <3>2. o # NoOp
      BY <2>2 DEF NoOp
    <3> QED
      BY <3>1, <3>2
  <2>4. PICK e : e = [type |-> "reply", channel |-> c, callers |-> o.callers,
                      result |-> "thrown", at |-> 0]
    OBVIOUS
  <2>5. replies[i] = e
    BY <1>4, <2>1, <2>4 DEF Reply
  <2>6. e.type = "reply" /\ e.channel = c /\ e.callers = o.callers /\ e.result = "thrown"
    BY <2>4
  <2> QED
    BY <2>5, <2>6, <2>3 DEF IsRequest, Applied
<1>8. Addressed(replies, n, token)
  BY <1>3, <1>7 DEF Addressed
<1> QED
  BY <1>3, <1>6, <1>7, <1>8 DEF AreReplies

LEMMA DeathIsRight ==
  ASSUME ControlsInvariant, CompanionDies
  PROVE  ControlsAreRight'
<1>1. PICK unserved : unserved = SetToSeq({c \in Channels : ops[c].step \in {"sent", "done"}})
  OBVIOUS
<1>2. PICK d, b : /\ d = [type |-> "backend_disconnected", restart |-> TRUE, cuts |-> {}]
                  /\ b = BackendEvent("starting")
  OBVIOUS
<1>3. PICK es, replies : es = <<d, b>> /\ replies = [i \in DOMAIN unserved |-> Reply(unserved[i], "thrown")]
  OBVIOUS
<1>4. /\ mail' = (mail \o Stamped(es)) \o replies /\ clock' = clock + 2
      /\ ops' = [c \in Channels |-> IF c \in ToSet(unserved) THEN NoOp ELSE ops[c]]
      /\ peer' = [NoLink EXCEPT !.backend = "starting"] /\ inbox' = <<>>
      /\ UNCHANGED <<app, shown, due, effected, feedback, pending, calls, biased>>
  BY <1>1, <1>2, <1>3 DEF CompanionDies, renderer
<1>5. PICK n, token : n = calls /\ token = BiasToken
  OBVIOUS
<1>6. CalmMail(mail) /\ PeerIsKnown /\ MailLeads /\ RequestsAre(n, token) /\ IsPeer(peer)
  BY <1>5 DEF ControlsInvariant, ControlsAreRight, CalmInvariant, PeerIsKnown
<1>7. PeerIsKnown' /\ IsPeer(peer') /\ peer'.generation = 0
  BY <1>4, <1>6, NoLinkIsKnown DEF PeerIsKnown
<1>8. Len(es) = 2 /\ es[1] = d /\ es[2] = b /\ \A i \in 1..2 : i = 1 \/ i = 2
  BY <1>3
<1>9. DOMAIN d = {"type", "restart", "cuts"} /\ d.type = "backend_disconnected" /\ d.cuts = {}
  BY <1>2
<1>10. /\ Carries(d) /\ IsEvent(d)
       /\ \A g : MayFollow(d, g) /\ GenerationAfter(g, d) = 0
  BY <1>9 DEF Carries, IsEvent, Ends, MayFollow, GenerationAfter
<1>11. /\ Carries(b) /\ IsEvent(b)
       /\ \A g : MayFollow(b, g) /\ GenerationAfter(g, b) = 0
  BY <1>2, BackendEventIsRight
<1>12. PICK g : g = peer.generation
  OBVIOUS
<1>13. Sendable(es, g, 0)
  <2>1. \A i \in 1..2 : /\ Carries(es[i]) /\ IsEvent(es[i]) /\ MayFollow(es[i], IF i = 1 THEN g ELSE 0)
                        /\ GenerationAfter(IF i = 1 THEN g ELSE 0, es[i]) = 0
    BY <1>8, <1>10, <1>11
  <2> QED
    BY <1>8, <2>1 DEF Sendable
<1>14. CalmMail(es)
  <2>1. PICK S : S = {d, b}
    OBVIOUS
  <2>2. es \in Seq(S)
    BY <1>3, <2>1
  <2>3. Calm(b)
    BY <1>2, CalmEvents
  <2>4. \A x \in S : "type" \in DOMAIN x /\ x.type \in CalmTypes
    BY <1>9, <2>1, <2>3 DEF Calm, CalmTypes
  <2> QED
    BY <2>2, <2>4 DEF CalmMail
<1>15. AreReplies(replies, n, token, FALSE)
  BY <1>1, <1>3, <1>6, LostAreTold
<1>16. AreReplies(<<>>, n, token, FALSE) /\ mail \o <<>> = mail
  BY <1>6, NoReplies
<1>17. mail' = ((mail \o <<>>) \o Stamped(es)) \o replies
  BY <1>4, <1>16
<1>18. Sendable(es, peer.generation, peer'.generation) /\ clock' = clock + Len(es)
  BY <1>4, <1>7, <1>8, <1>12, <1>13
<1>19. MailLeads' /\ Addressed(mail', n, token)
  BY <1>4, <1>6, <1>7, <1>14, <1>15, <1>16, <1>17, <1>18, EventsGo DEF RequestsAre
<1>20. RequestsAre(n, token)'
  <2>1. \A c \in Channels : ops'[c] = NoOp \/ ops'[c] = ops[c]
    BY <1>4
  <2>2. \A c \in Channels : IsRequest(c, ops'[c], n, token)
    BY <1>6, <2>1 DEF RequestsAre, IsRequest
  <2>3. ops' = [c \in Channels |-> ops'[c]]
    BY <1>4
  <2> QED
    BY <1>19, <2>2, <2>3 DEF RequestsAre
<1>21. n = calls' /\ token = BiasToken'
  BY <1>4, <1>5 DEF BiasToken
<1>22. RequestsAre(calls, BiasToken)'
  BY <1>20, <1>21, RequestsAreKnown
<1>23. InboxIsRight'
  <2>1. inbox' = <<>> /\ Len(inbox') = 0 /\ inbox' \in Seq(Channels)
    BY <1>4
  <2> QED
    BY <2>1 DEF InboxIsRight
<1> QED
  BY <1>4, <1>7, <1>19, <1>22, <1>23, MainMoves

\* What a control or a menu means is one of the commands, or nothing.
LEMMA CommandIsGiven ==
  ASSUME Click \/ MenuChosen
  PROVE  \E kind \in Kinds : Gives(kind)
<1>1. \A command, disabled : Meant(command, disabled) \in Kinds \union {"nothing"}
  <2> SUFFICES ASSUME NEW command, NEW disabled
               PROVE  Meant(command, disabled) \in Kinds \union {"nothing"}
    OBVIOUS
  <2>1. Asks(command, disabled) \in Kinds \union {"nothing"}
    BY DEF Asks, Kinds
  <2> QED
    BY <2>1 DEF Meant, Kinds
<1>2. \E command, disabled : LET kind == Meant(command, disabled)
                             IN kind # "nothing" /\ Gives(kind)
  BY Zenon DEF Click, MenuChosen
<1> QED
  BY <1>1, <1>2

\* A request is made: of a channel that has none, or joining the one it has.
LEMMA RequestIsMade ==
  ASSUME CalmMail(mail), InboxIsRight, peer' = peer, NEW n \in Nat, NEW token \in 0..n,
         RequestsAre(n, token), NEW kind \in Kinds, NEW m, m = n + 1,
         NEW next, next = (IF kind = "bias" THEN m ELSE token), Invoke(kind, m)
  PROVE  /\ RequestsAre(m, next)' /\ InboxIsRight'
         /\ \E x : AreReplies(x, m, next, FALSE) /\ mail' = mail \o x
<1>1. PICK c : c = Channel(kind)
  OBVIOUS
<1>2. c \in Channels /\ (c = "bias" <=> kind = "bias")
  BY <1>1 DEF Channels, Channel, Kinds
<1>3. PICK op : op = [step |-> "asked", kind |-> kind, callers |-> {m}, result |-> "none"]
  OBVIOUS
<1>4. m \in Nat /\ m >= n /\ m \in 1..m /\ (next = token \/ next \notin 1..n) /\ m # token
  OBVIOUS
<1>5. RequestsAre(m, next)
  BY <1>4, TokensAreNew DEF RequestsAre
<1>6. IsRequest(c, op, m, next) /\ op.step = "asked"
  <2>1. /\ DOMAIN op = {"step", "kind", "callers", "result"} /\ op = [f \in DOMAIN op |-> op[f]]
        /\ op.step = "asked" /\ op.callers = {m} /\ op.kind = kind
    BY <1>3
  <2>2. {m} \in SUBSET (1..m) /\ (c # "bias" => next \notin {m})
    BY <1>2, <1>4
  <2> QED
    BY <1>2, <2>1, <2>2 DEF IsRequest
<1>7. AreReplies(<<>>, m, next, FALSE) /\ mail = mail \o <<>>
  BY NoReplies
<1>8. CASE ops[c] # NoOp
  <2>1. PICK o : o = ops[c]
    OBVIOUS
  <2>2. /\ ops' = [ops EXCEPT ![c].callers = @ \union {m}] /\ inbox' = inbox /\ mail' = mail
    BY <1>1, <1>8 DEF Invoke
  <2>3. PICK waiting : waiting = o.callers \union {m}
    OBVIOUS
  <2>4. PICK r : r = [o EXCEPT !.callers = waiting]
    OBVIOUS
  <2>5. ops' = [ops EXCEPT ![c] = r]
    BY <2>1, <2>2, <2>3, <2>4
  <2>6. IsRequest(c, o, n, token) /\ o # NoOp
    BY <1>2, <1>8, <2>1 DEF RequestsAre
  <2>7. /\ o.callers \in SUBSET (1..n) /\ (c # "bias" => token \notin o.callers)
        /\ DOMAIN o = {"step", "kind", "callers", "result"} /\ o = [f \in DOMAIN o |-> o[f]]
        /\ o.step \in {"asked", "sent", "saving", "done"}
        /\ c = "bias" => o.kind = "bias" /\ o.step # "done"
    BY <2>6 DEF IsRequest
  <2>8. waiting \in SUBSET (1..m) /\ (c # "bias" => next \notin waiting)
    <3>1. \A x \in 1..n : x \in 1..m
      BY <1>4
    <3> QED
      BY <1>2, <1>4, <2>3, <2>7, <3>1
  <2>9. /\ DOMAIN r = {"step", "kind", "callers", "result"} /\ r = [f \in DOMAIN r |-> r[f]]
        /\ r.step = o.step /\ r.kind = o.kind /\ r.callers = waiting
    BY <2>4, <2>7
  <2>10. IsRequest(c, r, m, next)
    BY <2>7, <2>8, <2>9 DEF IsRequest
  <2>11. Addressed(mail', m, next)
    BY <1>5, <2>2 DEF RequestsAre
  <2>12. RequestsAre(m, next)' /\ ops'[c] = r /\ \A d \in Channels \ {c} : ops'[d] = ops[d]
    <3>1. c \in Channels /\ RequestsAre(m, next)
      BY <1>2, <1>5
    <3> QED
      BY <2>5, <2>10, <2>11, <3>1, RequestIsSet
  <2>13. \A d \in Channels : ops'[d].step = ops[d].step
    BY <2>1, <2>9, <2>12
  <2>14. InboxIsRight'
    BY <2>2, <2>13, InboxStays
  <2> QED
    BY <1>7, <2>2, <2>12, <2>14
<1>9. CASE ops[c] = NoOp /\ kind \in {"bias", "record"}
  <2>1. ops' = [ops EXCEPT ![c] = op] /\ inbox' = inbox /\ mail' = mail
    BY <1>1, <1>3, <1>9 DEF Invoke
  <2>2. Addressed(mail', m, next)
    BY <1>5, <2>1 DEF RequestsAre
  <2>3. RequestsAre(m, next)' /\ ops'[c] = op /\ \A d \in Channels \ {c} : ops'[d] = ops[d]
    <3>1. c \in Channels /\ RequestsAre(m, next) /\ IsRequest(c, op, m, next)
      BY <1>2, <1>5, <1>6
    <3>2. ops' = [ops EXCEPT ![c] = op]
      BY <2>1
    <3> QED
      BY <2>2, <3>1, <3>2, RequestIsSet
  <2>4. \A d \in Channels : ops[d].step = "sent" => ops'[d].step = "sent"
    BY <1>9, <2>3 DEF NoOp
  <2>5. InboxIsRight'
    BY <2>1, <2>4, InboxStays
  <2> QED
    BY <1>7, <2>1, <2>3, <2>5
<1>10. CASE ops[c] = NoOp /\ kind \notin {"bias", "record"}
  <2>1. Commands(c, op)
    BY <1>1, <1>3, <1>10 DEF Invoke
  <2>2. ops[c].step # "sent" /\ op.step # "free"
    BY <1>6, <1>10 DEF NoOp
  <2> QED
    BY <1>2, <1>5, <1>6, <2>1, <2>2, CommandIsSent
<1> QED
  BY <1>8, <1>9, <1>10

LEMMA GivenIsRight ==
  ASSUME ControlsInvariant, NEW kind \in Kinds, Gives(kind)
  PROVE  ControlsAreRight'
<1>1. PICK n, token, m : n = calls /\ token = BiasToken /\ m = n + 1
  OBVIOUS
<1>2. /\ CalmMail(mail) /\ PeerIsKnown /\ MailLeads /\ RequestsAre(n, token) /\ InboxIsRight
      /\ n \in Nat /\ token \in 0..n /\ FeedbackIsRight
      /\ DOMAIN pending = Actions \union {"connection"}
      /\ pending = [c \in DOMAIN pending |-> pending[c]] /\ "token" \in DOMAIN pending["bias"]
  BY <1>1 DEF ControlsInvariant, ControlsAreRight, CalmInvariant, EntriesAreRight
<1>3. PICK entry : /\ pending' = [pending EXCEPT ![Slot(kind)] = entry]
                   /\ "token" \in DOMAIN entry /\ entry.token = m
  <2>1. PICK entry : entry = [token |-> calls', kind |-> kind, complete |-> FALSE,
                              scope |-> Scope(shown), live |-> Serves(kind, shown),
                              began |-> /\ ops[Channel(kind)] = NoOp
                                        /\ kind = "stop" => ops["record"] = NoOp]
    OBVIOUS
  <2>2. pending' = [pending EXCEPT ![Slot(kind)] = entry]
    BY <2>1, Zenon DEF Gives
  <2>3. calls' = m
    BY <1>1 DEF Gives
  <2>4. "token" \in DOMAIN entry /\ entry.token = calls'
    <3>1. PICK s, b, l : /\ s = Scope(shown) /\ l = Serves(kind, shown)
                         /\ b = (/\ ops[Channel(kind)] = NoOp
                                 /\ kind = "stop" => ops["record"] = NoOp)
      OBVIOUS
    <3>2. entry = [token |-> calls', kind |-> kind, complete |-> FALSE, scope |-> s,
                   live |-> l, began |-> b]
      BY <2>1, <3>1, Zenon
    <3> QED
      BY <3>2
  <2> QED
    BY <2>2, <2>3, <2>4
<1>4. /\ calls' = m /\ Invoke(kind, m) /\ feedback' \in {feedback, NoFeedback}
      /\ UNCHANGED <<peer, clock, app, shown, due, effected, biased>>
  BY <1>1 DEF Gives, world
<1>5. PICK next : next = IF kind = "bias" THEN m ELSE token
  OBVIOUS
<1>6. /\ RequestsAre(m, next)' /\ InboxIsRight'
      /\ \E x : AreReplies(x, m, next, FALSE) /\ mail' = mail \o x
  BY <1>1, <1>2, <1>4, <1>5, RequestIsMade
<1>7. PICK x : AreReplies(x, m, next, FALSE) /\ mail' = mail \o x
  BY <1>6
<1>8. MailLeads'
  <2>1. peer.generation \in Nat
    BY <1>2 DEF PeerIsKnown, IsPeer
  <2> QED
    BY <1>2, <1>4, <1>7, <2>1, RepliesAreSent
<1>9. /\ Slot(kind) \in DOMAIN pending /\ "bias" \in DOMAIN pending
      /\ Slot(kind) = "bias" <=> kind = "bias"
  BY <1>2 DEF Slot, Actions, Kinds
<1>10. /\ DOMAIN pending' = DOMAIN pending /\ pending' = [c \in DOMAIN pending' |-> pending'[c]]
       /\ pending'["bias"] = IF kind = "bias" THEN entry ELSE pending["bias"]
  BY <1>2, <1>3, <1>9
<1>11. "token" \in DOMAIN pending'["bias"] /\ BiasToken' = next
  BY <1>1, <1>2, <1>3, <1>5, <1>10 DEF BiasToken
<1>12. EntriesAreRight'
  <2>1. m \in Nat /\ next \in 0..m
    BY <1>1, <1>2, <1>5
  <2> QED
    BY <1>2, <1>4, <1>10, <1>11, <2>1 DEF EntriesAreRight
<1>13. RequestsAre(calls, BiasToken)'
  BY <1>4, <1>6, <1>11, RequestsAreKnown
<1>14. PeerIsKnown'
  BY <1>2, <1>4 DEF PeerIsKnown
<1>15. FeedbackIsRight'
  BY <1>2, <1>4, ReportStays
<1> QED
  BY <1>6, <1>8, <1>12, <1>13, <1>14, <1>15 DEF ControlsAreRight

LEMMA ScopesAreOrdered ==
  ASSUME NEW a, NEW b, NEW c, IsScope(a), IsScope(b), IsScope(c), NotBefore(a, b), NotBefore(b, c)
  PROVE  /\ NotBefore(a, c)
         /\ a.epoch = c.epoch /\ a.generation = c.generation =>
              b.epoch = c.epoch /\ b.generation = c.generation
<1>1. PICK i \in Nat, j \in Nat, k \in Nat, x \in Nat, y \in Nat, z \in Nat :
        /\ i = a.epoch /\ j = b.epoch /\ k = c.epoch
        /\ x = a.generation /\ y = b.generation /\ z = c.generation
  BY DEF IsScope
<1>2. /\ i > j \/ (i = j /\ x >= y)
      /\ j > k \/ (j = k /\ y >= z)
  BY <1>1 DEF NotBefore
<1>3. /\ i > k \/ (i = k /\ x >= z)
      /\ i = k /\ x = z => j = k /\ y = z
  BY <1>2
<1> QED
  BY <1>1, <1>3 DEF NotBefore

\* An event is taken: the way goes on from the state it makes.
LEMMA NewsIsTaken ==
  ASSUME CalmInvariant, MailLeads, mail # <<>>, NEW e, e = Head(mail), e.type # "reply",
         mail' = Tail(mail), app' = Reduce(app, e), UNCHANGED <<peer, clock, biased>>
  PROVE  /\ MailLeads' /\ NotBefore(Scope(app'), Scope(app))
         /\ Sight(app') = After(Sight(app), e)
         /\ IsEvent(e) /\ e.at \in Nat /\ e.at > app.backend.at
         /\ MayFollow(e, app.generation) /\ app'.generation = GenerationAfter(app.generation, e)
<1>1. CalmMail(mail) /\ app.wrench.at = 0 /\ IsApp(app) /\ clock \in Nat
  BY DEF CalmInvariant, CalmApp, MailLeads
<1>2. PICK t \in Nat : /\ app.backend.at <= t /\ app.connectionAt <= t /\ Recorded(app, t)
                       /\ Reaches(mail, app.generation, t, peer.generation, clock, biased)
  BY DEF MailLeads
<1>3. PICK h \in Nat, u \in Nat : /\ Leads(app.generation, t, e, h, u, biased)
                                  /\ Reaches(Tail(mail), h, u, peer.generation, clock, biased)
  BY <1>1, <1>2, WayIsBegun
<1>4. /\ IsEvent(e) /\ e.at = u /\ u > t /\ MayFollow(e, app.generation)
      /\ h = GenerationAfter(app.generation, e)
  BY <1>3 DEF Leads
<1>5. e.type \in CalmTypes /\ e.type # "live_wrench"
  BY <1>1, CalmFirst DEF CalmTypes
<1>6. PICK b \in Nat, s \in Nat, d \in Nat :
        b = app.backend.at /\ s = app.connectionAt /\ d = app.recording.at
  BY <1>1, <1>2 DEF IsApp, Recorded
<1>7. e.at \in Nat /\ e.at > app.backend.at /\ e.at > app.connectionAt
      /\ e.at > app.recording.at
  <2>1. d <= t
    BY <1>2, <1>6 DEF Recorded
  <2>2. u > b /\ u > s /\ u > d
    BY <1>2, <1>4, <1>6, <2>1
  <2> QED
    BY <1>4, <1>6, <2>2
<1>8. PICK r : r = Reduce(app, e)
  OBVIOUS
<1>9. IsApp(r) /\ r.backend.at <= u /\ r.connectionAt <= u /\ r.generation = h
  BY <1>1, <1>4, <1>5, <1>7, <1>8, EventIsReduced
<1>10. NotBefore(Scope(r), Scope(app))
  BY <1>1, <1>4, <1>5, <1>7, <1>8, ScopeGoesOn
<1>11. Sight(r) = After(Sight(app), e) /\ Recorded(r, u)
  <2>1. \E z \in Nat : Recorded(app, z)
    BY <1>2
  <2>2. Sight(r) = After(Sight(app), e) /\ Recorded(r, e.at)
    BY <1>1, <1>4, <1>5, <1>7, <1>8, <2>1, SightIsReduced
  <2> QED
    BY <1>4, <2>2
<1>12. Reaches(mail', app'.generation, u, peer'.generation, clock', biased')
  BY <1>3, <1>8, <1>9
<1>13. /\ IsApp(app') /\ app'.backend.at <= u /\ app'.connectionAt <= u /\ clock' \in Nat
       /\ Recorded(app', u)
  BY <1>1, <1>8, <1>9, <1>11
<1>14. MailLeads'
  BY <1>12, <1>13 DEF MailLeads, Recorded
<1>15. Sight(app') = After(Sight(app), e)
  <2>1. Sight(app') = Sight(r)
    BY <1>8
  <2> QED
    BY <1>11, <2>1
<1> QED
  BY <1>4, <1>7, <1>8, <1>9, <1>10, <1>14, <1>15

\* An answer is taken: one to a bias that was applied is of the generation that is known.
LEMMA ReplyIsTaken ==
  ASSUME CalmMail(mail), MailLeads, mail # <<>>, NEW e, e = Head(mail), e.type = "reply",
         mail' = Tail(mail), UNCHANGED <<app, peer, clock, biased>>
  PROVE  MailLeads' /\ (Applied(e) => app.generation \in biased)
<1>1. PICK t \in Nat : /\ app.backend.at <= t /\ app.connectionAt <= t /\ Recorded(app, t)
                       /\ Reaches(mail, app.generation, t, peer.generation, clock, biased)
  BY DEF MailLeads
<1>2. PICK h \in Nat, u \in Nat : /\ Leads(app.generation, t, e, h, u, biased)
                                  /\ Reaches(Tail(mail), h, u, peer.generation, clock, biased)
  BY <1>1, WayIsBegun
<1>3. h = app.generation /\ u = t /\ (Applied(e) => app.generation \in biased)
  BY <1>2 DEF Leads
<1>4. Reaches(mail', app'.generation, t, peer'.generation, clock', biased')
  BY <1>2, <1>3
<1> QED
  BY <1>1, <1>3, <1>4 DEF MailLeads

LEMMA FirstIsAddressed ==
  ASSUME NEW q, CalmMail(q), q # <<>>, NEW n, NEW token, Addressed(q, n, token)
  PROVE  /\ Addressed(Tail(q), n, token)
         /\ Head(q).type = "reply" /\ Head(q).channel # "bias" => token \notin Head(q).callers
<1>1. PICK S : q \in Seq(S)
  BY DEF CalmMail
<1>2. PICK r : r = Tail(q)
  OBVIOUS
<1>3. Len(q) \in Nat /\ Len(q) # 0
  BY <1>1, EmptySeq, LenProperties
<1>4. /\ Len(r) = Len(q) - 1 /\ Head(q) = q[1]
      /\ \A i \in 1..Len(r) : r[i] = q[i + 1]
  BY <1>1, <1>2, HeadTailProperties
<1>5. 1 \in 1..Len(q) /\ \A i \in 1..Len(r) : i + 1 \in 1..Len(q)
  BY <1>3, <1>4
<1>6. Addressed(r, n, token)
  <2> SUFFICES ASSUME NEW i \in 1..Len(r), r[i].type = "reply"
               PROVE  /\ r[i].callers \in SUBSET (1..n)
                      /\ r[i].channel # "bias" => token \notin r[i].callers
    BY DEF Addressed
  <2>1. PICK j \in 1..Len(q) : r[i] = q[j]
    BY <1>4, <1>5
  <2> QED
    BY <2>1 DEF Addressed
<1>7. q[1].type = "reply" /\ q[1].channel # "bias" => token \notin q[1].callers
  BY <1>5 DEF Addressed
<1> QED
  BY <1>2, <1>4, <1>6, <1>7

\* A command that waits hears its answer: what is reported then is of the session that
\* is shown, and of a bias only what the answer to a bias says.
LEMMA ReplyIsHeard ==
  ASSUME EntriesAreRight, NEW e, TakeReply(e), e.type = "reply",
         e.channel # "bias" => BiasToken \notin e.callers
  PROVE  /\ DOMAIN pending' = DOMAIN pending /\ pending' = [c \in DOMAIN pending' |-> pending'[c]]
         /\ "token" \in DOMAIN pending'["bias"] /\ BiasToken' \in {BiasToken, 0}
         /\ \/ feedback' = feedback
            \/ /\ feedback'.scope = Scope(shown) /\ Streams(shown)
               /\ feedback'.result = "success" => Applied(e)
<1>1. /\ DOMAIN pending = Actions \union {"connection"} /\ "bias" \in DOMAIN pending
      /\ pending = [c \in DOMAIN pending |-> pending[c]] /\ "token" \in DOMAIN pending["bias"]
  BY DEF EntriesAreRight, Actions
<1>2. ASSUME NEW c \in DOMAIN pending, NEW x, pending' = [pending EXCEPT ![c] = x],
             c = "bias" => "token" \in DOMAIN x /\ x.token \in {BiasToken, 0}
      PROVE  /\ DOMAIN pending' = DOMAIN pending /\ pending' = [d \in DOMAIN pending' |-> pending'[d]]
             /\ "token" \in DOMAIN pending'["bias"] /\ BiasToken' \in {BiasToken, 0}
  <2>1. /\ DOMAIN pending' = DOMAIN pending /\ pending' = [d \in DOMAIN pending' |-> pending'[d]]
        /\ pending'["bias"] = IF c = "bias" THEN x ELSE pending["bias"]
    BY <1>1, <1>2
  <2>2. "token" \in DOMAIN pending'["bias"] /\ pending'["bias"].token \in {BiasToken, 0}
    BY <1>1, <1>2, <2>1 DEF BiasToken
  <2> QED
    BY <2>1, <2>2 DEF BiasToken
<1>3. CASE UNCHANGED <<pending, feedback>>
  BY <1>1, <1>3 DEF BiasToken
<1>4. CASE /\ BiasToken \notin e.callers \/ e.channel = "bias"
           /\ \E slot \in DOMAIN pending :
                /\ pending[slot].token \in e.callers
                /\ IF slot = "connection" THEN ConnectionAnswered(e.result)
                   ELSE ActionAnswered(slot, e.result)
  <2>1. PICK slot \in DOMAIN pending :
               /\ pending[slot].token \in e.callers
               /\ IF slot = "connection" THEN ConnectionAnswered(e.result)
                  ELSE ActionAnswered(slot, e.result)
    BY <1>4
  <2>2. PICK entry : entry = pending[slot]
    OBVIOUS
  <2>3. PICK done : done = [entry EXCEPT !.complete = TRUE]
    OBVIOUS
  <2>4. slot = "bias" => /\ "token" \in DOMAIN entry /\ entry.token = BiasToken
                         /\ "token" \in DOMAIN done /\ done.token = BiasToken
    BY <1>1, <2>2, <2>3 DEF BiasToken
  <2>5. "token" \in DOMAIN NoEntry /\ NoEntry.token = 0
    BY DEF NoEntry
  <2>6. CASE slot = "connection"
    <3>1. PICK x : pending' = [pending EXCEPT ![slot] = x]
      BY <2>1, <2>6, Zenon DEF ConnectionAnswered
    <3>2. feedback' = feedback
      BY <2>1, <2>6 DEF ConnectionAnswered
    <3> QED
      BY <1>2, <2>6, <3>1, <3>2
  <2>7. CASE slot # "connection" /\ ~(entry.scope = Scope(shown) /\ Streams(shown))
    <3>1. UNCHANGED <<pending, feedback>>
      BY <2>1, <2>2, <2>7 DEF ActionAnswered
    <3> QED
      BY <1>1, <3>1 DEF BiasToken
  <2>8. CASE slot # "connection" /\ entry.scope = Scope(shown) /\ Streams(shown)
    <3>1. /\ pending' = [pending EXCEPT ![slot] = NoEntry] \/ pending' = [pending EXCEPT ![slot] = done]
          /\ feedback' = IF e.result = "ok"
                         THEN IF slot # "bias" THEN feedback
                              ELSE [action |-> slot, result |-> "success", scope |-> entry.scope]
                         ELSE IF e.result = "cancelled" THEN feedback
                         ELSE [action |-> slot, result |-> "error", scope |-> entry.scope]
      BY <2>1, <2>2, <2>3, <2>8, Zenon DEF ActionAnswered
    <3>2. slot = "bias" => e.channel = "bias"
      BY <1>4, <2>1 DEF BiasToken
    <3>3. \/ feedback' = feedback
          \/ /\ feedback'.scope = Scope(shown) /\ Streams(shown)
             /\ feedback'.result = "success" => Applied(e)
      BY <2>8, <3>1, <3>2 DEF Applied
    <3> QED
      BY <1>2, <2>4, <2>5, <3>1, <3>3
  <2> QED
    BY <2>6, <2>7, <2>8
<1> QED
  BY <1>3, <1>4, Zenon DEF TakeReply

LEMMA MessageIsRight ==
  ASSUME ControlsInvariant, TakeMail
  PROVE  ControlsAreRight'
<1>1. PICK n, token, e : n = calls /\ token = BiasToken /\ e = Head(mail)
  OBVIOUS
<1>2. /\ CalmInvariant /\ CalmMail(mail) /\ PeerIsKnown /\ MailLeads /\ RequestsAre(n, token)
      /\ EntriesAreRight /\ InboxIsRight /\ FeedbackIsRight /\ n \in Nat /\ token \in 0..n
  BY <1>1 DEF ControlsInvariant, ControlsAreRight, CalmInvariant, EntriesAreRight
<1>3. /\ mail # <<>> /\ mail' = Tail(mail)
      /\ due' = IF due = 0 THEN 0 ELSE due + 1
      /\ UNCHANGED <<peer, clock, shown, effected, calls, ops, inbox, biased>>
  BY DEF TakeMail, world, main
<1>4. /\ Addressed(mail', n, token)
      /\ e.type = "reply" /\ e.channel # "bias" => token \notin e.callers
  BY <1>1, <1>2, <1>3, FirstIsAddressed DEF RequestsAre
<1>5. /\ MailLeads' /\ IsScope(Scope(app')) /\ NotBefore(Scope(app'), Scope(app))
      /\ DOMAIN pending' = DOMAIN pending /\ pending' = [c \in DOMAIN pending' |-> pending'[c]]
      /\ "token" \in DOMAIN pending'["bias"] /\ BiasToken' \in {token, 0}
      /\ \/ feedback' = feedback
         \/ /\ app' = app /\ feedback'.scope = Scope(shown) /\ Streams(shown)
            /\ feedback'.result = "success" => app.generation \in biased
  <2>1. CASE e.type = "reply"
    <3>1. app' = app /\ TakeReply(e)
      BY <1>1, <2>1 DEF TakeMail
    <3>2. MailLeads' /\ (Applied(e) => app.generation \in biased)
      BY <1>1, <1>2, <1>3, <2>1, <3>1, ReplyIsTaken
    <3>3. /\ DOMAIN pending' = DOMAIN pending /\ pending' = [c \in DOMAIN pending' |-> pending'[c]]
          /\ "token" \in DOMAIN pending'["bias"] /\ BiasToken' \in {BiasToken, 0}
          /\ \/ feedback' = feedback
             \/ /\ feedback'.scope = Scope(shown) /\ Streams(shown)
                /\ feedback'.result = "success" => Applied(e)
      BY <1>1, <1>2, <1>4, <2>1, <3>1, ReplyIsHeard
    <3>4. IsScope(Scope(app)) /\ NotBefore(Scope(app), Scope(app))
      BY <1>2 DEF MailLeads, IsApp, IsScope, Scope, NotBefore
    <3> QED
      BY <1>1, <3>1, <3>2, <3>3, <3>4
  <2>2. CASE e.type # "reply"
    <3>1. app' = Reduce(app, e) /\ UNCHANGED <<pending, feedback>>
      BY <1>1, <2>2 DEF TakeMail
    <3>2. MailLeads' /\ NotBefore(Scope(app'), Scope(app))
      BY <1>1, <1>2, <1>3, <2>2, <3>1, NewsIsTaken
    <3>3. IsScope(Scope(app'))
      BY <3>2 DEF MailLeads, IsApp, IsScope, Scope
    <3>4. /\ DOMAIN pending' = DOMAIN pending /\ pending' = [c \in DOMAIN pending' |-> pending'[c]]
          /\ "token" \in DOMAIN pending'["bias"] /\ BiasToken' = token
      BY <1>1, <1>2, <3>1 DEF EntriesAreRight, BiasToken
    <3> QED
      BY <3>1, <3>2, <3>3, <3>4
  <2> QED
    BY <2>1, <2>2
<1>6. EntriesAreRight'
  <2>1. BiasToken' \in 0..calls' /\ calls' \in Nat
    BY <1>1, <1>2, <1>3, <1>5
  <2> QED
    BY <1>2, <1>5, <2>1 DEF EntriesAreRight
<1>7. RequestsAre(calls, BiasToken)'
  <2>1. PICK next : next = BiasToken'
    OBVIOUS
  <2>2. next = token \/ next \notin 1..n
    BY <1>2, <1>5, <2>1
  <2>3. /\ \A c, o : IsRequest(c, o, n, token) => IsRequest(c, o, n, next)
        /\ \A q : Addressed(q, n, token) => Addressed(q, n, next)
    <3>1. n >= n
      BY <1>2
    <3> QED
      BY <1>2, <2>2, <3>1, TokensAreNew
  <2>4. RequestsAre(n, next)'
    BY <1>2, <1>3, <1>4, <2>3 DEF RequestsAre
  <2>5. n = calls'
    BY <1>1, <1>3
  <2> QED
    BY <2>1, <2>4, <2>5, RequestsAreKnown
<1>8. InboxIsRight'
  BY <1>2, <1>3, InboxStays
<1>9. FeedbackIsRight'
  <2>1. /\ due \in Nat /\ IsScope(Scope(shown)) /\ NotBefore(Scope(app), Scope(shown))
        /\ due = 0 => effected.now = Dependencies(shown)
        /\ feedback # NoFeedback => ReportIsRight
    BY <1>2 DEF FeedbackIsRight
  <2>2. due' \in Nat /\ (due' = 0 => due = 0)
    BY <1>3, <2>1
  <2>3. IsScope(Scope(app))
    BY <1>2 DEF MailLeads, IsApp, IsScope, Scope
  <2>4. NotBefore(Scope(app'), Scope(shown))
    BY <1>5, <2>1, <2>3, ScopesAreOrdered
  <2>5. feedback' # NoFeedback => ReportIsRight'
    <3>1. CASE feedback' = feedback /\ feedback # NoFeedback
      <4>1. PICK s : s = feedback.scope
        OBVIOUS
      <4>2. /\ IsScope(s) /\ NotBefore(Scope(app), s)
            /\ \/ s = effected.now.scope
                  /\ effected.now.backend = "running" /\ effected.now.connection = "streaming"
               \/ s = Scope(shown) /\ Streams(shown)
            /\ feedback.result = "success" /\ s = Scope(app) => s.generation \in biased
        BY <2>1, <3>1, <4>1 DEF ReportIsRight
      <4>3. /\ NotBefore(Scope(app'), s)
            /\ s = Scope(app') => Scope(app).epoch = s.epoch /\ Scope(app).generation = s.generation
        BY <1>5, <2>3, <4>2, ScopesAreOrdered
      <4>4. s = Scope(app') => s = Scope(app)
        BY <4>3 DEF Scope
      <4> QED
        BY <1>3, <3>1, <4>1, <4>2, <4>3, <4>4 DEF ReportIsRight
    <3>2. CASE /\ app' = app /\ feedback'.scope = Scope(shown) /\ Streams(shown)
               /\ feedback'.result = "success" => app.generation \in biased
      <4>1. Scope(app).generation = app.generation
        BY DEF Scope
      <4> QED
        BY <1>3, <2>1, <3>2, <4>1 DEF ReportIsRight
    <3> QED
      BY <1>5, <3>1, <3>2
  <2> QED
    BY <1>3, <2>1, <2>2, <2>4, <2>5 DEF FeedbackIsRight
<1>10. PeerIsKnown'
  BY <1>2, <1>3 DEF PeerIsKnown
<1> QED
  BY <1>5, <1>6, <1>7, <1>8, <1>9, <1>10 DEF ControlsAreRight

\* Where only the renderer moves, everything sent stays.
LEMMA SentStays ==
  ASSUME ControlsInvariant, UNCHANGED <<peer, clock, mail, app, calls, ops, inbox, biased>>,
         DOMAIN pending' = DOMAIN pending, pending' = [c \in DOMAIN pending' |-> pending'[c]],
         pending'["bias"] \in {pending["bias"], NoEntry}, FeedbackIsRight'
  PROVE  ControlsAreRight'
<1>1. PICK n, token, next : n = calls /\ token = BiasToken /\ next = BiasToken'
  OBVIOUS
<1>2. /\ PeerIsKnown /\ MailLeads /\ RequestsAre(n, token) /\ InboxIsRight /\ EntriesAreRight
      /\ n \in Nat /\ token \in 0..n /\ "token" \in DOMAIN pending["bias"]
  BY <1>1 DEF ControlsInvariant, ControlsAreRight, EntriesAreRight
<1>3. "token" \in DOMAIN pending'["bias"] /\ (next = token \/ next = 0)
  BY <1>1, <1>2 DEF BiasToken, NoEntry
<1>4. EntriesAreRight'
  <2>1. BiasToken' \in 0..calls' /\ calls' \in Nat
    BY <1>1, <1>2, <1>3
  <2> QED
    BY <1>2, <1>3, <2>1 DEF EntriesAreRight
<1>5. /\ \A c, o : IsRequest(c, o, n, token) => IsRequest(c, o, n, next)
      /\ \A q : Addressed(q, n, token) => Addressed(q, n, next)
  <2>1. n >= n /\ (next = token \/ next \notin 1..n)
    BY <1>2, <1>3
  <2> QED
    BY <1>2, <2>1, TokensAreNew
<1>6. RequestsAre(n, next)'
  BY <1>2, <1>5 DEF RequestsAre
<1>7. n = calls'
  BY <1>1
<1>8. RequestsAre(calls, BiasToken)'
  BY <1>1, <1>6, <1>7, RequestsAreKnown
<1>9. PeerIsKnown' /\ MailLeads' /\ InboxIsRight'
  BY <1>2 DEF PeerIsKnown, MailLeads, InboxIsRight
<1> QED
  BY <1>4, <1>8, <1>9 DEF ControlsAreRight

LEMMA RenderIsRight ==
  ASSUME ControlsInvariant, RenderControls
  PROVE  ControlsAreRight'
<1>1. /\ due = 0 /\ shown' = app /\ due' = 1
      /\ UNCHANGED <<peer, clock, mail, app, pending, effected, feedback, calls, ops, inbox, biased>>
  BY DEF RenderControls, world, main
<1>2. FeedbackIsRight /\ IsApp(app)
  BY DEF ControlsInvariant, ControlsAreRight, MailLeads
<1>3. IsScope(Scope(app)) /\ NotBefore(Scope(app), Scope(app))
  BY <1>2 DEF IsApp, IsScope, Scope, NotBefore
<1>4. feedback # NoFeedback => ReportIsRight'
  <2> SUFFICES ASSUME feedback # NoFeedback PROVE ReportIsRight'
    OBVIOUS
  <2>1. ReportIsRight /\ effected.now = Dependencies(shown)
    BY <1>1, <1>2 DEF FeedbackIsRight
  <2>2. /\ Dependencies(shown).scope = Scope(shown)
        /\ Dependencies(shown).backend = shown.backend.state
        /\ Dependencies(shown).connection = shown.connection
    BY DEF Dependencies
  <2>3. /\ feedback.scope = effected.now.scope
        /\ effected.now.backend = "running" /\ effected.now.connection = "streaming"
    BY <2>1, <2>2 DEF ReportIsRight, Streams
  <2> QED
    BY <1>1, <2>1, <2>3 DEF ReportIsRight
<1>5. FeedbackIsRight'
  BY <1>1, <1>3, <1>4 DEF FeedbackIsRight
<1>6. /\ DOMAIN pending' = DOMAIN pending /\ pending' = [c \in DOMAIN pending' |-> pending'[c]]
      /\ pending'["bias"] \in {pending["bias"], NoEntry}
  BY <1>1 DEF ControlsInvariant, ControlsAreRight, EntriesAreRight
<1> QED
  BY <1>1, <1>5, <1>6, SentStays

LEMMA EffectsAreRight ==
  ASSUME ControlsInvariant, ControlsEffects
  PROVE  ControlsAreRight'
<1>1. PICK now : now = Dependencies(shown)
  OBVIOUS
<1>2. /\ due' = 0 /\ effected'.now = now
      /\ UNCHANGED <<peer, clock, mail, app, shown, calls, ops, inbox, biased>>
  BY <1>1 DEF ControlsEffects, world
<1>3. /\ FeedbackIsRight /\ DOMAIN pending = Actions \union {"connection"}
      /\ pending = [c \in DOMAIN pending |-> pending[c]]
  BY DEF ControlsInvariant, ControlsAreRight, EntriesAreRight
<1>4. /\ now.scope = Scope(shown) /\ now.backend = shown.backend.state
      /\ now.connection = shown.connection
  BY <1>1 DEF Dependencies
<1>5. \/ feedback' = NoFeedback
      \/ feedback' = feedback /\ now = effected.now
      \/ feedback' = feedback /\ now.scope = effected.now.scope /\ Streams(shown)
  <2>1. feedback' = AfterActions.feedback
    BY DEF ControlsEffects
  <2>2. AfterActions.feedback = IF now = effected.now THEN feedback
                                ELSE IF now.scope # effected.now.scope \/ ~Streams(shown)
                                THEN NoFeedback ELSE feedback
    BY <1>1 DEF AfterActions
  <2> QED
    BY <2>1, <2>2
<1>6. feedback' # NoFeedback => ReportIsRight'
  <2> SUFFICES ASSUME feedback' # NoFeedback PROVE ReportIsRight'
    OBVIOUS
  <2>1. ReportIsRight /\ feedback' = feedback
    BY <1>3, <1>5 DEF FeedbackIsRight
  <2>2. \/ /\ feedback.scope = effected'.now.scope
           /\ effected'.now.backend = "running" /\ effected'.now.connection = "streaming"
        \/ feedback.scope = Scope(shown) /\ Streams(shown)
    BY <1>2, <1>4, <1>5, <2>1 DEF ReportIsRight
  <2> QED
    BY <1>2, <2>1, <2>2 DEF ReportIsRight
<1>7. FeedbackIsRight'
  BY <1>1, <1>2, <1>3, <1>6 DEF FeedbackIsRight
<1>8. PICK after : after = AfterActions.pending
  OBVIOUS
<1>9. /\ DOMAIN after = DOMAIN pending /\ after = [c \in DOMAIN after |-> after[c]]
      /\ after["bias"] \in {pending["bias"], NoEntry}
  <2>1. CASE Dependencies(shown) = effected.now
    <3>1. after = pending
      BY <1>8, <2>1 DEF AfterActions
    <3> QED
      BY <1>3, <3>1 DEF Actions
  <2>2. CASE Dependencies(shown) # effected.now
    <3>1. PICK ends : ends = {c \in DOMAIN pending :
                                /\ c \in Actions
                                /\ \/ now.scope # effected.now.scope \/ ~Streams(shown)
                                   \/ /\ pending[c].token # 0 /\ pending[c].scope = now.scope
                                      /\ pending[c].complete /\ Reached(pending[c].kind, shown)}
      OBVIOUS
    <3>2. after = [c \in DOMAIN pending |-> IF c \in ends THEN NoEntry ELSE pending[c]]
      BY <1>1, <1>8, <2>2, <3>1 DEF AfterActions
    <3>3. "bias" \in DOMAIN pending
      BY <1>3 DEF Actions
    <3> QED
      BY <3>2, <3>3
  <2> QED
    BY <2>1, <2>2
<1>10. PICK x : pending' = [after EXCEPT !["connection"] = x]
  BY <1>8, Zenon DEF ControlsEffects
<1>11. /\ DOMAIN pending' = DOMAIN pending /\ pending' = [c \in DOMAIN pending' |-> pending'[c]]
       /\ pending'["bias"] \in {pending["bias"], NoEntry}
  <2>1. "bias" \in DOMAIN after
    BY <1>3, <1>9 DEF Actions
  <2>2. pending'["bias"] = after["bias"]
    BY <1>9, <1>10, <2>1
  <2>3. DOMAIN pending' = DOMAIN after /\ pending' = [c \in DOMAIN after |-> pending'[c]]
    BY <1>9, <1>10
  <2> QED
    BY <1>9, <2>2, <2>3
<1> QED
  BY <1>2, <1>7, <1>11, SentStays

LEMMA ControlsStep ==
  ASSUME ControlsInvariant, ControlsNext
  PROVE  ControlsInvariant'
<1>1. CalmInvariant'
  BY CalmStep DEF ControlsInvariant
<1>2. CASE Click \/ MenuChosen
  <2>1. ControlsAreRight'
    BY <1>2, CommandIsGiven, GivenIsRight
  <2> QED
    BY <1>1, <2>1 DEF ControlsInvariant
<1>3. CASE \/ DialogAnswered \/ HostStored \/ Executes \/ Answered \/ Unasked \/ CompanionDies
           \/ TakeMail \/ RenderControls \/ ControlsEffects
  <2>1. ControlsAreRight'
    BY <1>3, DialogIsAnswered, HostIsStored, CommandIsAnswered, AnswerIsTold, UnaskedIsRight,
       DeathIsRight, MessageIsRight, RenderIsRight, EffectsAreRight
  <2> QED
    BY <1>1, <2>1 DEF ControlsInvariant
<1> QED
  BY <1>2, <1>3 DEF ControlsNext

LEMMA ControlsStart ==
  ASSUME NEW events \in {<<>>, BackendUp, SensorUp}, NEW prefs, LiveInit(prefs, events),
         NEW asked, ControlsInit(asked)
  PROVE  ControlsInvariant /\ feedback = NoFeedback
<1>1. /\ DisplayInvariant /\ mail = <<>> /\ app.wrench.at = 0 /\ sample = 0
      /\ app.recording = EmptyRecording
  BY LiveStarts
<1>2. CalmInvariant
  BY <1>1, CalmNothing DEF CalmInvariant, CalmApp, DisplayInvariant, TimesAreRight, IsApp
<1>3. PeerIsKnown
  <2>1. IsPeer(peer)
    BY <1>1 DEF DisplayInvariant, PeerIsRight, IsPeer
  <2>2. peer.backend # "running" => peer.generation = 0
    BY <1>1 DEF DisplayInvariant, PeerIsRight
  <2> QED
    BY <2>1, <2>2 DEF PeerIsKnown
<1>4. PICK q : q = mail
  OBVIOUS
<1>5. Len(q) = 0 /\ \A k \in 1..Len(q) : FALSE
  BY <1>1, <1>4
<1>6. MailLeads
  <2>1. clock \in Nat /\ IsApp(app) /\ app.backend.at <= Taken /\ app.connectionAt <= Taken
    BY <1>1 DEF DisplayInvariant, MailIsRight, TimesAreRight
  <2>2. Taken = clock
    BY <1>4, <1>5, <2>1 DEF Taken
  <2>3. app.generation = peer.generation /\ app.generation \in Nat
    <3>1. PICK gens : Generations(gens)
      BY <1>1 DEF DisplayInvariant, MailIsRight
    <3>2. gens[0] = app.generation /\ gens[0] = peer.generation
      BY <1>4, <1>5, <3>1 DEF Generations
    <3> QED
      BY <2>1, <3>2 DEF IsApp
  <2>4. AreReplies(q, 0, 0, FALSE)
    BY <1>1, <1>4, CalmNothing, NoReplies DEF CalmInvariant
  <2>5. Reaches(q, app.generation, clock, app.generation, clock, biased)
    BY <2>1, <2>3, <2>4, RepliesLeadNowhere DEF AreReplies
  <2>6. Reaches(mail, app.generation, clock, peer.generation, clock, biased)
    BY <1>4, <2>3, <2>5
  <2>7. Recorded(app, clock)
    <3>1. EmptyRecording.at = 0 /\ 0 <= clock
      BY <2>1 DEF EmptyRecording
    <3> QED
      BY <1>1, <3>1 DEF Recorded
  <2> QED
    BY <2>1, <2>2, <2>6, <2>7 DEF MailLeads
<1>7. /\ pending = [c \in Actions \union {"connection"} |-> NoEntry] /\ calls = 0
      /\ feedback = NoFeedback /\ inbox = <<>> /\ effected.now = Dependencies(app)
      /\ ops = [c \in Channels |-> IF c \in asked THEN [step |-> "asked", kind |-> c,
                                                         callers |-> {}, result |-> "none"]
                                   ELSE NoOp]
  BY DEF ControlsInit
<1>8. EntriesAreRight /\ BiasToken = 0
  <2>1. pending["bias"] = NoEntry
    BY <1>7 DEF Actions
  <2>2. NoEntry.token = 0 /\ "token" \in DOMAIN NoEntry
    BY DEF NoEntry
  <2> QED
    BY <1>7, <2>1, <2>2 DEF EntriesAreRight, BiasToken
<1>9. RequestsAre(calls, BiasToken)
  <2>1. ASSUME NEW c \in Channels PROVE IsRequest(c, ops[c], 0, 0)
    <3>1. PICK o : o = [step |-> "asked", kind |-> c, callers |-> {}, result |-> "none"]
      OBVIOUS
    <3>2. ops[c] = o \/ ops[c] = NoOp
      BY <1>7, <3>1
    <3>3. IsRequest(c, o, 0, 0)
      <4>1. /\ DOMAIN o = {"step", "kind", "callers", "result"} /\ o = [f \in DOMAIN o |-> o[f]]
            /\ o.step = "asked" /\ o.callers = {} /\ o.kind = c
        BY <3>1
      <4> QED
        BY <4>1 DEF IsRequest
    <3> QED
      BY <3>2, <3>3 DEF IsRequest
  <2>2. ops = [c \in Channels |-> ops[c]]
    BY <1>7
  <2>3. Addressed(mail, 0, 0)
    BY <1>4, <1>5 DEF Addressed
  <2> QED
    BY <1>7, <1>8, <2>1, <2>2, <2>3 DEF RequestsAre
<1>10. InboxIsRight
  <2>1. inbox \in Seq(Channels) /\ Len(inbox) = 0
    BY <1>7
  <2> QED
    BY <1>7, <2>1 DEF InboxIsRight
<1>11. FeedbackIsRight
  <2>1. due = 0 /\ shown = app
    BY DEF LiveInit
  <2>2. IsScope(Scope(app)) /\ NotBefore(Scope(app), Scope(app))
    BY <1>6 DEF MailLeads, IsApp, IsScope, Scope, NotBefore
  <2> QED
    BY <1>7, <2>1, <2>2 DEF FeedbackIsRight
<1> QED
  BY <1>2, <1>3, <1>6, <1>7, <1>8, <1>9, <1>10, <1>11 DEF ControlsInvariant, ControlsAreRight

\* The controls, where they are played.
FeedbackInvariant == IF scene = "controls" THEN ControlsInvariant ELSE feedback = NoFeedback

LEMMA FeedbackInit ==
  ASSUME Init
  PROVE  FeedbackInvariant
<1>1. PICK events \in {<<>>, BackendUp, SensorUp} :
        /\ LiveInit(Defaults, events)
        /\ ControlsInit(IF scene = "controls" /\ events = SensorUp THEN {"bias"} ELSE {})
  BY DEF Init
<1>2. ControlsInvariant /\ feedback = NoFeedback
  BY <1>1, ControlsStart
<1> QED
  BY <1>2 DEF FeedbackInvariant

LEMMA FeedbackStep ==
  ASSUME FeedbackInvariant, [Next]_vars
  PROVE  FeedbackInvariant'
<1>1. CASE Only("controls") /\ ControlsNext
  <2>1. scene = "controls" /\ scene' = scene
    BY <1>1 DEF Only
  <2> QED
    BY <1>1, <2>1, ControlsStep DEF FeedbackInvariant
<1>2. CASE \E part \in Scenes \ {"controls"} : Only(part)
  <2>1. scene # "controls" /\ scene' = scene /\ feedback' = feedback
    BY <1>2 DEF Only, controlVars, renderer
  <2> QED
    BY <2>1 DEF FeedbackInvariant
<1>3. CASE UNCHANGED vars
  <2>1. scene' = scene
    BY <1>3 DEF vars
  <2>2. CASE scene = "controls"
    <3>1. /\ UNCHANGED liveVars
          /\ UNCHANGED <<pending, feedback, calls, effected, ops, inbox, biased>>
      BY <1>3 DEF vars, controlVars, renderer, main
    <3>2. UNCHANGED <<peer, clock, mail, app, shown, due, sample>>
      BY <3>1 DEF liveVars, world, scheduler
    <3>3. ControlsInvariant
      BY <2>2 DEF FeedbackInvariant
    <3>4. FeedbackIsRight'
      BY <3>1, <3>2, <3>3, ReportStays DEF ControlsInvariant, ControlsAreRight
    <3>5. ControlsAreRight'
      BY <3>1, <3>2, <3>3, <3>4, SentStays DEF ControlsInvariant, ControlsAreRight, EntriesAreRight
    <3>6. CalmInvariant'
      BY <3>2, <3>3 DEF ControlsInvariant, CalmInvariant
    <3> QED
      BY <2>1, <2>2, <3>5, <3>6 DEF FeedbackInvariant, ControlsInvariant
  <2>3. CASE scene # "controls"
    BY <1>3, <2>1, <2>3 DEF FeedbackInvariant, vars, controlVars, renderer
  <2> QED
    BY <2>2, <2>3
<1> QED
  BY <1>1, <1>2, <1>3, Zenon DEF Next, Scenes

\* What is reported of a command is of the session that is shown, and a bias that is
\* reported as applied was applied to that session's sensor: for commands, answers, events
\* and failures in any number and order, though a press of a later session may have joined
\* the request of an earlier one.
THEOREM FeedbackIsCurrent == Spec => []FeedbackIsOfThisSession
<1>1. FeedbackInvariant => FeedbackIsOfThisSession
  <2> SUFFICES ASSUME FeedbackInvariant, Shown, feedback # NoFeedback
               PROVE  /\ feedback.scope = Scope(shown) /\ Streams(shown)
                      /\ feedback.result = "success" => feedback.scope.generation \in biased
    BY DEF FeedbackIsOfThisSession
  <2>1. FeedbackIsRight /\ due = 0 /\ app = shown
    BY DEF FeedbackInvariant, ControlsInvariant, ControlsAreRight, Shown
  <2>2. ReportIsRight /\ effected.now = Dependencies(shown)
    BY <2>1 DEF FeedbackIsRight
  <2>3. /\ Dependencies(shown).scope = Scope(shown)
        /\ Dependencies(shown).backend = shown.backend.state
        /\ Dependencies(shown).connection = shown.connection
    BY DEF Dependencies
  <2>4. feedback.scope = Scope(shown) /\ Streams(shown)
    BY <2>2, <2>3 DEF ReportIsRight, Streams
  <2> QED
    BY <2>1, <2>2, <2>4 DEF ReportIsRight
<1>2. FeedbackInvariant /\ [Next]_vars => FeedbackInvariant'
  BY FeedbackStep
<1> QED
  BY FeedbackInit, <1>1, <1>2, PTL DEF Spec
-----------------------------------------------------------------------------
(* The controls' buttons: what the messages on their way make of what is seen *)

LEMMA GuideNothing ==
  ASSUME NEW v
  PROVE  Guides(<<>>, v, v)
<1>1. PICK views : views = [k \in 0..0 |-> v]
  OBVIOUS
<1>2. views[0] = v /\ Len(<<>>) = 0 /\ \A k \in 1..0 : FALSE
  BY <1>1
<1> QED
  BY <1>2 DEF Guides

LEMMA GuideOne ==
  ASSUME NEW e, NEW v
  PROVE  Guides(<<e>>, v, After(v, e))
<1>1. PICK w : w = After(v, e)
  OBVIOUS
<1>2. PICK views : views = [k \in 0..1 |-> IF k = 0 THEN v ELSE w]
  OBVIOUS
<1>3. PICK q : q = <<e>>
  OBVIOUS
<1>4. /\ views[0] = v /\ views[1] = w /\ Len(q) = 1 /\ q[1] = e
      /\ \A k \in 1..1 : k = 1 /\ k - 1 = 0
  BY <1>2, <1>3
<1>5. Guides(q, v, w)
  <2>1. views[Len(q)] = w
    BY <1>4
  <2>2. \A k \in 1..Len(q) : views[k] = After(views[k - 1], q[k])
    <3>1. \A k \in 1..Len(q) : k = 1 /\ views[k] = w /\ views[k - 1] = v /\ q[k] = e
      BY <1>4
    <3> QED
      BY <1>1, <3>1
  <2> QED
    BY <1>4, <2>1, <2>2 DEF Guides
<1> QED
  BY <1>1, <1>3, <1>5

\* What two lists of messages make of it one after the other.
LEMMA GuidesAreJoined ==
  ASSUME NEW p, NEW q, CalmMail(p), CalmMail(q), NEW u, NEW v, NEW w,
         Guides(p, u, v), Guides(q, v, w)
  PROVE  Guides(p \o q, u, w)
<1>1. PICK m \in Nat, n \in Nat : m = Len(p) /\ n = Len(q)
  BY JoinedIs
<1>2. PICK r : r = p \o q
  OBVIOUS
<1>3. Len(r) = m + n /\ \A i \in 1..(m + n) : r[i] = IF i <= m THEN p[i] ELSE q[i - m]
  BY <1>1, <1>2, JoinedIs
<1>4. PICK a : /\ a[0] = u /\ a[m] = v
               /\ \A i \in 1..m : a[i] = After(a[i - 1], p[i])
  BY <1>1 DEF Guides
<1>5. PICK b : /\ b[0] = v /\ b[n] = w
               /\ \A i \in 1..n : b[i] = After(b[i - 1], q[i])
  BY <1>1 DEF Guides
<1>6. PICK c : c = [i \in 0..(m + n) |-> IF i <= m THEN a[i] ELSE b[i - m]]
  OBVIOUS
<1>7. \A i \in 0..m : c[i] = a[i]
  BY <1>6
<1>8. ASSUME NEW i \in 0..n PROVE c[m + i] = b[i]
  <2>1. CASE i = 0
    BY <1>4, <1>5, <1>7, <2>1
  <2>2. CASE i # 0
    <3>1. m + i \in 0..(m + n) /\ ~(m + i <= m) /\ (m + i) - m = i
      BY <2>2
    <3> QED
      BY <1>6, <3>1
  <2> QED
    BY <2>1, <2>2
<1>9. ASSUME NEW i \in 1..(m + n)
      PROVE  c[i] = After(c[i - 1], r[i])
  <2>1. CASE i <= m
    <3>1. i \in 1..m /\ i \in 0..m /\ i - 1 \in 0..m
      BY <2>1
    <3>2. r[i] = p[i] /\ c[i] = a[i] /\ c[i - 1] = a[i - 1]
      BY <1>3, <1>7, <2>1, <3>1
    <3> QED
      BY <1>4, <3>1, <3>2
  <2>2. CASE ~(i <= m)
    <3>1. PICK j \in 1..n : j = i - m
      BY <2>2
    <3>2. m + j = i /\ m + (j - 1) = i - 1 /\ j - 1 \in 0..n /\ j \in 0..n
      BY <3>1
    <3>3. r[i] = q[j] /\ c[i] = b[j] /\ c[i - 1] = b[j - 1]
      BY <1>3, <1>8, <2>2, <3>1, <3>2
    <3> QED
      BY <1>5, <3>1, <3>3
  <2> QED
    BY <2>1, <2>2
<1>10. c[0] = u /\ c[m + n] = w
  <2>1. 0 \in 0..m /\ n \in 0..n
    OBVIOUS
  <2> QED
    BY <1>4, <1>5, <1>7, <1>8, <2>1
<1>11. Guides(r, u, w)
  BY <1>3, <1>9, <1>10 DEF Guides
<1> QED
  BY <1>2, <1>11

\* The first message, and what those behind it make of what it makes.
LEMMA GuideIsBegun ==
  ASSUME NEW q, CalmMail(q), q # <<>>, NEW v, NEW w, Guides(q, v, w)
  PROVE  Guides(Tail(q), After(v, Head(q)), w)
<1>1. PICK S : q \in Seq(S)
  BY DEF CalmMail
<1>2. PICK m \in Nat : m = Len(q)
  BY <1>1, LenProperties
<1>3. PICK r : r = Tail(q)
  OBVIOUS
<1>4. m # 0 /\ Len(r) = m - 1 /\ Head(q) = q[1] /\ \A i \in 1..(m - 1) : r[i] = q[i + 1]
  BY <1>1, <1>2, <1>3, HeadTailProperties, EmptySeq
<1>5. PICK a : /\ a[0] = v /\ a[m] = w
               /\ \A i \in 1..m : a[i] = After(a[i - 1], q[i])
  BY <1>2 DEF Guides
<1>6. a[1] = After(v, q[1])
  <2>1. 1 \in 1..m /\ 1 - 1 = 0
    BY <1>4
  <2> QED
    BY <1>5, <2>1
<1>7. PICK c : c = [i \in 0..(m - 1) |-> a[i + 1]]
  OBVIOUS
<1>8. c[0] = a[1] /\ c[m - 1] = w
  <2>1. 0 \in 0..(m - 1) /\ m - 1 \in 0..(m - 1) /\ (m - 1) + 1 = m /\ 0 + 1 = 1
    BY <1>4
  <2> QED
    BY <1>5, <1>7, <2>1
<1>9. ASSUME NEW i \in 1..(m - 1) PROVE c[i] = After(c[i - 1], r[i])
  <2>1. i + 1 \in 1..m /\ (i + 1) - 1 = i /\ i - 1 \in 0..(m - 1) /\ (i - 1) + 1 = i
        /\ i \in 0..(m - 1)
    OBVIOUS
  <2>2. c[i] = a[i + 1] /\ c[i - 1] = a[i] /\ r[i] = q[i + 1]
    BY <1>4, <1>7, <2>1
  <2>3. a[i + 1] = After(a[i], q[i + 1])
    BY <1>5, <2>1
  <2> QED
    BY <2>2, <2>3
<1>10. Guides(r, a[1], w)
  BY <1>4, <1>8, <1>9 DEF Guides
<1> QED
  BY <1>3, <1>4, <1>6, <1>10

\* Answers change nothing of it.
LEMMA ReplyGuidesNowhere ==
  ASSUME NEW e, e.type = "reply", NEW v
  PROVE  After(v, e) = v
  BY DEF After, Gone, Ends

LEMMA RepliesGuideNowhere ==
  ASSUME NEW q, CalmMail(q), NEW v, \A i \in 1..Len(q) : q[i].type = "reply"
  PROVE  Guides(q, v, v)
<1>1. PICK n \in Nat : n = Len(q)
  BY JoinedIs
<1>2. PICK a : a = [i \in 0..n |-> v]
  OBVIOUS
<1>3. a[0] = v /\ a[n] = v /\ \A i \in 1..n : a[i] = v /\ a[i - 1] = v
  BY <1>2
<1>4. \A i \in 1..n : After(v, q[i]) = v
  BY <1>1, ReplyGuidesNowhere
<1> QED
  BY <1>1, <1>3, <1>4 DEF Guides

\* A stamp changes nothing of it either.
Plain(e) == \A n, v : After(v, At(n, e)) = After(v, e)

LEMMA PlainIs ==
  ASSUME NEW e, {"type", "cuts"} \subseteq DOMAIN e, "at" \notin DOMAIN e,
         e.type \in {"backend_state", "connection_state", "recording_state"} =>
           "state" \in DOMAIN e,
         e.type = "connection_state" => "paused" \in DOMAIN e
  PROVE  Plain(e)
<1> SUFFICES ASSUME NEW n, NEW v PROVE After(v, At(n, e)) = After(v, e)
  BY DEF Plain
<1>1. PICK x : x = At(n, e)
  OBVIOUS
<1>2. \A f \in DOMAIN e : x[f] = e[f]
  BY <1>1 DEF At
<1>3. /\ x.type = e.type
      /\ e.type \in {"backend_state", "connection_state", "recording_state"} => x.state = e.state
      /\ e.type = "connection_state" => x.paused = e.paused
  BY <1>2
<1>4. Gone(x) <=> Gone(e)
  BY <1>3 DEF Gone, Ends
<1>5. After(v, x) = After(v, e)
  BY <1>3, <1>4 DEF After
<1> QED
  BY <1>1, <1>5

LEMMA EventsArePlain ==
  /\ \A state : Plain(BackendEvent(state)) /\ Plain(RecordingEvent(state))
  /\ \A state, gen, paused : Plain(LinkEvent(state, gen, paused))
<1>1. ASSUME NEW state PROVE Plain(BackendEvent(state))
  <2>1. PICK e : e = BackendEvent(state)
    OBVIOUS
  <2>2. DOMAIN e = {"type", "state", "error", "cuts"} /\ e.type = "backend_state"
    BY <2>1 DEF BackendEvent
  <2> QED
    BY <2>1, <2>2, PlainIs
<1>2. ASSUME NEW state PROVE Plain(RecordingEvent(state))
  <2>1. PICK e : e = RecordingEvent(state)
    OBVIOUS
  <2>2. DOMAIN e = {"type", "state", "path", "error", "cuts"} /\ e.type = "recording_state"
    BY <2>1 DEF RecordingEvent
  <2> QED
    BY <2>1, <2>2, PlainIs
<1>3. ASSUME NEW state, NEW gen, NEW paused PROVE Plain(LinkEvent(state, gen, paused))
  <2>1. PICK e : e = LinkEvent(state, gen, paused)
    OBVIOUS
  <2>2. DOMAIN e = {"type", "state", "gen", "paused", "error", "cuts"}
        /\ e.type = "connection_state"
    BY <2>1 DEF LinkEvent
  <2> QED
    BY <2>1, <2>2, PlainIs
<1> QED
  BY <1>1, <1>2, <1>3

\* What each of the events makes of it.
LEMMA EventsGuide ==
  /\ \A c, p, r : After(View(c, p, r), BackendEvent("running")) = View(c, p, r)
  /\ \A v, state : state # "running" =>
       After(v, BackendEvent(state)) = View("disconnected", FALSE, "idle")
  /\ \A c, p, r, state : c = "streaming" \/ state \in Idle =>
       After(View(c, p, r), RecordingEvent(state)) = View(c, p, state)
  /\ \A c, p, r, state, gen, paused : state # "disconnected" =>
       After(View(c, p, r), LinkEvent(state, gen, paused)) = View(state, paused, r)
  /\ \A v, gen, paused :
       After(v, LinkEvent("disconnected", gen, paused)) = View("disconnected", FALSE, "idle")
<1>1. ASSUME NEW c, NEW p, NEW r
      PROVE  After(View(c, p, r), BackendEvent("running")) = View(c, p, r)
  <2>1. PICK e : e = BackendEvent("running")
    OBVIOUS
  <2>2. e.type = "backend_state" /\ e.state = "running"
    BY <2>1 DEF BackendEvent
  <2> QED
    BY <2>1, <2>2 DEF After, Gone, Ends
<1>2. ASSUME NEW v, NEW state, state # "running"
      PROVE  After(v, BackendEvent(state)) = View("disconnected", FALSE, "idle")
  <2>1. PICK e : e = BackendEvent(state)
    OBVIOUS
  <2>2. e.type = "backend_state" /\ e.state = state
    BY <2>1 DEF BackendEvent
  <2> QED
    BY <1>2, <2>1, <2>2 DEF After, Gone, Ends
<1>3. ASSUME NEW c, NEW p, NEW r, NEW state, c = "streaming" \/ state \in Idle
      PROVE  After(View(c, p, r), RecordingEvent(state)) = View(c, p, state)
  <2>1. PICK e, v : e = RecordingEvent(state) /\ v = View(c, p, r)
    OBVIOUS
  <2>2. e.type = "recording_state" /\ e.state = state
    BY <2>1 DEF RecordingEvent
  <2>3. v.connection = c /\ v.paused = p
    BY <2>1, ViewIs
  <2>4. After(v, e) = View(v.connection, v.paused, e.state)
    BY <1>3, <2>2, <2>3 DEF After, Gone, Ends
  <2> QED
    BY <2>1, <2>2, <2>3, <2>4
<1>4. ASSUME NEW c, NEW p, NEW r, NEW state, NEW gen, NEW paused, state # "disconnected"
      PROVE  After(View(c, p, r), LinkEvent(state, gen, paused)) = View(state, paused, r)
  <2>1. PICK e, v : e = LinkEvent(state, gen, paused) /\ v = View(c, p, r)
    OBVIOUS
  <2>2. e.type = "connection_state" /\ e.state = state /\ e.paused = paused
    BY <2>1 DEF LinkEvent
  <2>3. v.recording = r
    BY <2>1, ViewIs
  <2>4. After(v, e) = View(e.state, e.paused, v.recording)
    BY <1>4, <2>2 DEF After, Gone, Ends
  <2> QED
    BY <2>1, <2>2, <2>3, <2>4
<1>5. ASSUME NEW v, NEW gen, NEW paused
      PROVE  After(v, LinkEvent("disconnected", gen, paused)) = View("disconnected", FALSE, "idle")
  <2>1. PICK e : e = LinkEvent("disconnected", gen, paused)
    OBVIOUS
  <2>2. e.type = "connection_state" /\ e.state = "disconnected"
    BY <2>1 DEF LinkEvent
  <2> QED
    BY <2>1, <2>2 DEF After, Gone
<1> QED
  BY <1>1, <1>2, <1>3, <1>4, <1>5
-----------------------------------------------------------------------------
(* The controls' buttons: their invariant *)

PeerRests ==
  /\ peer.link = "disconnected" => peer.paused = FALSE
  /\ peer.backend # "running" => peer.link = "disconnected" /\ peer.recording = "idle"

KindsAreRight ==
  \A c \in Channels : ops[c] # NoOp => ops[c].kind \in Kinds /\ Channel(ops[c].kind) = c

\* A message with which a session lasts, and a session that lasts with all that are on
\* their way.
Stays(e, s) ==
  /\ e.type \notin {"backend_disconnected", "backend_state"}
  /\ e.type = "connection_state" => e.gen = s.generation
Lasts(s) == s = Scope(app) /\ \A e \in ToSet(mail) : Stays(e, s)

\* A command whose session is the one of some dependencies of the effects, and what it
\* asked for there.
AliveIn(x, d) ==
  /\ x.scope = d.scope /\ d.backend = "running"
  /\ Slot(x.kind) # "connection" => d.connection = "streaming"
ReachedIn(kind, d) ==
  CASE kind = "connect"    -> d.connection \notin {"disconnected", "error"}
    [] kind = "disconnect" -> d.connection = "disconnected"
    [] kind = "pause"      -> d.paused
    [] kind = "resume"     -> ~d.paused
    [] kind = "bias"       -> TRUE
    [] kind = "record"     -> d.recording \notin Idle
    [] kind = "stop"       -> d.recording \in Idle

\* A command for which something is still to come: an answer, or the state it asked for.
Owed(x, d) == AliveIn(x, d) /\ (x.complete => ~ReachedIn(x.kind, d))

\* The session does what was asked for, or is over, and nothing will undo it.
Fulfilled(kind) ==
  /\ kind # "connect"
  /\ peer.link = "disconnected" \/ ReachedIn(kind, Behind)
  /\ kind = "record" => "stop" \notin ToSet(inbox)

Tells(e, t) == e.type = "reply" /\ t \in e.callers

\* Only of its own channel a command is told.
Apart(t, c) ==
  /\ \A d \in Channels \ {c} : ops[d] # NoOp => t \notin ops[d].callers
  /\ \A e \in ToSet(mail) : Tells(e, t) => e.channel = c

StopsComeFirst ==
  \A i \in 1..Len(inbox) :
    inbox[i] = "stop" => \E j \in 1..Len(inbox) : j > i /\ inbox[j] = "record"

\* A command waits for its answer, or has it or will take it; what it was told is so.
Waits(x, o) ==
  /\ x.complete = FALSE /\ o # NoOp /\ o.kind = x.kind /\ x.token \in o.callers
  /\ o.step # "saving" /\ (o.step = "done" /\ o.result = "ok" => Fulfilled(x.kind))
  /\ \A e \in ToSet(mail) : ~Tells(e, x.token)
  /\ x.kind = "record" /\ o.step = "sent" => StopsComeFirst
IsAnswered(x, o) ==
  /\ o = NoOp /\ (x.complete = TRUE => Fulfilled(x.kind))
  /\ \A e \in ToSet(mail) : Tells(e, x.token) /\ e.result = "ok" => Fulfilled(x.kind)
  /\ x.complete = TRUE \/ \E e \in ToSet(mail) : Tells(e, x.token)
InPhase(x, o) == Waits(x, o) \/ IsAnswered(x, o)

EntryFields == {"token", "kind", "complete", "scope", "live", "began"}
IsEntry(c, x) ==
  /\ DOMAIN x = EntryFields /\ x = [f \in DOMAIN x |-> x[f]]
  /\ x.token \in 1..calls /\ x.kind \in Kinds /\ Slot(x.kind) = c
  /\ x.complete \in BOOLEAN /\ x.live \in BOOLEAN /\ x.began \in BOOLEAN
  /\ IsScope(x.scope) /\ NotBefore(Scope(app), x.scope) /\ Apart(x.token, Channel(x.kind))

\* The commands of which the code keeps what is claimed.
Kept(x)   == x # NoEntry /\ x.began = TRUE /\ x.live = TRUE
IsOwed(x) == \/ Owed(x, Dependencies(shown))
             \/ due # 0 /\ Owed(x, effected.now)
Expected(x) == AliveIn(x, Dependencies(shown)) /\ Lasts(x.scope)

EntryStands(c, x) ==
  /\ IsEntry(c, x)
  /\ Kept(x) => IsOwed(x)
  /\ Kept(x) /\ Expected(x) => InPhase(x, ops[Channel(x.kind)])

ButtonsAreRight ==
  /\ Guides(mail, Sight(app), Behind) /\ PeerRests /\ KindsAreRight
  /\ Kept(pending["stop"]) => ops["record"] = NoOp
  /\ \A c \in DOMAIN pending : pending[c] # NoEntry => EntryStands(c, pending[c])

-----------------------------------------------------------------------------
(* The controls' buttons: what the mail and the inbox hold *)

LEMMA MessagesAre ==
  ASSUME NEW q, CalmMail(q)
  PROVE  /\ DOMAIN q = 1..Len(q) /\ Len(q) \in Nat
         /\ \A e : e \in ToSet(q) <=> \E k \in 1..Len(q) : e = q[k]
<1>1. PICK S : q \in Seq(S)
  BY DEF CalmMail
<1>2. DOMAIN q = 1..Len(q) /\ Len(q) \in Nat
  BY <1>1, LenProperties
<1> QED
  BY <1>2 DEF ToSet

LEMMA MessagesJoined ==
  ASSUME NEW p, NEW q, CalmMail(p), CalmMail(q)
  PROVE  \A e : e \in ToSet(p \o q) <=> e \in ToSet(p) \/ e \in ToSet(q)
<1>1. PICK m \in Nat, n \in Nat : m = Len(p) /\ n = Len(q)
  BY JoinedIs
<1>2. PICK r : r = p \o q
  OBVIOUS
<1>3. Len(r) = m + n /\ \A k \in 1..(m + n) : r[k] = IF k <= m THEN p[k] ELSE q[k - m]
  BY <1>1, <1>2, JoinedIs
<1>4. CalmMail(r)
  BY <1>2, CalmBoth
<1>5. /\ \A e : e \in ToSet(r) <=> \E k \in 1..(m + n) : e = r[k]
      /\ \A e : e \in ToSet(p) <=> \E k \in 1..m : e = p[k]
      /\ \A e : e \in ToSet(q) <=> \E k \in 1..n : e = q[k]
  BY <1>1, <1>3, <1>4, MessagesAre
<1>6. ASSUME NEW e, e \in ToSet(r) PROVE e \in ToSet(p) \/ e \in ToSet(q)
  <2>1. PICK k \in 1..(m + n) : e = r[k]
    BY <1>5, <1>6
  <2>2. CASE k <= m
    <3>1. k \in 1..m /\ e = p[k]
      BY <1>3, <2>1, <2>2
    <3> QED
      BY <1>5, <3>1
  <2>3. CASE ~(k <= m)
    <3>1. k - m \in 1..n /\ e = q[k - m]
      BY <1>3, <2>1, <2>3
    <3> QED
      BY <1>5, <3>1
  <2> QED
    BY <2>2, <2>3
<1>7. ASSUME NEW e, e \in ToSet(p) PROVE e \in ToSet(r)
  <2>1. PICK k \in 1..m : e = p[k]
    BY <1>5, <1>7
  <2>2. k \in 1..(m + n) /\ k <= m
    OBVIOUS
  <2>3. e = r[k]
    BY <1>3, <2>1, <2>2
  <2> QED
    BY <1>5, <2>2, <2>3
<1>8. ASSUME NEW e, e \in ToSet(q) PROVE e \in ToSet(r)
  <2>1. PICK k \in 1..n : e = q[k]
    BY <1>5, <1>8
  <2>2. m + k \in 1..(m + n) /\ ~(m + k <= m) /\ (m + k) - m = k
    OBVIOUS
  <2>3. e = r[m + k]
    BY <1>3, <2>1, <2>2
  <2> QED
    BY <1>5, <2>2, <2>3
<1> QED
  BY <1>2, <1>6, <1>7, <1>8

LEMMA FirstMessageIs ==
  ASSUME NEW q, CalmMail(q), q # <<>>
  PROVE  \A e : e \in ToSet(q) <=> e = Head(q) \/ e \in ToSet(Tail(q))
<1>1. PICK S : q \in Seq(S)
  BY DEF CalmMail
<1>2. PICK r : r = Tail(q)
  OBVIOUS
<1>0. PICK m \in Nat : m = Len(q)
  BY <1>1, LenProperties
<1>3. m # 0 /\ Len(r) = m - 1 /\ Head(q) = q[1] /\ \A i \in 1..(m - 1) : r[i] = q[i + 1]
  BY <1>0, <1>1, <1>2, HeadTailProperties, EmptySeq
<1>4. CalmMail(r)
  BY <1>2, CalmFirst
<1>5. /\ \A e : e \in ToSet(q) <=> \E k \in 1..m : e = q[k]
      /\ \A e : e \in ToSet(r) <=> \E k \in 1..(m - 1) : e = r[k]
  BY <1>0, <1>3, <1>4, MessagesAre
<1>6. ASSUME NEW e, e \in ToSet(q) PROVE e = Head(q) \/ e \in ToSet(r)
  <2>1. PICK k \in 1..m : e = q[k]
    BY <1>5, <1>6
  <2>2. CASE k # 1
    <3>1. k - 1 \in 1..(m - 1) /\ (k - 1) + 1 = k
      BY <2>2
    <3>2. e = r[k - 1]
      BY <1>3, <2>1, <3>1
    <3> QED
      BY <1>5, <3>1, <3>2
  <2> QED
    BY <1>3, <2>1, <2>2
<1>7. ASSUME NEW e, e = Head(q) \/ e \in ToSet(r) PROVE e \in ToSet(q)
  <2>1. CASE e = Head(q)
    <3>1. 1 \in 1..m
      BY <1>3
    <3> QED
      BY <1>3, <1>5, <2>1, <3>1
  <2>2. CASE e \in ToSet(r)
    <3>1. PICK k \in 1..(m - 1) : e = r[k]
      BY <1>5, <2>2
    <3>2. k + 1 \in 1..m /\ e = q[k + 1]
      BY <1>3, <3>1
    <3> QED
      BY <1>5, <3>2
  <2> QED
    BY <1>7, <2>1, <2>2
<1> QED
  BY <1>2, <1>6, <1>7

LEMMA OneMessageIs ==
  /\ \A e : ToSet(<<e>>) = {e}
  /\ ToSet(<<>>) = {}
<1>1. ASSUME NEW e PROVE ToSet(<<e>>) = {e}
  <2>1. PICK q : q = <<e>>
    OBVIOUS
  <2>2. DOMAIN q = {1} /\ q[1] = e
    BY <2>1
  <2>3. ToSet(q) = {e}
    BY <2>2 DEF ToSet
  <2> QED
    BY <2>1, <2>3
<1>2. ToSet(<<>>) = {}
  BY DEF ToSet
<1> QED
  BY <1>1, <1>2

\* A command is sent, of the inbox's channels.
LEMMA InboxGrows ==
  ASSUME NEW q \in Seq(Channels), NEW c \in Channels, NEW r, r = Append(q, c)
  PROVE  /\ \A d : d \in ToSet(r) <=> d = c \/ d \in ToSet(q)
         /\ \E m \in Nat : /\ m = Len(q) /\ Len(r) = m + 1 /\ r[m + 1] = c
                           /\ \A i \in 1..m : r[i] = q[i]
<1>1. PICK m \in Nat : m = Len(q)
  BY LenProperties
<1>2. Len(r) = m + 1 /\ r[m + 1] = c /\ r \in Seq(Channels) /\ \A i \in 1..m : r[i] = q[i]
  BY <1>1, AppendProperties
<1>3. DOMAIN q = 1..m /\ DOMAIN r = 1..(m + 1)
  BY <1>1, <1>2, LenProperties
<1>4. /\ \A d : d \in ToSet(q) <=> \E i \in 1..m : d = q[i]
      /\ \A d : d \in ToSet(r) <=> \E i \in 1..(m + 1) : d = r[i]
  BY <1>3 DEF ToSet
<1>5. \A i \in 1..(m + 1) : i \in 1..m \/ i = m + 1
  OBVIOUS
<1>6. m + 1 \in 1..(m + 1) /\ \A i \in 1..m : i \in 1..(m + 1)
  OBVIOUS
<1> QED
  BY <1>1, <1>2, <1>4, <1>5, <1>6

LEMMA InboxShrinks ==
  ASSUME NEW q \in Seq(Channels), q # <<>>, NEW r, r = Tail(q)
  PROVE  /\ \A d : d \in ToSet(q) <=> d = Head(q) \/ d \in ToSet(r)
         /\ \E m \in Nat : /\ m + 1 = Len(q) /\ Len(r) = m /\ Head(q) = q[1]
                           /\ \A i \in 1..m : r[i] = q[i + 1]
<1>1. Len(q) \in Nat /\ Len(q) # 0
  BY EmptySeq, LenProperties
<1>2. PICK m \in Nat : m + 1 = Len(q)
  <2>1. Len(q) - 1 \in Nat /\ (Len(q) - 1) + 1 = Len(q)
    BY <1>1
  <2> QED
    BY <2>1
<1>3. /\ r \in Seq(Channels) /\ Len(r) = Len(q) - 1 /\ Head(q) = q[1]
      /\ \A i \in 1..Len(r) : r[i] = q[i + 1]
  BY HeadTailProperties
<1>4. Len(r) = m /\ DOMAIN q = 1..(m + 1) /\ DOMAIN r = 1..m
  BY <1>2, <1>3, LenProperties
<1>5. /\ \A d : d \in ToSet(q) <=> \E i \in 1..(m + 1) : d = q[i]
      /\ \A d : d \in ToSet(r) <=> \E i \in 1..m : d = r[i]
  BY <1>4 DEF ToSet
<1>6. \A i \in 1..(m + 1) : i = 1 \/ (i - 1 \in 1..m /\ (i - 1) + 1 = i)
  OBVIOUS
<1>7. 1 \in 1..(m + 1) /\ \A i \in 1..m : i + 1 \in 1..(m + 1)
  OBVIOUS
<1>8. \A d : d \in ToSet(q) => d = Head(q) \/ d \in ToSet(r)
  <2> SUFFICES ASSUME NEW d, d \in ToSet(q), d # Head(q) PROVE d \in ToSet(r)
    OBVIOUS
  <2>1. PICK i \in 1..(m + 1) : d = q[i]
    BY <1>5
  <2>2. i - 1 \in 1..m /\ (i - 1) + 1 = i
    BY <1>3, <1>6, <2>1
  <2>3. d = r[i - 1]
    BY <1>3, <1>4, <2>1, <2>2
  <2> QED
    BY <1>5, <2>2, <2>3
<1>9. \A d : d = Head(q) \/ d \in ToSet(r) => d \in ToSet(q)
  <2>1. Head(q) \in ToSet(q)
    BY <1>3, <1>5, <1>7
  <2>2. ASSUME NEW d, d \in ToSet(r) PROVE d \in ToSet(q)
    <3>1. PICK i \in 1..m : d = r[i]
      BY <1>5, <2>2
    <3>2. i + 1 \in 1..(m + 1) /\ d = q[i + 1]
      BY <1>3, <1>4, <1>7, <3>1
    <3> QED
      BY <1>5, <3>2
  <2> QED
    BY <2>1, <2>2
<1>10. \E n \in Nat : /\ n + 1 = Len(q) /\ Len(r) = n /\ Head(q) = q[1]
                      /\ \A i \in 1..n : r[i] = q[i + 1]
  BY <1>2, <1>3, <1>4
<1> QED
  BY <1>8, <1>9, <1>10, Zenon
-----------------------------------------------------------------------------
(* The controls' buttons: what the steps of the main process and the companion keep *)

LEMMA ChannelsAre ==
  /\ \A a \in Kinds : Channel(a) \in Channels /\ Slot(a) \in Actions \union {"connection"}
  /\ \A a, b \in Kinds : Channel(a) = Channel(b) => Slot(a) = Slot(b)
  /\ \A a \in Kinds, c \in {"connect", "record", "stop", "bias", "disconnect"} :
       Channel(a) = c <=> a = c
<1>1. \A a \in Kinds : Channel(a) \in Channels /\ Slot(a) \in Actions \union {"connection"}
  BY DEF Kinds, Channels, Channel, Slot, Actions
<1>2. ASSUME NEW a \in Kinds, NEW b \in Kinds, Channel(a) = Channel(b)
      PROVE  Slot(a) = Slot(b)
  <2>1. CASE a \in {"pause", "resume"}
    <3>1. b \in {"pause", "resume"}
      BY <1>2, <2>1 DEF Kinds, Channel
    <3> QED
      BY <2>1, <3>1 DEF Slot
  <2>2. CASE a \notin {"pause", "resume"}
    <3>1. a = b
      BY <1>2, <2>2 DEF Kinds, Channel
    <3> QED
      BY <3>1
  <2> QED
    BY <2>1, <2>2
<1>3. \A a \in Kinds, c \in {"connect", "record", "stop", "bias", "disconnect"} :
        Channel(a) = c <=> a = c
  BY DEF Kinds, Channel
<1> QED
  BY <1>1, <1>2, <1>3

\* While a session lasts, it has the generation the renderer knows.
LEMMA GenerationStays ==
  ASSUME CalmMail(mail), MailLeads, NEW s, Lasts(s)
  PROVE  peer.generation = s.generation /\ s.generation = app.generation
<1>1. PICK t \in Nat : Reaches(mail, app.generation, t, peer.generation, clock, biased)
  BY DEF MailLeads
<1>2. PICK n \in Nat : n = Len(mail)
  BY MessagesAre
<1>3. PICK g : g = app.generation
  OBVIOUS
<1>4. s.generation = g
  BY <1>3 DEF Lasts, Scope
<1>5. PICK gens, times : /\ gens[0] = g /\ gens[n] = peer.generation
                         /\ \A k \in 1..n : Leads(gens[k - 1], times[k - 1], mail[k],
                                                  gens[k], times[k], biased)
  BY <1>1, <1>2, <1>3 DEF Reaches
<1>6. ASSUME NEW k \in 1..n, gens[k - 1] = g PROVE gens[k] = g
  <2>1. PICK e : e = mail[k]
    OBVIOUS
  <2>2. Stays(e, s)
    <3>1. e \in ToSet(mail)
      BY <1>2, <2>1, MessagesAre
    <3> QED
      BY <3>1 DEF Lasts
  <2>3. PICK u, v : Leads(g, u, e, gens[k], v, biased)
    BY <1>5, <1>6, <2>1
  <2>4. CASE e.type = "reply"
    BY <2>3, <2>4 DEF Leads
  <2>5. CASE e.type # "reply"
    <3>1. gens[k] = GenerationAfter(g, e)
      BY <2>3, <2>5 DEF Leads
    <3>2. ~Ends(e) /\ (e.type = "connection_state" => e.gen = g)
      BY <1>4, <2>2 DEF Stays, Ends
    <3> QED
      BY <3>1, <3>2 DEF GenerationAfter
  <2> QED
    BY <2>4, <2>5
<1>7. PICK T : T = {k \in Nat : k <= n => gens[k] = g}
  OBVIOUS
<1>8. 0 \in T
  BY <1>5, <1>7
<1>9. \A k \in Nat : k \in T => k + 1 \in T
  <2> SUFFICES ASSUME NEW k \in Nat, k \in T, k + 1 <= n PROVE gens[k + 1] = g
    BY <1>7
  <2>1. k + 1 \in 1..n /\ (k + 1) - 1 = k /\ k <= n
    OBVIOUS
  <2>2. gens[(k + 1) - 1] = g
    BY <1>7, <2>1
  <2> QED
    BY <1>6, <2>1, <2>2
<1>10. n \in T
  BY <1>8, <1>9, SetInduction
<1> QED
  BY <1>3, <1>4, <1>5, <1>7, <1>10

\* More is on its way: a session that lasts with it lasted without.
LEMMA LastsOn ==
  ASSUME CalmMail(mail), NEW y, CalmMail(y), mail' = mail \o y, app' = app, NEW s, Lasts(s)'
  PROVE  Lasts(s) /\ \A e \in ToSet(y) : Stays(e, s)
<1>1. \A e : e \in ToSet(mail') <=> e \in ToSet(mail) \/ e \in ToSet(y)
  BY MessagesJoined
<1>2. \A e \in ToSet(mail') : Stays(e, s)
  BY DEF Lasts
<1> QED
  BY <1>1, <1>2 DEF Lasts

\* What is sent answers only requests that there were, and none was made.
Continues(y) ==
  /\ \A d \in Channels : ops'[d] # NoOp =>
       ops[d] # NoOp /\ ops'[d].callers = ops[d].callers /\ ops'[d].kind = ops[d].kind
  /\ \A e \in ToSet(y) : e.type = "reply" =>
       e.channel \in Channels /\ ops[e.channel] # NoOp /\ e.callers = ops[e.channel].callers

LEMMA StaysApart ==
  ASSUME CalmMail(mail), NEW y, CalmMail(y), mail' = mail \o y, Continues(y),
         NEW t, NEW c \in Channels, Apart(t, c)
  PROVE  Apart(t, c)' /\ \A e \in ToSet(y) : Tells(e, t) => e.channel = c
<1>1. \A e : e \in ToSet(mail') <=> e \in ToSet(mail) \/ e \in ToSet(y)
  BY MessagesJoined
<1>2. ASSUME NEW e \in ToSet(y), Tells(e, t) PROVE e.channel = c
  <2>1. e.channel \in Channels /\ ops[e.channel] # NoOp /\ e.callers = ops[e.channel].callers
    BY <1>2 DEF Continues, Tells
  <2>2. t \in ops[e.channel].callers
    BY <1>2, <2>1 DEF Tells
  <2> QED
    BY <2>1, <2>2 DEF Apart
<1>3. \A d \in Channels \ {c} : ops'[d] # NoOp => t \notin ops'[d].callers
  BY DEF Continues, Apart
<1>4. \A e \in ToSet(mail') : Tells(e, t) => e.channel = c
  BY <1>1, <1>2 DEF Apart
<1> QED
  BY <1>2, <1>3, <1>4 DEF Apart, Tells

\* A command that is still to be answered, or was.
Awaited(x) ==
  /\ Kept(x) /\ x.kind \in Kinds /\ Apart(x.token, Channel(x.kind))
  /\ Expected(x) /\ InPhase(x, ops[Channel(x.kind)])

\* The main process and the companion move: it is enough what becomes of the commands.
LEMMA MovesStand ==
  ASSUME ControlsInvariant, ButtonsAreRight,
         UNCHANGED <<app, shown, due, effected, pending, calls>>,
         NEW y, CalmMail(y), mail' = mail \o y, Continues(y),
         Guides(y, Behind, Behind'), PeerRests',
         \A c \in DOMAIN pending :
           /\ Awaited(pending[c]) /\ IsOwed(pending[c])
           /\ \A e \in ToSet(y) : Stays(e, pending[c].scope)
           => InPhase(pending[c], ops[Channel(pending[c].kind)])'
  PROVE  ButtonsAreRight'
<1>1. CalmMail(mail) /\ MailLeads
  BY DEF ControlsInvariant, ControlsAreRight, CalmInvariant
<1>2. Guides(mail, Sight(app), Behind)'
  <2>1. PICK v, w : v = Sight(app) /\ w = Behind'
    OBVIOUS
  <2>2. Guides(mail \o y, v, w)
    BY <1>1, <2>1, GuidesAreJoined DEF ButtonsAreRight
  <2> QED
    BY <2>1, <2>2 DEF Sight
<1>3. KindsAreRight'
  BY DEF KindsAreRight, ButtonsAreRight, Continues
<1>4. Kept(pending["stop"])' => ops'["record"] = NoOp
  <2>1. "record" \in Channels
    BY ChannelsAre DEF Kinds
  <2> QED
    BY <2>1 DEF ButtonsAreRight, Kept, Continues
<1>5. ASSUME NEW c \in DOMAIN pending, pending[c] # NoEntry
      PROVE  EntryStands(c, pending[c])'
  <2>1. PICK x : x = pending[c] /\ x = pending'[c]
    OBVIOUS
  <2>2. EntryStands(c, x)
    BY <1>5, <2>1 DEF ButtonsAreRight
  <2>3. IsEntry(c, x) /\ x.kind \in Kinds /\ Channel(x.kind) \in Channels
    BY <2>2, ChannelsAre DEF EntryStands, IsEntry
  <2>4. Apart(x.token, Channel(x.kind)) /\ Apart(x.token, Channel(x.kind))'
    BY <1>1, <2>3, StaysApart DEF IsEntry
  <2>5. IsEntry(c, x)'
    BY <2>3, <2>4 DEF IsEntry
  <2>6. Kept(x) => IsOwed(x) /\ IsOwed(x)'
    BY <2>2 DEF EntryStands, IsOwed
  <2>7. ASSUME Kept(x), Expected(x)' PROVE InPhase(x, ops[Channel(x.kind)])'
    <3>1. Lasts(x.scope)'
      BY <2>7 DEF Expected
    <3>2. Lasts(x.scope) /\ \A e \in ToSet(y) : Stays(e, x.scope)
      BY <1>1, <3>1, LastsOn
    <3>3. Expected(x)
      BY <2>7, <3>2 DEF Expected
    <3>4. InPhase(x, ops[Channel(x.kind)])
      BY <2>2, <2>7, <3>3 DEF EntryStands
    <3>5. Awaited(x)
      BY <2>3, <2>4, <2>7, <3>3, <3>4 DEF Awaited
    <3> QED
      BY <2>1, <2>6, <2>7, <3>2, <3>5
  <2>8. EntryStands(c, x)'
    BY <2>5, <2>6, <2>7 DEF EntryStands
  <2> QED
    BY <2>1, <2>8 DEF EntryStands
<1> QED
  BY <1>2, <1>3, <1>4, <1>5 DEF ButtonsAreRight
-----------------------------------------------------------------------------
(* The controls' buttons: what becomes of the answers *)

\* The answer does not come, and what was asked for stays done.
LEMMA PhaseIsKept ==
  ASSUME CalmMail(mail), NEW y, CalmMail(y), mail' = mail \o y,
         NEW x, NEW o, InPhase(x, o), \A e \in ToSet(y) : ~Tells(e, x.token),
         (o # NoOp /\ o.step # "done") \/ (Fulfilled(x.kind) => Fulfilled(x.kind)'),
         x.kind = "record" /\ StopsComeFirst => StopsComeFirst'
  PROVE  InPhase(x, o)'
<1>1. \A e : e \in ToSet(mail') <=> e \in ToSet(mail) \/ e \in ToSet(y)
  BY MessagesJoined
<1>2. CASE Waits(x, o)
  <2>1. \A e \in ToSet(mail') : ~Tells(e, x.token)
    BY <1>1, <1>2 DEF Waits
  <2>2. o.step = "done" /\ o.result = "ok" => Fulfilled(x.kind)'
    BY <1>2 DEF Waits
  <2>3. Waits(x, o)'
    BY <1>2, <2>1, <2>2 DEF Waits, Tells
  <2> QED
    BY <2>3 DEF InPhase
<1>3. CASE IsAnswered(x, o)
  <2>1. o = NoOp /\ (Fulfilled(x.kind) => Fulfilled(x.kind)')
    BY <1>3 DEF IsAnswered
  <2>2. \A e \in ToSet(mail') : Tells(e, x.token) /\ e.result = "ok" => Fulfilled(x.kind)'
    BY <1>1, <1>3, <2>1 DEF IsAnswered
  <2>3. x.complete = TRUE \/ \E e \in ToSet(mail') : Tells(e, x.token)
    BY <1>1, <1>3 DEF IsAnswered
  <2>4. x.complete = TRUE => Fulfilled(x.kind)'
    BY <1>3, <2>1 DEF IsAnswered
  <2>5. IsAnswered(x, o)'
    BY <2>1, <2>2, <2>3, <2>4 DEF IsAnswered, Tells
  <2> QED
    BY <2>5 DEF InPhase
<1> QED
  BY <1>2, <1>3 DEF InPhase

\* The answer comes.
LEMMA PhaseIsAnswered ==
  ASSUME CalmMail(mail), NEW y, CalmMail(y), mail' = mail \o y,
         NEW x, NEW o, Waits(x, o), \E e \in ToSet(y) : Tells(e, x.token),
         \A e \in ToSet(y) : Tells(e, x.token) /\ e.result = "ok" => Fulfilled(x.kind)'
  PROVE  InPhase(x, NoOp)'
<1>1. \A e : e \in ToSet(mail') <=> e \in ToSet(mail) \/ e \in ToSet(y)
  BY MessagesJoined
<1>2. \A e \in ToSet(mail') : Tells(e, x.token) /\ e.result = "ok" => Fulfilled(x.kind)'
  BY <1>1 DEF Waits
<1>3. \E e \in ToSet(mail') : Tells(e, x.token)
  BY <1>1
<1>4. IsAnswered(x, NoOp)'
  BY <1>2, <1>3 DEF Waits, IsAnswered, Tells
<1> QED
  BY <1>4 DEF InPhase

\* Two and three events after each other.
LEMMA StampedOne ==
  ASSUME NEW e
  PROVE  /\ Stamped(<<e>>) = <<At(clock + 1, e)>> /\ Stamped(<<>>) = <<>>
         /\ \A v : Plain(e) => Guides(Stamped(<<e>>), v, After(v, e))
<1>1. PICK q, r : q = <<e>> /\ r = <<At(clock + 1, e)>>
  OBVIOUS
<1>2. Stamped(q) = r
  <2>1. DOMAIN q = {1} /\ q[1] = e /\ r = [i \in {1} |-> At(clock + i, q[i])]
    BY <1>1
  <2> QED
    BY <2>1 DEF Stamped
<1>3. Stamped(<<>>) = <<>>
  BY DEF Stamped
<1>4. ASSUME NEW v, Plain(e) PROVE Guides(Stamped(<<e>>), v, After(v, e))
  <2>1. Guides(<<At(clock + 1, e)>>, v, After(v, At(clock + 1, e)))
    BY GuideOne
  <2>2. After(v, At(clock + 1, e)) = After(v, e)
    BY <1>4 DEF Plain
  <2> QED
    BY <1>1, <1>2, <2>1, <2>2
<1> QED
  BY <1>1, <1>2, <1>3, <1>4

\* Events one after the other, each of which makes of what is seen what it makes without
\* a stamp.
LEMMA PlainGuide ==
  ASSUME NEW es, CalmMail(es), NEW views, \A i \in 1..Len(es) : Plain(es[i]),
         \A i \in 1..Len(es) : views[i] = After(views[i - 1], es[i])
  PROVE  Guides(Stamped(es), views[0], views[Len(es)])
<1>1. PICK n \in Nat : n = Len(es) /\ DOMAIN es = 1..n
  BY MessagesAre
<1>2. PICK q : q = [i \in 1..n |-> At(clock + i, es[i])]
  OBVIOUS
<1>3. Stamped(es) = q /\ Len(q) = n /\ \A i \in 1..n : q[i] = At(clock + i, es[i])
  BY <1>1, <1>2 DEF Stamped
<1>4. \A i \in 1..n : views[i] = After(views[i - 1], q[i])
  <2> SUFFICES ASSUME NEW i \in 1..n PROVE views[i] = After(views[i - 1], q[i])
    OBVIOUS
  <2>1. PICK e, v : e = es[i] /\ v = views[i - 1]
    OBVIOUS
  <2>2. Plain(e) /\ views[i] = After(v, e) /\ q[i] = At(clock + i, e)
    BY <1>1, <1>3, <2>1
  <2>3. After(v, At(clock + i, e)) = After(v, e)
    BY <2>2 DEF Plain
  <2> QED
    BY <2>1, <2>2, <2>3
<1> QED
  BY <1>1, <1>3, <1>4 DEF Guides
-----------------------------------------------------------------------------
\* What the session does with a command: its events tell what it is in then, a connection
\* is refused or begins another session, anything else that succeeds has come to what was
\* asked for or to its end, and nothing else changes.
Turns(kind, next, es, ok) ==
  LET w == View(next.link, next.paused, next.recording) IN
  /\ Guides(Stamped(es), Behind, w)
  /\ next.link = "disconnected" => next.paused = FALSE
  /\ kind = "connect" =>
       \/ next = peer /\ ok = FALSE
       \/ \E e \in ToSet(Stamped(es)) :
            e.type = "connection_state" /\ e.gen = peer.generation + 1
  /\ kind # "connect" =>
       /\ ok = TRUE => next.link = "disconnected" \/ ReachedIn(kind, w)
       /\ \/ next.link = "disconnected"
          \/ /\ next.link = peer.link
             /\ kind \notin {"pause", "resume"} => next.paused = peer.paused
             /\ kind \notin {"record", "stop"} => next.recording = peer.recording

LEMMA NothingTurns ==
  ASSUME PeerRests, NEW kind, NEW ok,
         IF kind = "connect" THEN ok = FALSE
         ELSE ok = TRUE => peer.link = "disconnected" \/ ReachedIn(kind, Behind)
  PROVE  Turns(kind, peer, <<>>, ok)
<1>1. Stamped(<<>>) = <<>>
  BY StampedOne
<1>2. Guides(Stamped(<<>>), Behind, Behind)
  BY <1>1, GuideNothing
<1> QED
  BY <1>2 DEF Turns, Behind, PeerRests

\* Two and three messages, each a sequence of its own.
LEMMA TwoAre ==
  ASSUME NEW S, NEW a \in Seq(S), NEW b \in Seq(S), Len(a) = 1, Len(b) = 1
  PROVE  /\ a \o b \in Seq(S) /\ Len(a \o b) = 2
         /\ (a \o b)[1] = a[1] /\ (a \o b)[2] = b[1]
  BY ConcatProperties

LEMMA ThreeAre ==
  ASSUME NEW S, NEW a \in Seq(S), NEW b \in Seq(S), NEW c \in Seq(S),
         Len(a) = 1, Len(b) = 1, Len(c) = 1
  PROVE  /\ Len((a \o b) \o c) = 3 /\ ((a \o b) \o c)[1] = a[1]
         /\ ((a \o b) \o c)[2] = b[1] /\ ((a \o b) \o c)[3] = c[1]
<1>1. PICK p : p = a \o b
  OBVIOUS
<1>2. p \in Seq(S) /\ Len(p) = 2 /\ p[1] = a[1] /\ p[2] = b[1]
  BY <1>1, TwoAre
<1>3. Len(p \o c) = 3 /\ (p \o c)[1] = p[1] /\ (p \o c)[2] = p[2] /\ (p \o c)[3] = c[1]
  BY <1>2, ConcatProperties
<1> QED
  BY <1>1, <1>2, <1>3

\* What a connection state is.
LinkIs(e, state, paused) ==
  e.type = "connection_state" /\ e.state = state /\ e.paused = paused

LEMMA LinkGuides ==
  ASSUME NEW e, NEW state, NEW paused, LinkIs(e, state, paused), NEW u
  PROVE  /\ state = "disconnected" => After(u, e) = View("disconnected", FALSE, "idle")
         /\ state # "disconnected" => After(u, e) = View(state, paused, u.recording)
<1>1. CASE state = "disconnected"
  BY <1>1 DEF LinkIs, After, Gone
<1>2. CASE state # "disconnected"
  <2>1. After(u, e) = View(e.state, e.paused, u.recording)
    BY <1>2 DEF LinkIs, After, Gone, Ends
  <2> QED
    BY <1>2, <2>1 DEF LinkIs
<1> QED
  BY <1>1, <1>2

LEMMA EndTurns ==
  ASSUME IsPeer(peer), NEW does \in Disconnected
  PROVE  Turns("disconnect", does.next, does.events, does.ok)
<1>1. PICK g, r : g = peer.generation /\ r = peer.recording
  OBVIOUS
<1>2. PICK p : p = (IF r = "idle" THEN <<>> ELSE <<RecordingEvent("idle")>>)
  OBVIOUS
<1>3. PICK x, y, z : /\ x = LinkEvent("disconnecting", g, FALSE)
                     /\ y = LinkEvent("disconnected", g, FALSE) /\ z = RecordingEvent("idle")
  OBVIOUS
<1>4. PICK d, e : d = <<x>> /\ e = <<y>>
  OBVIOUS
<1>5. PICK es : es = (d \o p) \o e
  OBVIOUS
<1>6. PICK next : next = [peer EXCEPT !.link = "disconnected", !.paused = FALSE,
                                      !.recording = "idle"]
  OBVIOUS
<1>7. Disconnected = Does(next, es, {TRUE})
  BY <1>1, <1>2, <1>3, <1>4, <1>5, <1>6, Zenon DEF Disconnected
<1>8. does.next = next /\ does.events = es /\ does.ok = TRUE
  BY <1>7 DEF Does
<1>9. next.link = "disconnected" /\ next.paused = FALSE /\ next.recording = "idle"
  BY <1>6 DEF IsPeer, PeerFields
<1>10. Plain(x) /\ Plain(y) /\ Plain(z)
  BY <1>3, EventsArePlain
<1>11. PICK v : v = View("disconnected", FALSE, "idle")
  OBVIOUS
<1>12. After(Behind, x) = View("disconnecting", FALSE, r) /\ \A u : After(u, y) = v
  <2>1. LinkIs(x, "disconnecting", FALSE) /\ LinkIs(y, "disconnected", FALSE)
    BY <1>3 DEF LinkEvent, LinkIs
  <2>2. \A u : After(u, y) = View("disconnected", FALSE, "idle")
    BY <2>1, LinkGuides
  <2>3. After(Behind, x) = View("disconnecting", FALSE, Behind.recording)
    BY <2>1, LinkGuides
  <2>4. Behind.recording = r
    BY <1>1, ViewIs DEF Behind
  <2> QED
    BY <1>11, <2>2, <2>3, <2>4
<1>13. CalmMail(es)
  <2>1. CalmMail(<<x>>) /\ CalmMail(<<y>>) /\ CalmMail(<<z>>) /\ CalmMail(<<>>)
    BY <1>3, CalmEvents, CalmOne, CalmNothing DEF Calm
  <2>2. p = <<>> \/ p = <<z>>
    BY <1>2, <1>3
  <2> QED
    BY <1>4, <1>5, <2>1, <2>2, CalmBoth
<1>14. Guides(Stamped(es), Behind, v)
  <2>1. CASE r = "idle"
    <3>1. Len(es) = 2 /\ es[1] = x /\ es[2] = y
      <4>1. p = <<>>
        BY <1>2, <2>1
      <4>2. d \in Seq({x}) /\ d \o <<>> = d
        BY <1>4, ConcatEmptySeq
      <4>3. es = d \o e
        BY <1>5, <4>1, <4>2, Zenon
      <4>4. PICK S : S = {x, y}
        OBVIOUS
      <4>5. d \in Seq(S) /\ Len(d) = 1 /\ d[1] = x /\ e \in Seq(S) /\ Len(e) = 1 /\ e[1] = y
        BY <1>4, <4>4
      <4> QED
        BY <4>3, <4>5, TwoAre
    <3>2. PICK views : views = [i \in 0..2 |-> IF i = 0 THEN Behind
                                 ELSE IF i = 1 THEN View("disconnecting", FALSE, r) ELSE v]
      OBVIOUS
    <3>3. views[0] = Behind /\ views[1] = View("disconnecting", FALSE, r) /\ views[2] = v
      BY <3>2
    <3>4. views[1] = After(views[0], x) /\ views[2] = After(views[1], y)
      BY <1>12, <3>3
    <3>5. \A i \in 1..Len(es) : (i = 1 /\ i - 1 = 0) \/ (i = 2 /\ i - 1 = 1)
      BY <3>1
    <3>6. /\ \A i \in 1..Len(es) : Plain(es[i])
          /\ \A i \in 1..Len(es) : views[i] = After(views[i - 1], es[i])
      <4>1. ASSUME NEW i \in 1..Len(es) PROVE Plain(es[i]) /\ views[i] = After(views[i - 1], es[i])
        <5>1. CASE i = 1
          <6>1. i - 1 = 0
            BY <5>1
          <6> QED
            BY <1>10, <3>1, <3>4, <5>1, <6>1, Zenon
        <5>2. CASE i = 2
          <6>1. i - 1 = 1
            BY <5>2
          <6> QED
            BY <1>10, <3>1, <3>4, <5>2, <6>1, Zenon
        <5> QED
          BY <3>5, <5>1, <5>2
      <4> QED
        BY <4>1
    <3>7. Guides(Stamped(es), views[0], views[Len(es)])
      BY <1>13, <3>6, PlainGuide
    <3> QED
      BY <3>1, <3>3, <3>7
  <2>2. CASE r # "idle"
    <3>1. Len(es) = 3 /\ es[1] = x /\ es[2] = z /\ es[3] = y
      <4>1. p = <<z>>
        BY <1>2, <1>3, <2>2
      <4>2. PICK S : S = {x, y, z}
        OBVIOUS
      <4>3. /\ d \in Seq(S) /\ Len(d) = 1 /\ d[1] = x
            /\ e \in Seq(S) /\ Len(e) = 1 /\ e[1] = y
            /\ p \in Seq(S) /\ Len(p) = 1 /\ p[1] = z
        BY <1>4, <4>1, <4>2
      <4> QED
        BY <1>5, <4>3, ThreeAre
    <3>2. PICK w : w = View("disconnecting", FALSE, r)
      OBVIOUS
    <3>3. PICK views : views = [i \in 0..3 |-> IF i = 0 THEN Behind ELSE IF i = 1 THEN w
                                 ELSE IF i = 2 THEN After(w, z) ELSE v]
      OBVIOUS
    <3>4. views[0] = Behind /\ views[1] = w /\ views[2] = After(w, z) /\ views[3] = v
      BY <3>3
    <3>5. /\ views[1] = After(views[0], x) /\ views[2] = After(views[1], z)
          /\ views[3] = After(views[2], y)
      BY <1>12, <3>2, <3>4
    <3>6. \A i \in 1..Len(es) : \/ i = 1 /\ i - 1 = 0
                                \/ i = 2 /\ i - 1 = 1
                                \/ i = 3 /\ i - 1 = 2
      BY <3>1
    <3>7. /\ \A i \in 1..Len(es) : Plain(es[i])
          /\ \A i \in 1..Len(es) : views[i] = After(views[i - 1], es[i])
      <4>1. ASSUME NEW i \in 1..Len(es) PROVE Plain(es[i]) /\ views[i] = After(views[i - 1], es[i])
        <5>1. CASE i = 1 /\ i - 1 = 0
          BY <1>10, <3>1, <3>5, <5>1, Zenon
        <5>2. CASE i = 2 /\ i - 1 = 1
          BY <1>10, <3>1, <3>5, <5>2, Zenon
        <5>3. CASE i = 3 /\ i - 1 = 2
          BY <1>10, <3>1, <3>5, <5>3, Zenon
        <5> QED
          BY <3>6, <5>1, <5>2, <5>3
      <4> QED
        BY <4>1
    <3>8. Guides(Stamped(es), views[0], views[Len(es)])
      BY <1>13, <3>7, PlainGuide
    <3> QED
      BY <3>1, <3>4, <3>8
  <2> QED
    BY <2>1, <2>2
<1>15. Turns("disconnect", next, es, TRUE)
  BY <1>9, <1>11, <1>14 DEF Turns
<1> QED
  BY <1>8, <1>15

LEMMA PauseTurns ==
  ASSUME IsPeer(peer), peer.link = "streaming", NEW kind \in {"pause", "resume"},
         NEW flag, flag = (kind = "pause"), NEW does \in Paused(flag)
  PROVE  Turns(kind, does.next, does.events, does.ok)
<1>1. PICK g, r : g = peer.generation /\ r = peer.recording
  OBVIOUS
<1>2. PICK e, next : /\ e = LinkEvent("streaming", g, flag)
                     /\ next = [peer EXCEPT !.paused = flag]
  OBVIOUS
<1>3. Paused(flag) = Does(next, <<e>>, BOOLEAN)
  BY <1>1, <1>2, Zenon DEF Paused
<1>4. does.next = next /\ does.events = <<e>>
  BY <1>3 DEF Does
<1>5. next.link = "streaming" /\ next.paused = flag /\ next.recording = r
  BY <1>1, <1>2 DEF IsPeer, PeerFields
<1>6. PICK w : w = View("streaming", flag, r)
  OBVIOUS
<1>7. Guides(Stamped(<<e>>), Behind, w)
  <2>1. Plain(e) /\ After(Behind, e) = w
    BY <1>1, <1>2, <1>6, EventsArePlain, EventsGuide DEF Behind
  <2> QED
    BY <2>1, StampedOne
<1>8. w.paused = flag
  BY <1>6, ViewIs
<1>9. ReachedIn(kind, w)
  BY <1>8 DEF ReachedIn
<1>10. Turns(kind, next, <<e>>, does.ok)
  BY <1>1, <1>5, <1>6, <1>7, <1>9 DEF Turns
<1> QED
  BY <1>4, <1>10

LEMMA BeginningTurns ==
  ASSUME IsPeer(peer), PeerRests, peer.link = "disconnected", NEW does \in Connected
  PROVE  Turns("connect", does.next, does.events, does.ok)
<1>1. PICK g, r : g = peer.generation + 1 /\ r = peer.recording
  OBVIOUS
<1>2. PICK begun : begun = [peer EXCEPT !.link = "connecting", !.generation = g]
  OBVIOUS
<1>3. PICK failed : failed = [begun EXCEPT !.link = "error"]
  OBVIOUS
<1>4. PICK c, x : c = LinkEvent("connecting", g, FALSE) /\ x = LinkEvent("error", g, FALSE)
  OBVIOUS
<1>5. PICK q, p : q = <<c>> /\ p = <<c, x>>
  OBVIOUS
<1>6. Connected = Does(begun, q, {TRUE}) \union Does(failed, p, {FALSE})
  BY <1>1, <1>2, <1>3, <1>4, <1>5, Zenon DEF Connected
<1>7. /\ begun.link = "connecting" /\ begun.paused = peer.paused /\ begun.recording = r
      /\ failed.link = "error" /\ failed.paused = peer.paused /\ failed.recording = r
  BY <1>1, <1>2, <1>3 DEF IsPeer, PeerFields
<1>8. peer.paused = FALSE
  BY DEF PeerRests
<1>9. Plain(c) /\ Plain(x)
  BY <1>4, EventsArePlain
<1>10. PICK v, w : v = View("connecting", FALSE, r) /\ w = View("error", FALSE, r)
  OBVIOUS
<1>11. After(Behind, c) = v /\ After(v, x) = w
  <2>1. LinkIs(c, "connecting", FALSE) /\ LinkIs(x, "error", FALSE)
    BY <1>4 DEF LinkEvent, LinkIs
  <2>2. After(Behind, c) = View("connecting", FALSE, Behind.recording)
    BY <2>1, LinkGuides
  <2>4. After(v, x) = View("error", FALSE, v.recording)
    BY <2>1, LinkGuides
  <2>3. Behind.recording = r /\ v.recording = r
    <3>1. PICK f : f = FALSE
      OBVIOUS
    <3>2. v = View("connecting", f, r)
      BY <1>10, <3>1
    <3> QED
      BY <1>1, <3>2, ViewIs DEF Behind
  <2> QED
    BY <1>10, <2>2, <2>3, <2>4
<1>12. CalmMail(q) /\ CalmMail(p)
  <2>1. /\ "type" \in DOMAIN c /\ c.type \in CalmTypes
        /\ "type" \in DOMAIN x /\ x.type \in CalmTypes
    BY <1>4, CalmEvents DEF Calm
  <2>2. CalmMail(q)
    BY <1>5, <2>1, CalmOne
  <2>3. PICK S : S = {c, x}
    OBVIOUS
  <2>4. p \in Seq(S) /\ \A e \in S : "type" \in DOMAIN e /\ e.type \in CalmTypes
    BY <1>5, <2>1, <2>3
  <2>5. CalmMail(p)
    BY <2>4 DEF CalmMail
  <2> QED
    BY <2>2, <2>5
<1>13. Guides(Stamped(q), Behind, v)
  BY <1>5, <1>9, <1>11, StampedOne
<1>14. Guides(Stamped(p), Behind, w)
  <2>1. Len(p) = 2 /\ p[1] = c /\ p[2] = x
    BY <1>5
  <2>2. PICK views : views = [i \in 0..2 |-> IF i = 0 THEN Behind ELSE IF i = 1 THEN v ELSE w]
    OBVIOUS
  <2>3. views[0] = Behind /\ views[1] = v /\ views[2] = w
    BY <2>2
  <2>4. \A i \in 1..Len(p) : (i = 1 /\ i - 1 = 0) \/ (i = 2 /\ i - 1 = 1)
    BY <2>1
  <2>5. /\ \A i \in 1..Len(p) : Plain(p[i])
        /\ \A i \in 1..Len(p) : views[i] = After(views[i - 1], p[i])
    BY <1>9, <1>11, <2>1, <2>3, <2>4, Zenon
  <2>6. Guides(Stamped(p), views[0], views[Len(p)])
    BY <1>12, <2>5, PlainGuide
  <2> QED
    BY <2>1, <2>3, <2>6
<1>15. ASSUME NEW es, DOMAIN es = 1..Len(es), Len(es) \in Nat \ {0}, es[1] = c
       PROVE  \E e \in ToSet(Stamped(es)) : e.type = "connection_state" /\ e.gen = g
  <2>1. PICK y : y = Stamped(es)
    OBVIOUS
  <2>2. 1 \in DOMAIN y /\ y[1] = At(clock + 1, c)
    BY <1>15, <2>1 DEF Stamped
  <2>3. y[1] \in ToSet(y)
    BY <2>2 DEF ToSet
  <2>4. y[1].type = "connection_state" /\ y[1].gen = g
    <3>1. /\ DOMAIN c = {"type", "state", "gen", "paused", "error", "cuts"}
          /\ c.type = "connection_state" /\ c.gen = g
      BY <1>4 DEF LinkEvent
    <3> QED
      BY <2>2, <3>1 DEF At
  <2> QED
    BY <2>1, <2>3, <2>4
<1>16. /\ \E e \in ToSet(Stamped(q)) : e.type = "connection_state" /\ e.gen = g
       /\ \E e \in ToSet(Stamped(p)) : e.type = "connection_state" /\ e.gen = g
  <2>1. DOMAIN q = 1..1 /\ Len(q) = 1 /\ q[1] = c /\ DOMAIN p = 1..2 /\ Len(p) = 2 /\ p[1] = c
    BY <1>5
  <2> QED
    BY <1>15, <2>1
<1>17. Turns("connect", begun, q, TRUE) /\ Turns("connect", failed, p, FALSE)
  BY <1>1, <1>7, <1>8, <1>10, <1>13, <1>14, <1>16 DEF Turns
<1>18. \/ does.next = begun /\ does.events = q /\ does.ok = TRUE
       \/ does.next = failed /\ does.events = p /\ does.ok = FALSE
  BY <1>6 DEF Does
<1> QED
  BY <1>17, <1>18

LEMMA RecordingTurns ==
  ASSUME IsPeer(peer), PeerRests, NEW kind \in {"record", "stop"}, NEW state,
         IF kind = "record" THEN state = "recording" /\ peer.link = "streaming"
         ELSE state = "idle",
         NEW next, next = [peer EXCEPT !.recording = state], NEW ok
  PROVE  Turns(kind, next, <<RecordingEvent(state)>>, ok)
<1>1. PICK e : e = RecordingEvent(state)
  OBVIOUS
<1>2. next.link = peer.link /\ next.paused = peer.paused /\ next.recording = state
  BY DEF IsPeer, PeerFields
<1>3. PICK w : w = View(peer.link, peer.paused, state)
  OBVIOUS
<1>4. Guides(Stamped(<<e>>), Behind, w)
  <2>1. peer.link = "streaming" \/ state \in Idle
    BY DEF Idle
  <2>2. Plain(e) /\ After(Behind, e) = w
    BY <1>1, <1>3, <2>1, EventsArePlain, EventsGuide DEF Behind
  <2> QED
    BY <2>2, StampedOne
<1>5. w.recording = state
  BY <1>3, ViewIs
<1>6. ReachedIn(kind, w)
  BY <1>5 DEF ReachedIn, Idle
<1>7. Turns(kind, next, <<e>>, ok)
  BY <1>2, <1>3, <1>4, <1>6 DEF Turns, PeerRests
<1> QED
  BY <1>1, <1>7

LEMMA AnswersAre ==
  ASSUME IsPeer(peer), PeerRests, NEW kind \in Kinds, NEW does \in Answers(kind)
  PROVE  Turns(kind, does.next, does.events, does.ok)
<1>1. ASSUME NEW results, does \in Does(peer, <<>>, results),
             IF kind = "connect" THEN FALSE = does.ok
             ELSE does.ok = TRUE => peer.link = "disconnected" \/ ReachedIn(kind, Behind)
      PROVE  Turns(kind, does.next, does.events, does.ok)
  <2>1. does.next = peer /\ does.events = <<>>
    BY <1>1 DEF Does
  <2> QED
    BY <1>1, <2>1, NothingTurns
<1>2. CASE kind = "connect"
  <2>1. CASE peer.link = "disconnected"
    <3>1. does \in Connected
      BY <1>2, <2>1 DEF Answers
    <3> QED
      BY <1>2, <2>1, <3>1, BeginningTurns
  <2>2. CASE peer.link # "disconnected"
    <3>1. does \in Does(peer, <<>>, {FALSE})
      BY <1>2, <2>2, Zenon DEF Answers
    <3>2. does.ok = FALSE
      BY <3>1 DEF Does
    <3> QED
      BY <1>1, <1>2, <3>1, <3>2
  <2> QED
    BY <2>1, <2>2
<1>3. CASE kind = "disconnect"
  <2>1. CASE peer.link = "disconnected"
    <3>1. does \in Does(peer, <<>>, {TRUE})
      BY <1>3, <2>1 DEF Answers
    <3> QED
      BY <1>1, <1>3, <2>1, <3>1
  <2>2. CASE peer.link # "disconnected"
    <3>1. does \in Disconnected
      BY <1>3, <2>2 DEF Answers
    <3> QED
      BY <1>3, <3>1, EndTurns
  <2> QED
    BY <2>1, <2>2
<1>4. CASE kind \in {"pause", "resume"}
  <2>1. PICK none, same, other :
          /\ none = Does(peer, <<>>, {FALSE}) /\ same = Does(peer, <<>>, {TRUE})
          /\ other = Paused(kind = "pause")
    OBVIOUS
  <2>2. Answers(kind) = IF peer.link # "streaming" THEN none
                        ELSE IF peer.paused = (kind = "pause") THEN same ELSE other
    BY <1>4, <2>1 DEF Answers
  <2>3. CASE does \in none
    <3>1. does.ok = FALSE
      BY <2>1, <2>3 DEF Does
    <3> QED
      BY <1>1, <1>4, <2>1, <2>3, <3>1
  <2>4. CASE does \in same /\ peer.paused = (kind = "pause")
    <3>1. ReachedIn(kind, Behind)
      <4>1. Behind.paused = (kind = "pause")
        BY <2>4, ViewIs DEF Behind
      <4> QED
        BY <1>4, <4>1 DEF ReachedIn
    <3> QED
      BY <1>1, <1>4, <2>1, <2>4, <3>1
  <2>5. CASE does \in other /\ peer.link = "streaming"
    BY <1>4, <2>1, <2>5, PauseTurns
  <2> QED
    BY <2>2, <2>3, <2>4, <2>5
<1>5. CASE kind = "bias"
  <2>1. \E results : does \in Does(peer, <<>>, results)
    BY <1>5 DEF Answers
  <2>2. ReachedIn(kind, Behind)
    BY <1>5 DEF ReachedIn
  <2> QED
    BY <1>1, <1>5, <2>1, <2>2
<1>6. CASE kind = "record"
  <2>1. PICK next : next = [peer EXCEPT !.recording = "recording"]
    OBVIOUS
  <2>2. PICK none, one : /\ none = Does(peer, <<>>, {FALSE})
                         /\ one = Does(next, <<RecordingEvent("recording")>>, {TRUE})
    OBVIOUS
  <2>3. Answers(kind) = IF peer.link = "streaming" /\ ~peer.paused /\ peer.recording = "idle"
                        THEN none \union one ELSE none
    BY <1>6, <2>1, <2>2 DEF Answers
  <2>4. CASE does \in none
    <3>1. does.ok = FALSE
      BY <2>2, <2>4 DEF Does
    <3> QED
      BY <1>1, <1>6, <2>2, <2>4, <3>1
  <2>5. CASE does \in one /\ peer.link = "streaming"
    <3>1. does.next = next /\ does.events = <<RecordingEvent("recording")>>
      BY <2>2, <2>5 DEF Does
    <3> QED
      BY <1>6, <2>1, <2>5, <3>1, RecordingTurns
  <2> QED
    BY <2>3, <2>4, <2>5
<1>7. CASE kind = "stop"
  <2>1. PICK next : next = [peer EXCEPT !.recording = "idle"]
    OBVIOUS
  <2>2. PICK none, one : /\ none = Does(peer, <<>>, {FALSE})
                         /\ one = Does(next, <<RecordingEvent("idle")>>, BOOLEAN)
    OBVIOUS
  <2>3. Answers(kind) = IF peer.recording = "idle" THEN none ELSE one
    BY <1>7, <2>1, <2>2 DEF Answers
  <2>4. CASE does \in none
    <3>1. does.ok = FALSE
      BY <2>2, <2>4 DEF Does
    <3> QED
      BY <1>1, <1>7, <2>2, <2>4, <3>1
  <2>5. CASE does \in one
    <3>1. does.next = next /\ does.events = <<RecordingEvent("idle")>>
      BY <2>2, <2>5 DEF Does
    <3> QED
      BY <1>7, <2>1, <3>1, RecordingTurns
  <2> QED
    BY <2>3, <2>4, <2>5
<1> QED
  BY <1>2, <1>3, <1>4, <1>5, <1>6, <1>7 DEF Kinds
-----------------------------------------------------------------------------
(* The controls' buttons: the steps of the main process *)

\* What a command keeps its place by when another channel moves.
Undisturbed(x) ==
  /\ \/ ops[Channel(x.kind)] # NoOp /\ ops[Channel(x.kind)].step # "done"
     \/ Fulfilled(x.kind) => Fulfilled(x.kind)'
  /\ x.kind = "record" /\ StopsComeFirst => StopsComeFirst'

\* One channel moves.
LEMMA ChannelMoves ==
  ASSUME ControlsInvariant, ButtonsAreRight,
         UNCHANGED <<app, shown, due, effected, pending, calls>>,
         NEW y, CalmMail(y), mail' = mail \o y, NEW a \in Channels, ops[a] # NoOp,
         \A d \in Channels \ {a} : ops'[d] = ops[d],
         ops'[a] # NoOp => ops'[a].callers = ops[a].callers /\ ops'[a].kind = ops[a].kind,
         \A e \in ToSet(y) : e.type = "reply" => e.channel = a /\ e.callers = ops[a].callers,
         Guides(y, Behind, Behind'), PeerRests',
         \A c \in DOMAIN pending :
           /\ Awaited(pending[c]) /\ IsOwed(pending[c])
           /\ \A e \in ToSet(y) : Stays(e, pending[c].scope)
           => IF Channel(pending[c].kind) = a
              THEN Waits(pending[c], ops[a]) => InPhase(pending[c], ops[a])'
              ELSE Undisturbed(pending[c])
  PROVE  ButtonsAreRight'
<1>1. Continues(y)
  <2>1. \A d \in Channels : ops'[d] # NoOp =>
          ops[d] # NoOp /\ ops'[d].callers = ops[d].callers /\ ops'[d].kind = ops[d].kind
    OBVIOUS
  <2> QED
    BY <2>1 DEF Continues
<1>2. ASSUME NEW c \in DOMAIN pending, Awaited(pending[c]), IsOwed(pending[c]),
             \A e \in ToSet(y) : Stays(e, pending[c].scope)
      PROVE  InPhase(pending[c], ops[Channel(pending[c].kind)])'
  <2>1. PICK x, b : x = pending[c] /\ b = Channel(x.kind)
    OBVIOUS
  <2>2. /\ x.kind \in Kinds /\ b \in Channels /\ Apart(x.token, b)
        /\ InPhase(x, ops[b])
    BY <1>2, <2>1, ChannelsAre DEF Awaited
  <2>3. CASE b = a
    <3>1. Waits(x, ops[a])
      BY <2>2, <2>3 DEF InPhase, IsAnswered
    <3>2. InPhase(x, ops[a])'
      BY <1>2, <2>1, <2>3, <3>1
    <3> QED
      BY <2>1, <2>3, <3>2
  <2>4. CASE b # a
    <3>1. Undisturbed(x)
      BY <1>2, <2>1, <2>4
    <3>2. x.token \notin ops[a].callers
      BY <2>2, <2>4 DEF Apart
    <3>3. \A e \in ToSet(y) : ~Tells(e, x.token)
      BY <3>2 DEF Tells
    <3>4. CalmMail(mail)
      BY DEF ControlsInvariant, CalmInvariant
    <3>5. PICK o : o = ops[b] /\ o = ops'[b]
      BY <2>2, <2>4
    <3>6. InPhase(x, o)'
      BY <2>1, <2>2, <3>1, <3>3, <3>4, <3>5, PhaseIsKept DEF Undisturbed
    <3> QED
      BY <2>1, <3>5, <3>6
  <2> QED
    BY <2>3, <2>4
<1> QED
  BY <1>1, <1>2, MovesStand

\* Those who wait for a request are told how it ended.
LEMMA RequestEnds ==
  ASSUME ControlsInvariant, ButtonsAreRight,
         UNCHANGED <<app, shown, due, effected, pending, calls, peer, inbox>>,
         NEW a \in Channels, ops[a] # NoOp, ops'[a] = NoOp,
         \A d \in Channels \ {a} : ops'[d] = ops[d],
         NEW e, e.type = "reply", e.channel = a, e.callers = ops[a].callers,
         CalmMail(<<e>>), mail' = mail \o <<e>>,
         e.result = "ok" => \A x : Waits(x, ops[a]) => Fulfilled(x.kind)
  PROVE  ButtonsAreRight'
<1>1. PICK y : y = <<e>>
  OBVIOUS
<1>2. ToSet(y) = {e} /\ CalmMail(y) /\ mail' = mail \o y
  BY <1>1, OneMessageIs
<1>3. Behind' = Behind /\ PeerRests'
  BY DEF Behind, ButtonsAreRight, PeerRests
<1>4. Guides(y, Behind, Behind')
  <2>1. Len(y) = 1 /\ y[1] = e
    BY <1>1
  <2>2. \A i \in 1..Len(y) : y[i].type = "reply"
    BY <2>1
  <2>3. PICK w : w = Behind
    OBVIOUS
  <2>4. Guides(y, w, w)
    BY <1>2, <2>2, RepliesGuideNowhere
  <2> QED
    BY <1>3, <2>3, <2>4
<1>5. CalmMail(mail)
  BY DEF ControlsInvariant, CalmInvariant
<1>6. \A kind : Fulfilled(kind) => Fulfilled(kind)'
  BY DEF Fulfilled, Behind, ReachedIn
<1>7. ASSUME NEW x, Waits(x, ops[a]) PROVE InPhase(x, NoOp)'
  <2>1. \E f \in ToSet(y) : Tells(f, x.token)
    BY <1>2, <1>7 DEF Waits, Tells
  <2>2. \A f \in ToSet(y) : Tells(f, x.token) /\ f.result = "ok" => Fulfilled(x.kind)'
    BY <1>2, <1>6, <1>7
  <2> QED
    BY <1>2, <1>5, <1>7, <2>1, <2>2, PhaseIsAnswered
<1>8. \A x : Undisturbed(x)
  BY <1>6 DEF Undisturbed, StopsComeFirst
<1>9. \A x : Waits(x, ops[a]) => InPhase(x, ops[a])'
  BY <1>7
<1>10. \A f \in ToSet(y) : f.type = "reply" => f.channel = a /\ f.callers = ops[a].callers
  BY <1>2
<1> QED
  BY <1>2, <1>3, <1>4, <1>8, <1>9, <1>10, ChannelMoves

\* A command joins those the companion has.
LEMMA StopsStayFirst ==
  ASSUME inbox \in Seq(Channels), NEW a \in Channels, inbox' = Append(inbox, a), a # "stop"
  PROVE  /\ \A kind : Fulfilled(kind) /\ peer' = peer => Fulfilled(kind)'
         /\ StopsComeFirst \/ a = "record" => StopsComeFirst'
<1>1. PICK q, r : q = inbox /\ r = inbox'
  OBVIOUS
<1>2. PICK m \in Nat : /\ m = Len(q) /\ Len(r) = m + 1 /\ r[m + 1] = a
                       /\ \A i \in 1..m : r[i] = q[i]
  BY <1>1, InboxGrows
<1>3. \A d : d \in ToSet(r) <=> d = a \/ d \in ToSet(q)
  BY <1>1, InboxGrows
<1>4. \A kind : Fulfilled(kind) /\ peer' = peer => Fulfilled(kind)'
  BY <1>1, <1>3 DEF Fulfilled, Behind, ReachedIn
<1>5. ASSUME StopsComeFirst \/ a = "record" PROVE StopsComeFirst'
  <2>1. \A i \in 1..(m + 1) : i \in 1..m \/ i = m + 1
    OBVIOUS
  <2>2. ASSUME NEW i \in 1..(m + 1), r[i] = "stop"
        PROVE  \E j \in 1..(m + 1) : j > i /\ r[j] = "record"
    <3>1. i \in 1..m /\ q[i] = "stop"
      BY <1>2, <2>1, <2>2
    <3>2. CASE a = "record"
      <4>1. m + 1 \in 1..(m + 1) /\ m + 1 > i /\ r[m + 1] = "record"
        BY <1>2, <3>1, <3>2
      <4> QED
        BY <4>1
    <3>3. CASE StopsComeFirst
      <4>1. PICK j \in 1..m : j > i /\ q[j] = "record"
        BY <1>1, <1>2, <3>1, <3>3 DEF StopsComeFirst
      <4>2. j \in 1..(m + 1) /\ r[j] = "record"
        BY <1>2, <4>1
      <4> QED
        BY <4>1, <4>2
    <3> QED
      BY <1>5, <3>2, <3>3
  <2> QED
    BY <1>1, <1>2, <2>2 DEF StopsComeFirst
<1> QED
  BY <1>4, <1>5

LEMMA DialogEndsWell ==
  ASSUME ControlsInvariant, ButtonsAreRight, DialogAnswered
  PROVE  ButtonsAreRight'
<1>1. PICK a \in {"bias", "record"} :
        /\ ops[a].step = "asked"
        /\ \/ Commands(a, ops[a])
           \/ \E result \in {"cancelled", "thrown"} :
                /\ mail' = Append(mail, Reply(a, result))
                /\ ops' = [ops EXCEPT ![a] = NoOp] /\ inbox' = inbox
  BY DEF DialogAnswered
<1>2. UNCHANGED <<app, shown, due, effected, pending, calls, peer>>
  BY DEF DialogAnswered, world, renderer
<1>3. a \in Channels /\ a # "stop"
  BY DEF Channels, Channel, Kinds
<1>4. PICK o : o = ops[a]
  OBVIOUS
<1>5. o.step = "asked" /\ o # NoOp
  BY <1>1, <1>4 DEF NoOp
<1>6. CalmMail(mail) /\ ops = [c \in Channels |-> ops[c]] /\ inbox \in Seq(Channels)
  BY DEF ControlsInvariant, ControlsAreRight, CalmInvariant, RequestsAre, InboxIsRight
<1>7. DOMAIN o = {"step", "kind", "callers", "result"}
  BY <1>3, <1>4, <1>5 DEF ControlsInvariant, ControlsAreRight, RequestsAre, IsRequest
<1>8. ASSUME NEW result \in {"cancelled", "thrown"}, NEW e,
             e = [type |-> "reply", channel |-> a, at |-> 0, callers |-> o.callers,
                  result |-> result],
             mail' = Append(mail, e), ops' = [ops EXCEPT ![a] = NoOp], inbox' = inbox
      PROVE  ButtonsAreRight'
  <2>1. /\ e.type = "reply" /\ e.channel = a /\ e.callers = o.callers /\ e.result = result
        /\ "type" \in DOMAIN e
    BY <1>8
  <2>2. CalmMail(<<e>>)
    BY <2>1, CalmOne DEF CalmTypes
  <2>3. mail' = mail \o <<e>>
    BY <1>6, <1>8, AppendedIsJoined
  <2>4. ops'[a] = NoOp /\ \A d \in Channels \ {a} : ops'[d] = ops[d]
    BY <1>3, <1>6, <1>8
  <2>5. e.result # "ok"
    BY <2>1
  <2> QED
    BY <1>2, <1>3, <1>4, <1>5, <1>8, <2>1, <2>2, <2>3, <2>4, <2>5, RequestEnds
<1>9. CASE Commands(a, o) /\ peer.backend = "running"
  <2>1. /\ inbox' = Append(inbox, a) /\ mail' = mail
        /\ ops' = [ops EXCEPT ![a] = [o EXCEPT !.step = "sent"]]
    BY <1>9 DEF Commands
  <2>2. PICK r : r = [o EXCEPT !.step = "sent"]
    OBVIOUS
  <2>3. r.step = "sent" /\ r.kind = o.kind /\ r.callers = o.callers /\ r # NoOp
    <3>1. r.step = "sent" /\ r.kind = o.kind /\ r.callers = o.callers
      BY <1>7, <2>2
    <3> QED
      BY <3>1 DEF NoOp
  <2>4. ops'[a] = r /\ \A d \in Channels \ {a} : ops'[d] = ops[d]
    BY <1>3, <1>6, <2>1, <2>2
  <2>5. PICK y : y = <<>>
    OBVIOUS
  <2>6. CalmMail(y) /\ mail' = mail \o y /\ \A e \in ToSet(y) : FALSE
    <3>1. PICK S : mail \in Seq(S)
      BY <1>6 DEF CalmMail
    <3>2. mail \o <<>> = mail
      BY <3>1, ConcatEmptySeq
    <3> QED
      BY <2>1, <2>5, <3>2, CalmNothing DEF ToSet
  <2>7. Guides(y, Behind, Behind') /\ PeerRests'
    <3>1. Behind' = Behind /\ PeerRests'
      BY <1>2 DEF Behind, ButtonsAreRight, PeerRests
    <3> QED
      BY <2>5, <3>1, GuideNothing
  <2>8. \A kind : Fulfilled(kind) => Fulfilled(kind)'
    BY <1>2, <1>3, <1>6, <2>1, StopsStayFirst
  <2>9. StopsComeFirst \/ a = "record" => StopsComeFirst'
    BY <1>3, <1>6, <2>1, StopsStayFirst
  <2>10. \A x : Undisturbed(x)
    BY <2>8, <2>9 DEF Undisturbed
  <2>11. ASSUME NEW x, Waits(x, o), Channel(x.kind) = a, x.kind \in Kinds PROVE InPhase(x, r)'
    <3>1. x.kind = a
      BY <1>1, <2>11, ChannelsAre
    <3>2. x.kind = "record" => StopsComeFirst'
      BY <2>9, <3>1
    <3>3. Waits(x, r)'
      BY <2>1, <2>3, <2>11, <3>2 DEF Waits
    <3> QED
      BY <3>3 DEF InPhase
  <2>12. \A c \in DOMAIN pending : Awaited(pending[c]) =>
           IF Channel(pending[c].kind) = a
           THEN Waits(pending[c], ops[a]) => InPhase(pending[c], ops[a])'
           ELSE Undisturbed(pending[c])
    <3> SUFFICES ASSUME NEW c \in DOMAIN pending, Awaited(pending[c]),
                        Channel(pending[c].kind) = a, Waits(pending[c], ops[a])
                 PROVE  InPhase(pending[c], ops[a])'
      BY <2>10
    <3>1. PICK x : x = pending[c] /\ x = pending'[c]
      BY <1>2
    <3>2. x.kind \in Kinds
      BY <3>1 DEF Awaited
    <3>3. InPhase(x, r)'
      BY <1>4, <2>11, <3>1, <3>2
    <3> QED
      BY <2>4, <3>1, <3>3
  <2>13. ops'[a].callers = ops[a].callers /\ ops'[a].kind = ops[a].kind
    BY <1>4, <2>3, <2>4
  <2> QED
    BY <1>2, <1>3, <1>4, <1>5, <2>4, <2>6, <2>7, <2>12, <2>13, ChannelMoves
<1>10. CASE Commands(a, o) /\ peer.backend # "running"
  <2>1. PICK e : e = [type |-> "reply", channel |-> a, at |-> 0, callers |-> o.callers,
                      result |-> "thrown"]
    OBVIOUS
  <2>2. mail' = Append(mail, e) /\ ops' = [ops EXCEPT ![a] = NoOp] /\ inbox' = inbox
    BY <1>10, <2>1 DEF Commands
  <2> QED
    BY <1>8, <2>1, <2>2
<1>11. ASSUME NEW result \in {"cancelled", "thrown"}, mail' = Append(mail, Reply(a, result)),
              ops' = [ops EXCEPT ![a] = NoOp], inbox' = inbox
       PROVE  ButtonsAreRight'
  <2>1. PICK e : e = [type |-> "reply", channel |-> a, at |-> 0, callers |-> o.callers,
                      result |-> result]
    OBVIOUS
  <2>2. Reply(a, result) = e
    BY <1>4, <2>1 DEF Reply
  <2> QED
    BY <1>8, <1>11, <2>1, <2>2
<1> QED
  BY <1>1, <1>4, <1>9, <1>10, <1>11

LEMMA HostEndsWell ==
  ASSUME ControlsInvariant, ButtonsAreRight, HostStored
  PROVE  ButtonsAreRight'
<1>1. PICK a, o : a = "connect" /\ o = ops[a]
  OBVIOUS
<1>2. /\ o.step = "saving" /\ mail' = Append(mail, Reply(a, "ok"))
      /\ ops' = [ops EXCEPT ![a] = NoOp] /\ inbox' = inbox
  BY <1>1 DEF HostStored
<1>3. UNCHANGED <<app, shown, due, effected, pending, calls, peer>>
  BY DEF HostStored, world, renderer
<1>4. a \in Channels /\ o # NoOp
  BY <1>1, <1>2 DEF Channels, Channel, Kinds, NoOp
<1>5. CalmMail(mail) /\ ops = [c \in Channels |-> ops[c]]
  BY DEF ControlsInvariant, ControlsAreRight, CalmInvariant, RequestsAre
<1>6. PICK e : e = [type |-> "reply", channel |-> a, callers |-> o.callers,
                    result |-> "ok", at |-> 0]
  OBVIOUS
<1>7. /\ e.type = "reply" /\ e.channel = a /\ e.callers = o.callers /\ "type" \in DOMAIN e
  BY <1>6
<1>8. CalmMail(<<e>>)
  BY <1>7, CalmOne DEF CalmTypes
<1>9. mail' = mail \o <<e>>
  <2>1. Reply(a, "ok") = e
    BY <1>1, <1>6 DEF Reply
  <2> QED
    BY <1>2, <1>5, <2>1, AppendedIsJoined
<1>10. ops'[a] = NoOp /\ \A d \in Channels \ {a} : ops'[d] = ops[d]
  BY <1>2, <1>4, <1>5
<1>11. \A x : Waits(x, o) => FALSE
  BY <1>2 DEF Waits
<1> QED
  BY <1>1, <1>2, <1>3, <1>4, <1>7, <1>8, <1>9, <1>10, <1>11, RequestEnds

LEMMA AnswerEndsWell ==
  ASSUME ControlsInvariant, ButtonsAreRight, Answered
  PROVE  ButtonsAreRight'
<1>1. PICK a \in Channels :
        /\ ops[a].step = "done"
        /\ LET does == [ok |-> ops[a].result = "ok"]
           IN ops' = Over(a, does) /\ mail' = mail \o Told(a, does)
        /\ inbox' = inbox
  BY DEF Answered
<1>2. UNCHANGED <<app, shown, due, effected, pending, calls, peer>>
  BY DEF Answered, world, renderer
<1>3. PICK o : o = ops[a]
  OBVIOUS
<1>4. o.step = "done" /\ o # NoOp
  BY <1>1, <1>3 DEF NoOp
<1>5. PICK does : /\ does.ok = (o.result = "ok")
                  /\ ops' = Over(a, does) /\ mail' = mail \o Told(a, does)
  BY <1>1, <1>3
<1>6. CalmMail(mail) /\ ops = [c \in Channels |-> ops[c]]
  BY DEF ControlsInvariant, ControlsAreRight, CalmInvariant, RequestsAre
<1>7. /\ DOMAIN o = {"step", "kind", "callers", "result"}
  BY <1>3, <1>4 DEF ControlsInvariant, ControlsAreRight, RequestsAre, IsRequest
<1>8. CASE a = "connect" /\ o.result = "ok"
  <2>1. PICK r : r = [o EXCEPT !.step = "saving"]
    OBVIOUS
  <2>2. ops' = [ops EXCEPT ![a] = r] /\ mail' = mail \o <<>>
    BY <1>3, <1>5, <1>8, <2>1 DEF Over, Told
  <2>3. r.callers = o.callers /\ r.kind = o.kind
    BY <1>7, <2>1
  <2>4. ops'[a] = r /\ \A d \in Channels \ {a} : ops'[d] = ops[d]
    BY <1>6, <2>2
  <2>5. PICK y : y = <<>>
    OBVIOUS
  <2>6. CalmMail(y) /\ mail' = mail \o y /\ \A e \in ToSet(y) : FALSE
    BY <2>2, <2>5, CalmNothing DEF ToSet
  <2>7. Guides(y, Behind, Behind') /\ PeerRests'
    <3>1. Behind' = Behind /\ PeerRests'
      BY <1>2 DEF Behind, ButtonsAreRight, PeerRests
    <3> QED
      BY <2>5, <3>1, GuideNothing
  <2>8. \A x : Undisturbed(x)
    BY <1>1, <1>2 DEF Undisturbed, StopsComeFirst, Fulfilled, Behind, ReachedIn
  <2>9. ASSUME NEW x, Awaited(x), Channel(x.kind) = a, Waits(x, o) PROVE FALSE
    <3>1. Fulfilled(x.kind)
      BY <1>4, <1>8, <2>9 DEF Waits
    <3>2. x.kind = "connect"
      BY <1>8, <2>9, ChannelsAre DEF Awaited
    <3> QED
      BY <3>1, <3>2 DEF Fulfilled
  <2>10. \A c \in DOMAIN pending : Awaited(pending[c]) =>
           IF Channel(pending[c].kind) = a
           THEN Waits(pending[c], ops[a]) => InPhase(pending[c], ops[a])'
           ELSE Undisturbed(pending[c])
    BY <1>3, <2>8, <2>9
  <2>11. ops'[a].callers = ops[a].callers /\ ops'[a].kind = ops[a].kind
    BY <1>3, <2>3, <2>4
  <2> QED
    BY <1>1, <1>2, <1>3, <1>4, <2>4, <2>6, <2>7, <2>10, <2>11, ChannelMoves
<1>9. CASE ~(a = "connect" /\ o.result = "ok")
  <2>1. PICK result : result = Result(does)
    OBVIOUS
  <2>2. PICK e : e = [type |-> "reply", channel |-> a, callers |-> o.callers,
                      result |-> result, at |-> 0]
    OBVIOUS
  <2>3. ops' = [ops EXCEPT ![a] = NoOp] /\ mail' = mail \o <<e>>
    <3>1. Reply(a, Result(does)) = e
      BY <1>3, <2>1, <2>2 DEF Reply
    <3>2. ~(a = "connect" /\ does.ok)
      BY <1>5, <1>9
    <3> QED
      BY <1>5, <3>1, <3>2 DEF Over, Told
  <2>4. /\ e.type = "reply" /\ e.channel = a /\ e.callers = o.callers /\ e.result = result
        /\ "type" \in DOMAIN e
    BY <2>2
  <2>5. CalmMail(<<e>>)
    BY <2>4, CalmOne DEF CalmTypes
  <2>6. ops'[a] = NoOp /\ \A d \in Channels \ {a} : ops'[d] = ops[d]
    BY <1>6, <2>3
  <2>7. result = "ok" => o.result = "ok"
    BY <1>5, <2>1 DEF Result
  <2>8. e.result = "ok" => \A x : Waits(x, o) => Fulfilled(x.kind)
    BY <1>4, <2>4, <2>7 DEF Waits
  <2> QED
    BY <1>1, <1>2, <1>3, <1>4, <2>3, <2>4, <2>5, <2>6, <2>8, RequestEnds
<1> QED
  BY <1>8, <1>9
-----------------------------------------------------------------------------
(* The controls' buttons: the session answers a command *)

\* The first command of the companion's is taken.
LEMMA InboxTurns ==
  ASSUME InboxIsRight, inbox # <<>>, inbox' = Tail(inbox), NEW a, a = Head(inbox)
  PROVE  /\ a \in ToSet(inbox) /\ \A d : d \in ToSet(inbox') => d \in ToSet(inbox)
         /\ StopsComeFirst => StopsComeFirst'
         /\ StopsComeFirst /\ a = "record" => "stop" \notin ToSet(inbox')
<1>1. PICK q, r : q = inbox /\ r = inbox'
  OBVIOUS
<1>2. q \in Seq(Channels) /\ q # <<>> /\ r = Tail(q) /\ a = Head(q)
  BY <1>1 DEF InboxIsRight
<1>3. \A d : d \in ToSet(q) <=> d = a \/ d \in ToSet(r)
  BY <1>2, InboxShrinks
<1>4. PICK m \in Nat : m + 1 = Len(q) /\ Len(r) = m /\ a = q[1] /\ \A i \in 1..m : r[i] = q[i + 1]
  BY <1>2, InboxShrinks
<1>5. \A i, j \in 1..(m + 1) : q[i] = q[j] => i = j
  BY <1>1, <1>4 DEF InboxIsRight
<1>6. StopsComeFirst => \A i \in 1..(m + 1) : q[i] = "stop" =>
                          \E j \in 1..(m + 1) : j > i /\ q[j] = "record"
  BY <1>1, <1>4 DEF StopsComeFirst
<1>7. ASSUME StopsComeFirst PROVE StopsComeFirst'
  <2>1. ASSUME NEW i \in 1..m, r[i] = "stop"
        PROVE  \E j \in 1..m : j > i /\ r[j] = "record"
    <3>1. i + 1 \in 1..(m + 1) /\ q[i + 1] = "stop"
      BY <1>4, <2>1
    <3>2. PICK j \in 1..(m + 1) : j > i + 1 /\ q[j] = "record"
      BY <1>6, <1>7, <3>1
    <3>3. j - 1 \in 1..m /\ j - 1 > i /\ (j - 1) + 1 = j
      BY <3>2
    <3>4. r[j - 1] = "record"
      BY <1>4, <3>2, <3>3
    <3> QED
      BY <3>3, <3>4
  <2> QED
    BY <1>1, <1>4, <2>1 DEF StopsComeFirst
<1>8. ASSUME StopsComeFirst, a = "record", "stop" \in ToSet(r) PROVE FALSE
  <2>1. DOMAIN q = 1..(m + 1)
    BY <1>2, <1>4, LenProperties
  <2>2. "stop" \in ToSet(q)
    BY <1>3, <1>8
  <2>3. PICK i \in 1..(m + 1) : q[i] = "stop"
    BY <2>1, <2>2 DEF ToSet
  <2>4. PICK j \in 1..(m + 1) : j > i /\ q[j] = "record"
    BY <1>6, <1>8, <2>3
  <2>5. 1 \in 1..(m + 1)
    BY <1>4
  <2>6. j = 1
    BY <1>4, <1>5, <1>8, <2>4, <2>5
  <2> QED
    BY <2>4, <2>6
<1> QED
  BY <1>1, <1>3, <1>7, <1>8

\* No session begins with which one lasts.
LEMMA NoneBegins ==
  ASSUME ControlsInvariant, NEW s, Lasts(s), NEW next, NEW es, NEW ok,
         Turns("connect", next, es, ok), \A e \in ToSet(Stamped(es)) : Stays(e, s)
  PROVE  next = peer /\ ok = FALSE
<1>1. peer.generation = s.generation /\ peer.generation \in Nat
  <2>1. CalmMail(mail) /\ MailLeads /\ IsPeer(peer)
    BY DEF ControlsInvariant, ControlsAreRight, CalmInvariant, PeerIsKnown
  <2> QED
    BY <2>1, GenerationStays DEF IsPeer
<1>2. ASSUME NEW e \in ToSet(Stamped(es)), e.type = "connection_state",
             e.gen = peer.generation + 1
      PROVE  FALSE
  <2>1. e.gen = s.generation
    BY <1>2 DEF Stays
  <2> QED
    BY <1>1, <1>2, <2>1
<1> QED
  BY <1>2 DEF Turns

LEMMA NoneSucceeds ==
  ASSUME ControlsInvariant, NEW s, Lasts(s), NEW next, NEW es, NEW ok,
         Turns("connect", next, es, ok), \A e \in ToSet(Stamped(es)) : Stays(e, s)
  PROVE  ~ok
<1>1. peer.generation = s.generation /\ peer.generation \in Nat
  <2>1. CalmMail(mail) /\ MailLeads /\ IsPeer(peer)
    BY DEF ControlsInvariant, ControlsAreRight, CalmInvariant, PeerIsKnown
  <2> QED
    BY <2>1, GenerationStays DEF IsPeer
<1>2. ASSUME NEW e \in ToSet(Stamped(es)), e.type = "connection_state",
             e.gen = peer.generation + 1
      PROVE  FALSE
  <2>1. e.gen = s.generation
    BY <1>2 DEF Stays
  <2> QED
    BY <1>1, <1>2, <2>1
<1> QED
  BY <1>2 DEF Turns

\* A command that succeeds is fulfilled.
LEMMA TurnFulfils ==
  ASSUME ControlsInvariant, NEW s, Lasts(s), NEW kind, NEW es,
         Turns(kind, peer', es, TRUE), \A e \in ToSet(Stamped(es)) : Stays(e, s),
         kind = "record" => "stop" \notin ToSet(inbox')
  PROVE  Fulfilled(kind)'
<1>1. kind # "connect"
  <2>1. ASSUME kind = "connect" PROVE FALSE
    <3>1. Turns("connect", peer', es, TRUE)
      BY <2>1
    <3>2. TRUE = FALSE
      BY <3>1, NoneBegins
    <3> QED
      BY <3>2
  <2> QED
    BY <2>1
<1>2. peer'.link = "disconnected" \/ ReachedIn(kind, Behind)'
  <2>1. PICK w : w = View(peer'.link, peer'.paused, peer'.recording)
    OBVIOUS
  <2>2. peer'.link = "disconnected" \/ ReachedIn(kind, w)
    BY <1>1, <2>1 DEF Turns
  <2>3. Behind' = w
    BY <2>1 DEF Behind
  <2> QED
    BY <2>2, <2>3 DEF ReachedIn
<1> QED
  BY <1>1, <1>2 DEF Fulfilled

\* What was fulfilled stays so.
LEMMA TurnKeeps ==
  ASSUME ControlsInvariant, NEW s, Lasts(s), NEW kind \in Kinds, NEW es, NEW ok,
         Turns(kind, peer', es, ok), \A e \in ToSet(Stamped(es)) : Stays(e, s),
         NEW k \in Kinds, Channel(k) # Channel(kind), Fulfilled(k),
         k = "record" => kind # "stop", k = "stop" => kind # "record",
         \A d : d \in ToSet(inbox') => d \in ToSet(inbox)
  PROVE  Fulfilled(k)'
<1>1. k # "connect" /\ (k = "record" => "stop" \notin ToSet(inbox'))
  BY DEF Fulfilled
<1>2. peer'.link = "disconnected" \/ ReachedIn(k, Behind)'
  <2>1. CASE kind = "connect"
    <3>1. peer' = peer
      BY <2>1, NoneBegins
    <3> QED
      BY <3>1 DEF Fulfilled, Behind, ReachedIn
  <2>2. CASE kind # "connect" /\ peer'.link # "disconnected"
    <3>1. PICK v, w : v = Behind /\ w = Behind'
      OBVIOUS
    <3>2. /\ v.connection = peer.link /\ v.paused = peer.paused /\ v.recording = peer.recording
          /\ w.connection = peer'.link /\ w.paused = peer'.paused
          /\ w.recording = peer'.recording
      BY <3>1, ViewIs DEF Behind
    <3>3. /\ peer'.link = peer.link
          /\ kind \notin {"pause", "resume"} => peer'.paused = peer.paused
          /\ kind \notin {"record", "stop"} => peer'.recording = peer.recording
      BY <2>2 DEF Turns
    <3>4. ReachedIn(k, v)
      BY <2>2, <3>1, <3>3 DEF Fulfilled
    <3>5. /\ k \in {"pause", "resume"} => w.paused = v.paused
          /\ k \in {"record", "stop"} => w.recording = v.recording
          /\ w.connection = v.connection
      BY <3>2, <3>3 DEF Channel
    <3>6. ReachedIn(k, w)
      BY <3>4, <3>5 DEF ReachedIn, Kinds
    <3>7. ReachedIn(k, Behind)' = ReachedIn(k, w)
      BY <3>1 DEF ReachedIn
    <3> QED
      BY <3>6, <3>7
  <2> QED
    BY <2>1, <2>2
<1> QED
  BY <1>1, <1>2 DEF Fulfilled

\* The command that is answered, and the request it was.
LEMMA CommandIs ==
  ASSUME ControlsInvariant, ButtonsAreRight, inbox # <<>>, NEW a, a = Head(inbox)
  PROVE  /\ a \in Channels /\ ops[a].step = "sent" /\ ops[a] # NoOp
         /\ ops[a].kind \in Kinds /\ Channel(ops[a].kind) = a /\ peer.backend = "running"
         /\ DOMAIN ops[a] = {"step", "kind", "callers", "result"}
<1>1. inbox \in Seq(Channels) /\ peer.backend = "running"
  BY DEF ControlsInvariant, ControlsAreRight, InboxIsRight
<1>2. 1 \in 1..Len(inbox)
  <2>1. Len(inbox) \in Nat /\ Len(inbox) # 0
    BY <1>1, EmptySeq, LenProperties
  <2> QED
    BY <2>1
<1>3. a = inbox[1]
  BY <1>1, HeadTailProperties
<1>4. a \in Channels /\ ops[a].step = "sent"
  BY <1>1, <1>2, <1>3, ElementOfSeq DEF ControlsInvariant, ControlsAreRight, InboxIsRight
<1>5. ops[a] # NoOp
  BY <1>4 DEF NoOp
<1>6. DOMAIN ops[a] = {"step", "kind", "callers", "result"}
  BY <1>4, <1>5 DEF ControlsInvariant, ControlsAreRight, RequestsAre, IsRequest
<1> QED
  BY <1>1, <1>4, <1>5, <1>6 DEF ButtonsAreRight, KindsAreRight

\* The others keep their place.
LEMMA TurnDisturbsNone ==
  ASSUME ControlsInvariant, ButtonsAreRight, inbox # <<>>, inbox' = Tail(inbox),
         NEW a, a = Head(inbox), \A d \in Channels : ops[d].step # "done",
         NEW es, NEW ok, Turns(ops[a].kind, peer', es, ok),
         NEW c \in DOMAIN pending, Awaited(pending[c]), Channel(pending[c].kind) # a,
         \A e \in ToSet(Stamped(es)) : Stays(e, pending[c].scope)
  PROVE  Undisturbed(pending[c])
<1>1. PICK x, b, kind : x = pending[c] /\ b = Channel(x.kind) /\ kind = ops[a].kind
  OBVIOUS
<1>2. a \in Channels /\ ops[a] # NoOp /\ kind \in Kinds /\ Channel(kind) = a
  BY <1>1, CommandIs
<1>3. Kept(x) /\ x.kind \in Kinds /\ Lasts(x.scope) /\ b \in Channels
  BY <1>1, ChannelsAre DEF Awaited, Expected
<1>4. /\ a \in ToSet(inbox) /\ \A d : d \in ToSet(inbox') => d \in ToSet(inbox)
      /\ StopsComeFirst => StopsComeFirst'
  BY InboxTurns DEF ControlsInvariant, ControlsAreRight
<1>5. x.kind = "stop" => kind # "record"
  <2>1. ASSUME x.kind = "stop", kind = "record" PROVE FALSE
    <3>1. Slot(x.kind) = c
      BY <1>1, <1>3 DEF ButtonsAreRight, EntryStands, IsEntry, Kept
    <3>2. c = "stop"
      BY <2>1, <3>1 DEF Slot
    <3>3. ops["record"] = NoOp
      BY <1>1, <1>3, <3>2 DEF ButtonsAreRight
    <3>4. a = "record"
      BY <1>2, <2>1, ChannelsAre
    <3> QED
      BY <1>2, <3>3, <3>4
  <2> QED
    BY <2>1
<1>6. ASSUME Fulfilled(x.kind) PROVE Fulfilled(x.kind)'
  <2>1. x.kind = "record" => kind # "stop"
    <3>1. ASSUME x.kind = "record", kind = "stop" PROVE FALSE
      <4>1. a = "stop"
        BY <1>2, <3>1, ChannelsAre
      <4> QED
        BY <1>4, <1>6, <3>1, <4>1 DEF Fulfilled
    <3> QED
      BY <3>1
  <2>2. Turns(kind, peer', es, ok) /\ \A e \in ToSet(Stamped(es)) : Stays(e, x.scope)
    BY <1>1
  <2>3. Channel(x.kind) # Channel(kind)
    BY <1>1, <1>2
  <2> QED
    BY <1>2, <1>3, <1>4, <1>5, <1>6, <2>1, <2>2, <2>3, TurnKeeps
<1>7. Undisturbed(x)
  BY <1>4, <1>6 DEF Undisturbed
<1> QED
  BY <1>1, <1>7
-----------------------------------------------------------------------------
(* The controls' buttons: a command is executed *)

LEMMA RequestIsDone ==
  ASSUME ops = [d \in Channels |-> ops[d]], NEW a \in Channels, NEW o, o = ops[a],
         DOMAIN o = {"step", "kind", "callers", "result"}, o = [f \in DOMAIN o |-> o[f]],
         NEW result, ops' = [ops EXCEPT ![a].step = "done", ![a].result = result]
  PROVE  /\ ops'[a].step = "done" /\ ops'[a].result = result
         /\ ops'[a].kind = o.kind /\ ops'[a].callers = o.callers
         /\ \A d \in Channels \ {a} : ops'[d] = ops[d]
<1>1. PICK x : x = [ops EXCEPT ![a].step = "done"]
  OBVIOUS
<1>2. PICK y : y = [o EXCEPT !.step = "done"]
  OBVIOUS
<1>3. /\ DOMAIN y = {"step", "kind", "callers", "result"}
      /\ y.step = "done" /\ y.kind = o.kind /\ y.callers = o.callers
  BY <1>2
<1>4. x = [d \in Channels |-> x[d]] /\ x[a] = y /\ \A d \in Channels \ {a} : x[d] = ops[d]
  BY <1>1, <1>2
<1>5. ops' = [x EXCEPT ![a].result = result]
  BY <1>1, Zenon
<1>6. PICK z : z = [y EXCEPT !.result = result]
  OBVIOUS
<1>7. z.step = "done" /\ z.kind = o.kind /\ z.callers = o.callers /\ z.result = result
  BY <1>3, <1>6
<1>8. ops'[a] = z /\ \A d \in Channels \ {a} : ops'[d] = ops[d]
  BY <1>4, <1>5, <1>6
<1> QED
  BY <1>7, <1>8

\* What the session sends with an answer is no answer itself, and guides to what it is in.
LEMMA TurnIsSent ==
  ASSUME ControlsInvariant, ButtonsAreRight, inbox # <<>>, NEW a, a = Head(inbox),
         NEW does \in Answers(ops[a].kind), peer' = does.next, NEW q, q = Stamped(does.events)
  PROVE  /\ Turns(ops[a].kind, peer', does.events, does.ok)
         /\ CalmMail(q) /\ \A e \in ToSet(q) : e.type # "reply"
         /\ Guides(q, Behind, Behind') /\ PeerRests'
<1>1. ops[a].kind \in Kinds /\ peer.backend = "running" /\ IsPeer(peer)
  BY CommandIs DEF ControlsInvariant, ControlsAreRight, PeerIsKnown
<1>2. PICK kind, es, ok, next : /\ kind = ops[a].kind /\ es = does.events /\ ok = does.ok
                                /\ next = does.next
  OBVIOUS
<1>3. Turns(kind, next, es, ok)
  BY <1>1, <1>2, AnswersAre DEF ButtonsAreRight
<1>4. next.backend = "running" /\ CalmMail(es)
  BY <1>1, <1>2, AnswersLead, CalmAnswers
<1>5. Behind' = View(next.link, next.paused, next.recording)
  BY <1>2 DEF Behind
<1>6. Guides(q, Behind, Behind')
  BY <1>2, <1>3, <1>5 DEF Turns
<1>7. PeerRests'
  BY <1>2, <1>3, <1>4 DEF PeerRests, Turns
<1>8. CalmMail(q)
  BY <1>2, <1>4, CalmStamped
<1>9. \A e \in ToSet(q) : e.type # "reply"
  <2>1. PICK n \in Nat : n = Len(q)
    BY JoinedIs
  <2>2. \A i \in 1..n : q[i].type # "reply"
    <3>1. Sendable(es, peer.generation, does.next.generation) /\ peer.generation \in Nat
      BY <1>1, <1>2, AnswersLead DEF IsPeer
    <3>2. IsPeer(does.next) /\ clock \in Nat
      BY <1>1, AnswersLead DEF ControlsInvariant, ControlsAreRight, MailLeads
    <3>3. does.next.generation \in Nat
      BY <3>2 DEF IsPeer
    <3>4. Len(q) = Len(es) /\ \A i \in 1..Len(es) : q[i].type # "reply"
      BY <1>2, <1>4, <3>1, <3>2, <3>3, EventsLead
    <3> QED
      BY <2>1, <3>4
  <2>3. ASSUME NEW e \in ToSet(q) PROVE e.type # "reply"
    <3>1. PICK i \in 1..n : e = q[i]
      BY <1>8, <2>1, <2>3, MessagesAre
    <3> QED
      BY <2>2, <3>1
  <2> QED
    BY <2>3
<1> QED
  BY <1>2, <1>3, <1>6, <1>7, <1>8, <1>9

\* Whoever waits for the command that is answered: what is told of it is so.
LEMMA TurnIsTrue ==
  ASSUME ControlsInvariant, ButtonsAreRight, inbox # <<>>, inbox' = Tail(inbox),
         NEW a, a = Head(inbox), NEW es, NEW ok, Turns(ops[a].kind, peer', es, ok),
         NEW x, Waits(x, ops[a]), Lasts(x.scope), \A e \in ToSet(Stamped(es)) : Stays(e, x.scope)
  PROVE  ok = TRUE => Fulfilled(x.kind)'
<1> SUFFICES ASSUME ok = TRUE PROVE Fulfilled(x.kind)'
  OBVIOUS
<1>1. x.kind = ops[a].kind /\ ops[a].step = "sent" /\ a \in Channels /\ Channel(ops[a].kind) = a
      /\ ops[a].kind \in Kinds
  BY CommandIs DEF Waits
<1>2. Turns(x.kind, peer', es, TRUE)
  BY <1>1
<1>3. x.kind = "record" => "stop" \notin ToSet(inbox')
  <2>1. ASSUME x.kind = "record" PROVE "stop" \notin ToSet(inbox')
    <3>1. StopsComeFirst
      BY <1>1, <2>1 DEF Waits
    <3>2. a = "record"
      BY <1>1, <2>1, ChannelsAre
    <3> QED
      BY <3>1, <3>2, InboxTurns DEF ControlsInvariant, ControlsAreRight
  <2> QED
    BY <2>1
<1> QED
  BY <1>2, <1>3, TurnFulfils

LEMMA CommandEndsWell ==
  ASSUME ControlsInvariant, ButtonsAreRight, Executes
  PROVE  ButtonsAreRight'
<1>1. PICK a : a = Head(inbox)
  OBVIOUS
<1>2. /\ inbox # <<>> /\ inbox' = Tail(inbox) /\ \A d \in Channels : ops[d].step # "done"
      /\ UNCHANGED <<app, shown, due, effected, pending, calls>>
  BY DEF Executes, renderer
<1>3. PICK does \in Answers(ops[a].kind) :
        /\ peer' = does.next
        /\ \/ /\ ops' = Over(a, does)
              /\ mail' = mail \o Told(a, does) \o Stamped(does.events)
           \/ /\ ops' = [ops EXCEPT ![a].step = "done", ![a].result = Result(does)]
              /\ mail' = mail \o Stamped(does.events)
  BY <1>1 DEF Executes
<1>4. PICK o, es, q, ok, kind : /\ o = ops[a] /\ es = does.events /\ q = Stamped(es)
                                /\ ok = does.ok /\ kind = o.kind
  OBVIOUS
<1>5. /\ a \in Channels /\ o.step = "sent" /\ o # NoOp /\ kind \in Kinds /\ Channel(kind) = a
      /\ DOMAIN o = {"step", "kind", "callers", "result"} /\ ops[a] # NoOp
  BY <1>1, <1>2, <1>4, CommandIs
<1>6. /\ Turns(ops[a].kind, peer', es, ok) /\ CalmMail(q) /\ \A e \in ToSet(q) : e.type # "reply"
      /\ Guides(q, Behind, Behind') /\ PeerRests'
  BY <1>1, <1>2, <1>3, <1>4, TurnIsSent
<1>7. CalmMail(mail) /\ ops = [c \in Channels |-> ops[c]]
  BY DEF ControlsInvariant, ControlsAreRight, CalmInvariant, RequestsAre
<1>8. ASSUME NEW c \in DOMAIN pending, Awaited(pending[c]), Channel(pending[c].kind) # a,
             \A e \in ToSet(q) : Stays(e, pending[c].scope)
      PROVE  Undisturbed(pending[c])
  BY <1>1, <1>2, <1>4, <1>6, <1>8, TurnDisturbsNone
<1>9. ASSUME NEW x, Awaited(x), Waits(x, o), \A e \in ToSet(q) : Stays(e, x.scope)
      PROVE  /\ ok = TRUE => Fulfilled(x.kind)'
             /\ a = "connect" => ~ok
  <2>1. Lasts(x.scope)
    BY <1>9 DEF Awaited, Expected
  <2>2. ok = TRUE => Fulfilled(x.kind)'
    BY <1>1, <1>2, <1>4, <1>6, <1>9, <2>1, TurnIsTrue
  <2>3. ASSUME a = "connect" PROVE ~ok
    <3>1. kind = "connect"
      BY <1>5, <2>3, ChannelsAre
    <3>2. Turns("connect", peer', es, ok)
      BY <1>4, <1>6, <3>1
    <3>3. \A e \in ToSet(Stamped(es)) : Stays(e, x.scope)
      BY <1>4, <1>9
    <3>4. PICK next, s : next = peer' /\ s = x.scope
      OBVIOUS
    <3>5. /\ Lasts(s) /\ Turns("connect", next, es, ok)
          /\ \A e \in ToSet(Stamped(es)) : Stays(e, s)
      BY <2>1, <3>2, <3>3, <3>4
    <3> QED
      BY <3>5, NoneSucceeds
  <2> QED
    BY <2>2, <2>3
<1>10. CASE ops' = Over(a, does) /\ mail' = mail \o Told(a, does) \o Stamped(does.events)
  <2>1. PICK result : result = Result(does)
    OBVIOUS
  <2>2. PICK e : e = [type |-> "reply", channel |-> a, callers |-> o.callers,
                      result |-> result, at |-> 0]
    OBVIOUS
  <2>3. Reply(a, Result(does)) = e
    BY <1>4, <2>1, <2>2 DEF Reply
  <2>4. /\ e.type = "reply" /\ e.channel = a /\ e.callers = o.callers /\ e.result = result
        /\ "type" \in DOMAIN e
    BY <2>2
  <2>5. PICK told : told = Told(a, does)
    OBVIOUS
  <2>6. CalmMail(<<e>>) /\ CalmMail(<<>>)
    BY <2>4, CalmOne, CalmNothing DEF CalmTypes
  <2>7. told = IF a = "connect" /\ ok THEN <<>> ELSE <<e>>
    BY <1>4, <2>3, <2>5 DEF Told
  <2>8. CalmMail(told) /\ \A f \in ToSet(told) : f = e
    BY <2>6, <2>7, OneMessageIs
  <2>9. PICK y : y = told \o q
    OBVIOUS
  <2>10. CalmMail(y) /\ mail' = mail \o y
    <3>1. PICK m, p : m = mail /\ p = m \o told
      OBVIOUS
    <3>2. p \o q = m \o y
      BY <1>6, <1>7, <2>8, <2>9, <3>1, CalmIsAssociative
    <3>3. mail' = p \o q
      BY <1>4, <1>10, <2>5, <3>1
    <3> QED
      BY <1>6, <2>8, <2>9, <3>1, <3>2, <3>3, CalmBoth
  <2>11. \A f : f \in ToSet(y) <=> f \in ToSet(told) \/ f \in ToSet(q)
    BY <1>6, <2>8, <2>9, MessagesJoined
  <2>12. \A f \in ToSet(y) : f.type = "reply" => f = e
    BY <1>6, <2>8, <2>11
  <2>13. Guides(y, Behind, Behind')
    <3>1. PICK v, w : v = Behind /\ w = Behind'
      OBVIOUS
    <3>2. Guides(told, v, v)
      <4>1. \A i \in 1..Len(told) : told[i].type = "reply"
        <5>1. \A i \in 1..Len(told) : told[i] \in ToSet(told)
          BY <2>8, MessagesAre
        <5> QED
          BY <2>4, <2>8, <5>1
      <4> QED
        BY <2>8, <4>1, RepliesGuideNowhere
    <3>3. Guides(told \o q, v, w)
      BY <1>6, <2>8, <3>1, <3>2, GuidesAreJoined
    <3> QED
      BY <2>9, <3>1, <3>3
  <2>14. PICK r : r = IF a = "connect" /\ ok THEN [o EXCEPT !.step = "saving"] ELSE NoOp
    OBVIOUS
  <2>15. ops' = [ops EXCEPT ![a] = r]
    BY <1>4, <1>10, <2>14 DEF Over
  <2>16. ops'[a] = r /\ \A d \in Channels \ {a} : ops'[d] = ops[d]
    BY <1>5, <1>7, <2>15
  <2>17. r # NoOp => r.callers = o.callers /\ r.kind = o.kind
    BY <1>5, <2>14
  <2>18. ASSUME NEW x, Awaited(x), Waits(x, o), \A f \in ToSet(y) : Stays(f, x.scope)
         PROVE  InPhase(x, r)'
    <3>1. (ok = TRUE => Fulfilled(x.kind)') /\ (a = "connect" => ~ok)
      BY <1>9, <2>11, <2>18
    <3>2. r = NoOp /\ told = <<e>>
      BY <2>7, <2>14, <3>1
    <3>3. e \in ToSet(y) /\ Tells(e, x.token)
      BY <2>4, <2>11, <2>18, <3>2, OneMessageIs DEF Tells, Waits
    <3>4. ASSUME NEW f \in ToSet(y), Tells(f, x.token), f.result = "ok" PROVE Fulfilled(x.kind)'
      <4>1. f = e
        BY <2>12, <3>4 DEF Tells
      <4>2. ok = TRUE
        BY <1>4, <2>1, <2>4, <3>4, <4>1 DEF Result
      <4> QED
        BY <3>1, <4>2
    <3>5. InPhase(x, NoOp)'
      BY <1>7, <2>10, <2>18, <3>3, <3>4, PhaseIsAnswered
    <3> QED
      BY <3>2, <3>5
  <2>19. ASSUME NEW c \in DOMAIN pending, Awaited(pending[c]),
                \A f \in ToSet(y) : Stays(f, pending[c].scope)
         PROVE  IF Channel(pending[c].kind) = a
                THEN Waits(pending[c], ops[a]) => InPhase(pending[c], ops[a])'
                ELSE Undisturbed(pending[c])
    <3>1. PICK x : x = pending[c] /\ x = pending'[c]
      BY <1>2
    <3>2. Waits(x, o) => InPhase(x, r)'
      BY <2>18, <2>19, <3>1
    <3>3. Waits(pending[c], ops[a]) => InPhase(pending[c], ops[a])'
      BY <1>4, <2>16, <3>1, <3>2
    <3>4. Channel(pending[c].kind) # a => Undisturbed(pending[c])
      BY <1>8, <2>11, <2>19
    <3> QED
      BY <3>3, <3>4
  <2>20. \A f \in ToSet(y) : f.type = "reply" => f.channel = a /\ f.callers = ops[a].callers
    BY <1>4, <2>4, <2>12
  <2>21. ops'[a] # NoOp => ops'[a].callers = ops[a].callers /\ ops'[a].kind = ops[a].kind
    BY <1>4, <2>16, <2>17
  <2> QED
    BY <1>2, <1>5, <1>6, <2>10, <2>13, <2>16, <2>19, <2>20, <2>21, ChannelMoves
<1>11. CASE /\ ops' = [ops EXCEPT ![a].step = "done", ![a].result = Result(does)]
            /\ mail' = mail \o Stamped(does.events)
  <2>1. PICK result : result = Result(does)
    OBVIOUS
  <2>2. o = [f \in DOMAIN o |-> o[f]]
    BY <1>4, <1>5 DEF ControlsInvariant, ControlsAreRight, RequestsAre, IsRequest
  <2>3. ops' = [ops EXCEPT ![a].step = "done", ![a].result = result]
    BY <1>11, <2>1
  <2>4. /\ ops'[a].step = "done" /\ ops'[a].result = result
        /\ ops'[a].kind = o.kind /\ ops'[a].callers = o.callers
        /\ \A d \in Channels \ {a} : ops'[d] = ops[d]
    BY <1>4, <1>5, <1>7, <2>2, <2>3, RequestIsDone
  <2>5. PICK r : r = ops'[a]
    OBVIOUS
  <2>6. r.step = "done" /\ r.result = result /\ r.kind = o.kind /\ r.callers = o.callers /\ r # NoOp
    BY <2>4, <2>5 DEF NoOp
  <2>7. mail' = mail \o q
    BY <1>4, <1>11
  <2>8. ASSUME NEW x, Awaited(x), Waits(x, o), \A f \in ToSet(q) : Stays(f, x.scope)
        PROVE  InPhase(x, r)'
    <3>1. ok = TRUE => Fulfilled(x.kind)'
      BY <1>9, <2>8
    <3>2. r.result = "ok" => Fulfilled(x.kind)'
      BY <1>4, <2>1, <2>6, <3>1 DEF Result
    <3>3. \A f \in ToSet(mail') : ~Tells(f, x.token)
      <4>1. \A f : f \in ToSet(mail') <=> f \in ToSet(mail) \/ f \in ToSet(q)
        BY <1>6, <1>7, <2>7, MessagesJoined
      <4> QED
        BY <1>6, <2>8, <4>1 DEF Waits, Tells
    <3>4. Waits(x, r)'
      BY <2>6, <2>8, <3>2, <3>3 DEF Waits
    <3> QED
      BY <3>4 DEF InPhase
  <2>9. ASSUME NEW c \in DOMAIN pending, Awaited(pending[c]),
               \A f \in ToSet(q) : Stays(f, pending[c].scope)
        PROVE  IF Channel(pending[c].kind) = a
               THEN Waits(pending[c], ops[a]) => InPhase(pending[c], ops[a])'
               ELSE Undisturbed(pending[c])
    <3>1. PICK x : x = pending[c] /\ x = pending'[c]
      BY <1>2
    <3>2. Waits(x, o) => InPhase(x, r)'
      BY <2>8, <2>9, <3>1
    <3>3. Waits(pending[c], ops[a]) => InPhase(pending[c], ops[a])'
      BY <1>4, <2>5, <3>1, <3>2
    <3>4. Channel(pending[c].kind) # a => Undisturbed(pending[c])
      BY <1>8, <2>9
    <3> QED
      BY <3>3, <3>4
  <2>10. \A f \in ToSet(q) : f.type = "reply" => f.channel = a /\ f.callers = ops[a].callers
    BY <1>6
  <2>11. ops'[a] # NoOp => ops'[a].callers = ops[a].callers /\ ops'[a].kind = ops[a].kind
    BY <1>4, <2>4
  <2> QED
    BY <1>2, <1>5, <1>6, <2>4, <2>7, <2>9, <2>10, <2>11, ChannelMoves
<1> QED
  BY <1>3, <1>10, <1>11
-----------------------------------------------------------------------------
(* The controls' buttons: events that come unasked *)

LEMMA StampedAre ==
  ASSUME NEW q, CalmMail(q)
  PROVE  /\ CalmMail(Stamped(q))
         /\ (\A i \in 1..Len(q) : q[i].type # "reply") =>
              \A e \in ToSet(Stamped(q)) : e.type # "reply"
         /\ \A i \in 1..Len(q) : /\ At(clock + i, q[i]) \in ToSet(Stamped(q))
                                  /\ At(clock + i, q[i]).type = q[i].type
<1>1. PICK n \in Nat : n = Len(q) /\ DOMAIN q = 1..n
  BY MessagesAre
<1>2. PICK r : r = Stamped(q)
  OBVIOUS
<1>3. r = [i \in 1..n |-> At(clock + i, q[i])]
  BY <1>1, <1>2 DEF Stamped
<1>4. CalmMail(r) /\ DOMAIN r = 1..n
  BY <1>2, <1>3, CalmStamped
<1>5. \A e : e \in ToSet(r) <=> \E i \in 1..n : e = r[i]
  BY <1>4 DEF ToSet
<1>6. ASSUME NEW i \in 1..n PROVE At(clock + i, q[i]).type = q[i].type
  <2>1. PICK e : e = q[i]
    OBVIOUS
  <2>2. "type" \in DOMAIN e
    BY <1>1, <2>1 DEF CalmMail
  <2>3. PICK x : x = At(clock + i, e)
    OBVIOUS
  <2>4. x.type = e.type
    BY <2>2, <2>3 DEF At
  <2> QED
    BY <2>1, <2>3, <2>4
<1>7. \A i \in 1..n : r[i] = At(clock + i, q[i])
  BY <1>3
<1>8. \A i \in 1..n : r[i].type = q[i].type /\ r[i] \in ToSet(r)
  BY <1>5, <1>6, <1>7
<1>9. (\A i \in 1..n : q[i].type # "reply") => \A e \in ToSet(r) : e.type # "reply"
  BY <1>5, <1>8
<1> QED
  BY <1>1, <1>2, <1>4, <1>6, <1>7, <1>8, <1>9

\* One event comes, and no request moves.
LEMMA EventStands ==
  ASSUME ControlsInvariant, ButtonsAreRight, UNCHANGED <<renderer, main>>,
         NEW e, Sends(<<e>>), Plain(e), Calm(e), e.type # "reply",
         After(Behind, e) = Behind', PeerRests',
         \A c \in DOMAIN pending :
           /\ Awaited(pending[c]) /\ IsOwed(pending[c])
           /\ Stays(At(clock + 1, e), pending[c].scope)
           => \/ /\ ops[Channel(pending[c].kind)] # NoOp
                 /\ ops[Channel(pending[c].kind)].step # "done"
              \/ (Fulfilled(pending[c].kind) => Fulfilled(pending[c].kind)')
  PROVE  ButtonsAreRight'
<1>1. PICK y, m : y = Stamped(<<e>>) /\ m = At(clock + 1, e)
  OBVIOUS
<1>2. y = <<m>> /\ ToSet(y) = {m}
  BY <1>1, StampedOne, OneMessageIs
<1>3. /\ mail' = mail \o y
      /\ UNCHANGED <<app, shown, due, effected, pending, calls, ops, inbox>>
  BY <1>1 DEF Sends, Stamped, Renderer, renderer, main
<1>4. CalmMail(<<e>>)
  BY CalmOne DEF Calm
<1>5. CalmMail(y)
  BY <1>1, <1>4, CalmStamped
<1>6. m.type # "reply"
  <2>1. "type" \in DOMAIN e
    BY DEF Calm
  <2>2. m.type = e.type
    BY <1>1, <2>1 DEF At
  <2> QED
    BY <2>2
<1>7. Continues(y)
  BY <1>2, <1>3, <1>6 DEF Continues
<1>8. Guides(y, Behind, Behind')
  <2>1. PICK v, w : v = Behind /\ w = After(v, e)
    OBVIOUS
  <2>2. Guides(y, v, w)
    BY <1>1, <2>1, StampedOne
  <2> QED
    BY <2>1, <2>2
<1>9. CalmMail(mail)
  BY DEF ControlsInvariant, CalmInvariant
<1>10. ASSUME NEW c \in DOMAIN pending, Awaited(pending[c]), IsOwed(pending[c]),
              \A f \in ToSet(y) : Stays(f, pending[c].scope)
       PROVE  InPhase(pending[c], ops[Channel(pending[c].kind)])'
  <2>1. PICK x, o : /\ x = pending[c] /\ o = ops[Channel(x.kind)]
                    /\ x = pending'[c] /\ o = ops'[Channel(x.kind)]
    BY <1>3
  <2>2. InPhase(x, o)
    BY <1>10, <2>1 DEF Awaited
  <2>3. (o # NoOp /\ o.step # "done") \/ (Fulfilled(x.kind) => Fulfilled(x.kind)')
    BY <1>1, <1>2, <1>10, <2>1
  <2>4. \A f \in ToSet(y) : ~Tells(f, x.token)
    BY <1>2, <1>6 DEF Tells
  <2>5. StopsComeFirst => StopsComeFirst'
    BY <1>3 DEF StopsComeFirst
  <2>6. InPhase(x, o)'
    BY <1>3, <1>5, <1>9, <2>2, <2>3, <2>4, <2>5, PhaseIsKept
  <2> QED
    BY <2>1, <2>6
<1> QED
  BY <1>3, <1>5, <1>7, <1>8, <1>10, MovesStand

LEMMA NoLinkRests ==
  ASSUME IsPeer(peer), NEW state, peer' = [NoLink EXCEPT !.backend = state]
  PROVE  /\ peer'.link = "disconnected" /\ peer'.paused = FALSE
         /\ peer'.recording = "idle" /\ PeerRests'
<1>1. PICK x : x = NoLink
  OBVIOUS
<1>2. x = [peer EXCEPT !.link = "disconnected", !.generation = 0, !.paused = FALSE,
                       !.revision = 0, !.errors = 0, !.rejects = 0, !.recording = "idle"]
  BY <1>1, Zenon DEF NoLink
<1>3. /\ DOMAIN x = PeerFields /\ x.link = "disconnected" /\ x.paused = FALSE
      /\ x.recording = "idle"
  BY <1>2 DEF IsPeer, PeerFields
<1>4. peer' = [x EXCEPT !.backend = state]
  BY <1>1, Zenon
<1>5. peer'.link = "disconnected" /\ peer'.paused = FALSE /\ peer'.recording = "idle"
  BY <1>3, <1>4 DEF PeerFields
<1> QED
  BY <1>5 DEF PeerRests

LEMMA BackendStartsWell ==
  ASSUME ControlsInvariant, ButtonsAreRight, BackendRuns, UNCHANGED <<renderer, main>>
  PROVE  ButtonsAreRight'
<1>1. PICK e : e = BackendEvent("running")
  OBVIOUS
<1>2. /\ peer.backend = "starting" /\ peer' = [NoLink EXCEPT !.backend = "running"]
      /\ Sends(<<e>>)
  BY <1>1 DEF BackendRuns
<1>3. Plain(e) /\ Calm(e) /\ e.type = "backend_state"
  <2>1. e.type = "backend_state"
    BY <1>1 DEF BackendEvent
  <2> QED
    BY <1>1, <2>1, EventsArePlain, CalmEvents
<1>4. /\ peer'.link = "disconnected" /\ peer'.paused = FALSE
      /\ peer'.recording = "idle" /\ PeerRests'
  BY <1>2, NoLinkRests DEF ControlsInvariant, ControlsAreRight, PeerIsKnown
<1>5. Behind = View(peer.link, peer.paused, peer.recording) /\ Behind' = Behind
  BY <1>2, <1>4 DEF ButtonsAreRight, PeerRests, Behind
<1>6. After(Behind, e) = Behind'
  BY <1>1, <1>5, EventsGuide
<1>7. At(clock + 1, e).type = "backend_state"
  <2>1. "type" \in DOMAIN e
    BY <1>3 DEF Calm
  <2>2. PICK m : m = At(clock + 1, e)
    OBVIOUS
  <2>3. m.type = e.type
    BY <2>1, <2>2 DEF At
  <2> QED
    BY <1>3, <2>2, <2>3
<1>8. \A s : ~Stays(At(clock + 1, e), s)
  BY <1>7 DEF Stays
<1> QED
  BY <1>2, <1>3, <1>4, <1>6, <1>8, EventStands

LEMMA FailureIsTold ==
  ASSUME ControlsInvariant, ButtonsAreRight, RecordingFails, UNCHANGED <<renderer, main>>
  PROVE  ButtonsAreRight'
<1>1. PICK e : e = RecordingEvent("error")
  OBVIOUS
<1>2. /\ \A c \in Channels : ops[c].step # "done"
      /\ peer.recording = "recording" /\ shown.recording.state = "recording" /\ due = 0
      /\ \A i \in DOMAIN mail : mail[i].type = "reply" => mail[i].channel # "record"
      /\ peer' = [peer EXCEPT !.recording = "error"] /\ Sends(<<e>>)
  BY <1>1 DEF RecordingFails
<1>3. Plain(e) /\ Calm(e) /\ e.type # "reply"
  <2>1. e.type = "recording_state"
    BY <1>1 DEF RecordingEvent
  <2> QED
    BY <1>1, <2>1, EventsArePlain, CalmEvents
<1>4. IsPeer(peer) /\ CalmMail(mail) /\ PeerRests
  BY DEF ControlsInvariant, ControlsAreRight, PeerIsKnown, CalmInvariant, ButtonsAreRight
<1>5. /\ peer'.link = peer.link /\ peer'.paused = peer.paused /\ peer'.recording = "error"
      /\ peer'.backend = peer.backend
  BY <1>2, <1>4 DEF IsPeer, PeerFields
<1>6. PeerRests'
  BY <1>2, <1>4, <1>5 DEF PeerRests
<1>7. After(Behind, e) = Behind'
  <2>1. PICK c, p, r, s : c = peer.link /\ p = peer.paused /\ r = peer.recording /\ s = "error"
    OBVIOUS
  <2>2. s \in Idle
    BY <2>1 DEF Idle
  <2>3. Behind = View(c, p, r) /\ Behind' = View(c, p, s) /\ e = RecordingEvent(s)
    BY <1>1, <1>5, <2>1 DEF Behind
  <2> QED
    BY <2>2, <2>3, EventsGuide
<1>8. PICK v, w : v = Behind /\ w = Behind'
  OBVIOUS
<1>9. /\ v.connection = peer.link /\ v.paused = peer.paused /\ v.recording = "recording"
      /\ w.connection = peer.link /\ w.paused = peer.paused /\ w.recording = "error"
  BY <1>2, <1>5, <1>8, ViewIs DEF Behind
<1>10. inbox' = inbox
  BY DEF main
<1>11. ASSUME NEW c \in DOMAIN pending, Awaited(pending[c]), IsOwed(pending[c])
       PROVE  \/ /\ ops[Channel(pending[c].kind)] # NoOp
                 /\ ops[Channel(pending[c].kind)].step # "done"
              \/ (Fulfilled(pending[c].kind) => Fulfilled(pending[c].kind)')
  <2>1. PICK x : x = pending[c] /\ x = pending'[c]
    BY DEF renderer
  <2>2. x.kind \in Kinds /\ Apart(x.token, Channel(x.kind)) /\ InPhase(x, ops[Channel(x.kind)])
    BY <1>11, <2>1 DEF Awaited
  <2>3. CASE x.kind # "record"
    <3>1. ASSUME Fulfilled(x.kind) PROVE Fulfilled(x.kind)'
      <4>1. x.kind # "connect" /\ (peer.link = "disconnected" \/ ReachedIn(x.kind, v))
        BY <1>8, <3>1 DEF Fulfilled
      <4>2. ReachedIn(x.kind, v) => ReachedIn(x.kind, w)
        BY <1>9, <2>2, <2>3, <4>1 DEF ReachedIn, Kinds, Idle
      <4>3. peer'.link = "disconnected" \/ ReachedIn(x.kind, w)
        BY <1>5, <4>1, <4>2
      <4>4. peer'.link = "disconnected" \/ ReachedIn(x.kind, Behind)'
        BY <1>8, <4>3 DEF ReachedIn
      <4> QED
        BY <2>3, <4>1, <4>4 DEF Fulfilled
    <3> QED
      BY <2>1, <3>1
  <2>4. CASE x.kind = "record"
    <3>1. Channel(x.kind) = "record" /\ "record" \in Channels
      BY <2>4, ChannelsAre DEF Kinds
    <3>2. Owed(x, Dependencies(shown))
      BY <1>2, <1>11, <2>1 DEF IsOwed
    <3>3. PICK d : d = Dependencies(shown)
      OBVIOUS
    <3>4. d.recording = "recording"
      BY <1>2, <3>3 DEF Dependencies
    <3>5. ReachedIn("record", d)
      BY <3>4 DEF ReachedIn, Idle
    <3>6. x.complete # TRUE
      BY <2>4, <3>2, <3>3, <3>5 DEF Owed
    <3>7. ASSUME NEW f \in ToSet(mail), Tells(f, x.token) PROVE FALSE
      <4>1. f.type = "reply" /\ f.channel = "record"
        BY <2>2, <3>1, <3>7 DEF Apart, Tells
      <4>2. \E i \in DOMAIN mail : f = mail[i]
        BY <1>4, <3>7, MessagesAre
      <4> QED
        BY <1>2, <4>1, <4>2
    <3>8. Waits(x, ops["record"])
      BY <2>2, <3>1, <3>6, <3>7 DEF InPhase, IsAnswered
    <3> QED
      BY <1>2, <2>1, <3>1, <3>8 DEF Waits
  <2> QED
    BY <2>3, <2>4
<1> QED
  BY <1>2, <1>3, <1>6, <1>7, <1>11, EventStands

LEMMA LinkStepsAre ==
  ASSUME NEW a, NEW b, <<a, b>> \in LinkSteps
  PROVE  a # "disconnected" /\ b # "disconnected"
  BY DEF LinkSteps

LEMMA LinkIsTold ==
  ASSUME ControlsInvariant, ButtonsAreRight, NEW link, LinkChanges(link),
         UNCHANGED <<renderer, main>>
  PROVE  ButtonsAreRight'
<1>1. PICK e : e = LinkEvent(link, peer.generation, peer.paused)
  OBVIOUS
<1>2. /\ peer.backend = "running" /\ peer' = [peer EXCEPT !.link = link] /\ Sends(<<e>>)
      /\ peer.link # "disconnected" /\ link # "disconnected"
  BY <1>1, LinkStepsAre DEF LinkChanges
<1>3. Plain(e) /\ Calm(e) /\ e.type # "reply"
  <2>1. e.type = "connection_state"
    BY <1>1 DEF LinkEvent
  <2>2. PICK gen, p : gen = peer.generation /\ p = peer.paused
    OBVIOUS
  <2>3. e = LinkEvent(link, gen, p)
    BY <1>1, <2>2
  <2> QED
    BY <2>1, <2>3, EventsArePlain, CalmEvents
<1>4. IsPeer(peer)
  BY DEF ControlsInvariant, ControlsAreRight, PeerIsKnown
<1>5. /\ peer'.link = link /\ peer'.paused = peer.paused /\ peer'.recording = peer.recording
      /\ peer'.backend = peer.backend
  BY <1>2, <1>4 DEF IsPeer, PeerFields
<1>6. PeerRests'
  BY <1>2, <1>5 DEF PeerRests
<1>7. After(Behind, e) = Behind'
  <2>1. PICK c, p, r, gen : /\ c = peer.link /\ p = peer.paused /\ r = peer.recording
                            /\ gen = peer.generation
    OBVIOUS
  <2>2. Behind = View(c, p, r) /\ Behind' = View(link, p, r) /\ e = LinkEvent(link, gen, p)
    BY <1>1, <1>5, <2>1 DEF Behind
  <2> QED
    BY <1>2, <2>2, EventsGuide
<1>8. PICK v, w : v = Behind /\ w = Behind'
  OBVIOUS
<1>9. /\ v.connection = peer.link /\ w.connection = link
      /\ w.paused = v.paused /\ w.recording = v.recording
  BY <1>5, <1>8, ViewIs DEF Behind
<1>10. inbox' = inbox
  BY DEF main
<1>11. ASSUME NEW k \in Kinds, Fulfilled(k) PROVE Fulfilled(k)'
  <2>1. k # "connect" /\ ReachedIn(k, v)
    BY <1>2, <1>8, <1>11 DEF Fulfilled
  <2>2. ReachedIn(k, w)
    BY <1>2, <1>9, <2>1 DEF ReachedIn, Kinds
  <2>3. ReachedIn(k, Behind)'
    BY <1>8, <2>2 DEF ReachedIn
  <2> QED
    BY <1>10, <1>11, <2>1, <2>3 DEF Fulfilled
<1>12. ASSUME NEW c \in DOMAIN pending, Awaited(pending[c])
       PROVE  Fulfilled(pending[c].kind) => Fulfilled(pending[c].kind)'
  <2>1. PICK k : k = pending[c].kind /\ k = pending'[c].kind
    BY DEF renderer
  <2>2. Fulfilled(k) => Fulfilled(k)'
    BY <1>11, <1>12, <2>1 DEF Awaited
  <2> QED
    BY <2>1, <2>2
<1> QED
  BY <1>2, <1>3, <1>6, <1>7, <1>12, EventStands

LEMMA UnaskedEndsWell ==
  ASSUME ControlsInvariant, ButtonsAreRight, Unasked
  PROVE  ButtonsAreRight'
<1>1. UNCHANGED <<renderer, main>>
  BY DEF Unasked
<1> QED
  BY <1>1, BackendStartsWell, FailureIsTold, LinkIsTold DEF Unasked
-----------------------------------------------------------------------------
(* The controls' buttons: a companion dies *)

NoView == View("disconnected", FALSE, "idle")

LEMMA StateIs ==
  ASSUME NEW state, NEW b, b = BackendEvent(state)
  PROVE  b.type = "backend_state" /\ b.state = state
  BY DEF BackendEvent

LEMMA DeathGuides ==
  ASSUME NEW d, NEW b, NEW es \in Seq({d, b}), Len(es) = 2, es[1] = d, es[2] = b,
         DOMAIN d = {"type", "restart", "cuts"}, d.type = "backend_disconnected",
         b = BackendEvent("starting")
  PROVE  /\ CalmMail(es) /\ \A i \in 1..Len(es) : es[i].type # "reply"
         /\ \A v : Guides(Stamped(es), v, NoView)
<1>1. \A i \in 1..2 : i = 1 \/ i = 2
  OBVIOUS
<1>2. PICK state : state = "starting" /\ b = BackendEvent(state)
  OBVIOUS
<1>3. b.type = "backend_state" /\ b.state # "running" /\ Calm(b) /\ Plain(b)
  <2>1. b.type = "backend_state" /\ b.state # "running"
    BY <1>2, StateIs
  <2>2. Calm(b)
    BY <1>2, CalmEvents
  <2>3. Plain(b)
    BY <1>2, EventsArePlain
  <2> QED
    BY <2>1, <2>2, <2>3
<1>4. CalmMail(es)
  <2>1. PICK S : S = {d, b}
    OBVIOUS
  <2>2. es \in Seq(S)
    BY <2>1
  <2>3. \A x \in S : "type" \in DOMAIN x /\ x.type \in CalmTypes
    BY <1>3, <2>1 DEF Calm, CalmTypes
  <2> QED
    BY <2>2, <2>3 DEF CalmMail
<1>5. \A i \in 1..Len(es) : es[i].type # "reply"
  BY <1>1, <1>3
<1>6. Plain(d)
  BY PlainIs
<1>7. \A i \in 1..Len(es) : Plain(es[i])
  BY <1>1, <1>3, <1>6
<1>8. PICK w : w = NoView
  OBVIOUS
<1>9. \A v : After(v, d) = w
  BY <1>8 DEF After, Gone, Ends, NoView
<1>10. \A v : After(v, b) = w
  BY <1>3, <1>8 DEF After, Gone, Ends, NoView
<1>11. ASSUME NEW v PROVE Guides(Stamped(es), v, w)
  <2>1. PICK views : views = [i \in 0..2 |-> IF i = 0 THEN v ELSE w]
    OBVIOUS
  <2>2. views[0] = v /\ views[1] = w /\ views[2] = w
    BY <2>1
  <2>3. \A i \in 1..2 : views[i] = After(views[i - 1], es[i])
    <3>1. views[1] = After(views[1 - 1], es[1])
      BY <1>1, <1>9, <2>2
    <3>2. views[2] = After(views[2 - 1], es[2])
      BY <1>1, <1>10, <2>2
    <3> QED
      BY <1>1, <3>1, <3>2
  <2>4. \A i \in 1..Len(es) : views[i] = After(views[i - 1], es[i])
    BY <1>1, <2>3
  <2>5. Guides(Stamped(es), views[0], views[Len(es)])
    BY <1>4, <1>7, <2>4, PlainGuide
  <2> QED
    BY <1>1, <2>2, <2>5
<1> QED
  BY <1>4, <1>5, <1>8, <1>11

LEMMA DeathEndsWell ==
  ASSUME ControlsInvariant, ButtonsAreRight, CompanionDies
  PROVE  ButtonsAreRight'
<1>1. PICK unserved : unserved = SetToSeq({c \in Channels : ops[c].step \in {"sent", "done"}})
  OBVIOUS
<1>2. PICK d, b : /\ d = [type |-> "backend_disconnected", restart |-> TRUE, cuts |-> {}]
                  /\ b = BackendEvent("starting")
  OBVIOUS
<1>3. PICK es, replies : es = <<d, b>> /\ replies = [i \in DOMAIN unserved |-> Reply(unserved[i], "thrown")]
  OBVIOUS
<1>4. /\ mail' = (mail \o Stamped(es)) \o replies
      /\ ops' = [c \in Channels |-> IF c \in ToSet(unserved) THEN NoOp ELSE ops[c]]
      /\ peer' = [NoLink EXCEPT !.backend = "starting"]
      /\ UNCHANGED <<app, shown, due, effected, pending, calls>>
  BY <1>1, <1>2, <1>3 DEF CompanionDies, renderer
<1>5. PICK n, token : n = calls /\ token = BiasToken
  OBVIOUS
<1>6. CalmMail(mail) /\ IsPeer(peer) /\ RequestsAre(n, token)
  BY <1>5 DEF ControlsInvariant, ControlsAreRight, CalmInvariant, PeerIsKnown
<1>7. AreReplies(replies, n, token, FALSE)
  BY <1>1, <1>3, <1>6, LostAreTold
<1>8. CalmMail(replies) /\ \A k \in 1..Len(replies) : replies[k].type = "reply"
  BY <1>7 DEF AreReplies
<1>20. es \in Seq({d, b}) /\ Len(es) = 2 /\ es[1] = d /\ es[2] = b
  BY <1>3
<1>21. DOMAIN d = {"type", "restart", "cuts"} /\ d.type = "backend_disconnected"
  BY <1>2
<1>22. b = BackendEvent("starting")
  BY <1>2
<1>9. /\ CalmMail(es) /\ \A i \in 1..Len(es) : es[i].type # "reply"
      /\ \A v : Guides(Stamped(es), v, NoView)
  BY <1>20, <1>21, <1>22, DeathGuides
<1>10. PICK q, y : q = Stamped(es) /\ y = q \o replies
  OBVIOUS
<1>11. CalmMail(q) /\ \A e \in ToSet(q) : e.type # "reply"
  BY <1>9, <1>10, StampedAre
<1>12. PICK m : m \in ToSet(q) /\ m.type = "backend_disconnected"
  <2>1. 1 \in 1..Len(es)
    BY <1>20
  <2>2. At(clock + 1, es[1]) \in ToSet(q) /\ At(clock + 1, es[1]).type = es[1].type
    BY <1>9, <1>20, <1>10, <2>1, StampedAre
  <2> QED
    BY <1>20, <1>21, <2>2
<1>13. CalmMail(y) /\ \A e : e \in ToSet(y) <=> e \in ToSet(q) \/ e \in ToSet(replies)
  BY <1>8, <1>10, <1>11, MessagesJoined, CalmBoth
<1>14. mail' = mail \o y
  <2>1. PICK p, a : p = mail /\ a = p \o q
    OBVIOUS
  <2>2. a \o replies = p \o y
    BY <1>6, <1>8, <1>10, <1>11, <2>1, CalmIsAssociative
  <2> QED
    BY <1>4, <1>10, <2>1, <2>2
<1>15. ASSUME NEW e \in ToSet(y), e.type = "reply"
       PROVE  e.channel \in Channels /\ ops[e.channel] # NoOp /\ e.callers = ops[e.channel].callers
  <2>1. e \in ToSet(replies)
    BY <1>11, <1>13, <1>15
  <2>2. PICK i \in 1..Len(replies) : e = replies[i]
    BY <1>8, <2>1, MessagesAre
  <2>3. PICK k \in Nat : /\ DOMAIN unserved = 1..k
                         /\ \A j \in 1..k : /\ unserved[j] \in Channels
                                             /\ ops[unserved[j]].step \in {"sent", "done"}
    BY <1>1, LostAreListed
  <2>4. i \in DOMAIN unserved
    <3>1. DOMAIN replies = DOMAIN unserved
      BY <1>3
    <3>2. DOMAIN replies = 1..Len(replies)
      BY <1>8, MessagesAre
    <3> QED
      BY <3>1, <3>2
  <2>5. PICK c, o : c = unserved[i] /\ o = ops[c]
    OBVIOUS
  <2>6. c \in Channels /\ o # NoOp
    <3>1. c \in Channels /\ o.step \in {"sent", "done"}
      BY <2>3, <2>4, <2>5
    <3> QED
      BY <3>1 DEF NoOp
  <2>7. e = Reply(c, "thrown")
    BY <1>3, <2>2, <2>4, <2>5
  <2>8. PICK f : f = [type |-> "reply", channel |-> c, callers |-> o.callers,
                      result |-> "thrown", at |-> 0]
    OBVIOUS
  <2>9. f.channel = c /\ f.callers = o.callers
    BY <2>8
  <2>10. e = f
    BY <2>5, <2>7, <2>8 DEF Reply
  <2> QED
    BY <2>5, <2>6, <2>9, <2>10
<1>16. Continues(y)
  <2>1. \A c \in Channels : ops'[c] = NoOp \/ ops'[c] = ops[c]
    BY <1>4
  <2> QED
    BY <1>15, <2>1 DEF Continues
<1>17. PeerRests' /\ Behind' = NoView
  <2>1. /\ peer'.link = "disconnected" /\ peer'.paused = FALSE
        /\ peer'.recording = "idle" /\ PeerRests'
    BY <1>4, <1>6, NoLinkRests
  <2> QED
    BY <2>1 DEF Behind, NoView
<1>18. Guides(y, Behind, Behind')
  <2>1. PICK v, w : v = Behind /\ w = Behind'
    OBVIOUS
  <2>2. Guides(q, v, w)
    BY <1>9, <1>10, <1>17, <2>1
  <2>3. Guides(replies, w, w)
    BY <1>8, RepliesGuideNowhere
  <2>4. Guides(y, v, w)
    BY <1>8, <1>10, <1>11, <2>2, <2>3, GuidesAreJoined
  <2> QED
    BY <2>1, <2>4
<1>19. \A s : \E e \in ToSet(y) : ~Stays(e, s)
  <2>1. m \in ToSet(y)
    BY <1>12, <1>13
  <2> QED
    BY <1>12, <2>1 DEF Stays
<1> QED
  BY <1>4, <1>13, <1>14, <1>16, <1>17, <1>18, <1>19, MovesStand
-----------------------------------------------------------------------------
(* The controls' buttons: commands are given *)

\* One of the measurement only where none of it waits.
LEMMA GivenAlone ==
  ASSUME Click \/ MenuChosen
  PROVE  \E kind \in Kinds : /\ Gives(kind)
                             /\ Slot(kind) # "connection" => \A c \in Actions : pending[c] = NoEntry
<1>1. ASSUME NEW command, NEW disabled, Meant(command, disabled) # "nothing"
      PROVE  /\ Meant(command, disabled) \in Kinds
             /\ Slot(Meant(command, disabled)) # "connection" => ~Pending(Actions)
  <2>1. CASE command \in {"connect", "disconnect"}
    BY <2>1 DEF Meant, Kinds, Slot
  <2>2. CASE command \notin {"connect", "disconnect"}
    <3>1. Meant(command, disabled) = Asks(command, disabled)
      BY <2>2 DEF Meant
    <3>2. ~Pending(Actions) /\ Asks(command, disabled) \in Kinds
      BY <1>1, <3>1 DEF Asks, Kinds
    <3> QED
      BY <3>1, <3>2
  <2> QED
    BY <2>1, <2>2
<1>2. \E command, disabled : LET kind == Meant(command, disabled)
                             IN kind # "nothing" /\ Gives(kind)
  BY Zenon DEF Click, MenuChosen
<1>3. PICK kind : /\ kind \in Kinds /\ Gives(kind)
                  /\ Slot(kind) # "connection" => ~Pending(Actions)
  BY <1>1, <1>2
<1>4. ~Pending(Actions) => \A c \in Actions : pending[c] = NoEntry
  BY DEF Pending
<1> QED
  BY <1>3, <1>4

\* What becomes of the channel of a command: its request is joined, or made, or, where no
\* backend runs, answered.
Joined(c, m, y) ==
  /\ y = <<>> /\ inbox' = inbox /\ ops[c] # NoOp /\ ops'[c] # NoOp
  /\ ops'[c].kind = ops[c].kind /\ ops'[c].callers = ops[c].callers \union {m}
Made(c, kind, m, y) ==
  /\ y = <<>> /\ ops[c] = NoOp /\ ops'[c] # NoOp
  /\ ops'[c].kind = kind /\ ops'[c].callers = {m}
  /\ \/ ops'[c].step = "asked" /\ inbox' = inbox
     \/ ops'[c].step = "sent" /\ inbox' = Append(inbox, c) /\ kind # "record"
Refused(c, y) ==
  ops[c] = NoOp /\ ops'[c] = NoOp /\ inbox' = inbox /\ \E e \in ToSet(y) : TRUE
Informed(c, m, y) ==
  \A e \in ToSet(y) :
    e.type = "reply" /\ e.channel = c /\ e.callers = {m} /\ e.result = "thrown"

LEMMA RequestIsGiven ==
  ASSUME ControlsInvariant, NEW kind \in Kinds, NEW m, Invoke(kind, m),
         NEW c, c = Channel(kind)
  PROVE  \E y : /\ CalmMail(y) /\ mail' = mail \o y /\ Informed(c, m, y)
                /\ \A d \in Channels \ {c} : ops'[d] = ops[d]
                /\ Joined(c, m, y) \/ Made(c, kind, m, y) \/ Refused(c, y)
<1>1. c \in Channels
  BY ChannelsAre
<1>2. CalmMail(mail) /\ ops = [d \in Channels |-> ops[d]]
  BY DEF ControlsInvariant, ControlsAreRight, CalmInvariant, RequestsAre
<1>3. PICK op : op = [step |-> "asked", kind |-> kind, callers |-> {m}, result |-> "none"]
  OBVIOUS
<1>4. /\ DOMAIN op = {"step", "kind", "callers", "result"} /\ op.step = "asked"
      /\ op.kind = kind /\ op.callers = {m}
  BY <1>3
<1>5. op # NoOp
  BY <1>4 DEF NoOp
<1>6. PICK none : none = <<>>
  OBVIOUS
<1>7. CalmMail(none) /\ mail = mail \o none /\ Informed(c, m, none)
  <2>1. PICK S : mail \in Seq(S)
    BY <1>2 DEF CalmMail
  <2>2. mail \o <<>> = mail
    BY <2>1, ConcatEmptySeq
  <2> QED
    BY <1>6, <2>2, CalmNothing, OneMessageIs DEF Informed
<1>8. CASE ops[c] # NoOp
  <2>1. PICK o : o = ops[c]
    OBVIOUS
  <2>2. /\ ops' = [ops EXCEPT ![c].callers = @ \union {m}] /\ inbox' = inbox /\ mail' = mail
    BY <1>8 DEF Invoke
  <2>3. PICK waiting : waiting = o.callers \union {m}
    OBVIOUS
  <2>4. PICK r : r = [o EXCEPT !.callers = waiting]
    OBVIOUS
  <2>5. ops' = [ops EXCEPT ![c] = r]
    BY <2>1, <2>2, <2>3, <2>4
  <2>6. DOMAIN o = {"step", "kind", "callers", "result"} /\ o.step # "free"
    BY <1>1, <1>8, <2>1 DEF ControlsInvariant, ControlsAreRight, RequestsAre, IsRequest
  <2>7. r.step = o.step /\ r.kind = o.kind /\ r.callers = waiting
    BY <2>4, <2>6
  <2>8. r # NoOp
    BY <2>6, <2>7 DEF NoOp
  <2>9. ops'[c] = r /\ \A d \in Channels \ {c} : ops'[d] = ops[d]
    BY <1>1, <1>2, <2>5
  <2>10. Joined(c, m, none)
    BY <1>6, <1>8, <2>1, <2>2, <2>3, <2>7, <2>8, <2>9 DEF Joined
  <2> QED
    BY <1>7, <2>2, <2>9, <2>10
<1>9. CASE ops[c] = NoOp /\ kind \in {"bias", "record"}
  <2>1. ops' = [ops EXCEPT ![c] = op] /\ inbox' = inbox /\ mail' = mail
    BY <1>3, <1>9 DEF Invoke
  <2>2. ops'[c] = op /\ \A d \in Channels \ {c} : ops'[d] = ops[d]
    BY <1>1, <1>2, <2>1
  <2>3. Made(c, kind, m, none)
    BY <1>4, <1>5, <1>6, <1>9, <2>1, <2>2 DEF Made
  <2> QED
    BY <1>7, <2>1, <2>2, <2>3
<1>10. CASE ops[c] = NoOp /\ kind \notin {"bias", "record"}
  <2>1. Commands(c, op)
    BY <1>3, <1>10 DEF Invoke
  <2>2. CASE peer.backend = "running"
    <3>1. /\ inbox' = Append(inbox, c) /\ mail' = mail
          /\ ops' = [ops EXCEPT ![c] = [op EXCEPT !.step = "sent"]]
      BY <2>1, <2>2 DEF Commands
    <3>2. PICK r : r = [op EXCEPT !.step = "sent"]
      OBVIOUS
    <3>3. r.step = "sent" /\ r.kind = kind /\ r.callers = {m}
      BY <1>4, <3>2
    <3>4. r # NoOp
      BY <3>3 DEF NoOp
    <3>5. ops'[c] = r /\ \A d \in Channels \ {c} : ops'[d] = ops[d]
      BY <1>1, <1>2, <3>1, <3>2
    <3>6. Made(c, kind, m, none)
      BY <1>6, <1>10, <3>1, <3>3, <3>4, <3>5 DEF Made
    <3> QED
      BY <1>7, <3>1, <3>5, <3>6
  <2>3. CASE peer.backend # "running"
    <3>1. PICK e : e = [type |-> "reply", channel |-> c, at |-> 0, callers |-> op.callers,
                        result |-> "thrown"]
      OBVIOUS
    <3>2. mail' = Append(mail, e) /\ ops' = [ops EXCEPT ![c] = NoOp] /\ inbox' = inbox
      BY <2>1, <2>3, <3>1 DEF Commands
    <3>3. /\ e.type = "reply" /\ e.channel = c /\ e.callers = {m} /\ e.result = "thrown"
          /\ "type" \in DOMAIN e
      BY <1>4, <3>1
    <3>4. PICK y : y = <<e>>
      OBVIOUS
    <3>5. CalmMail(y) /\ ToSet(y) = {e}
      BY <3>3, <3>4, CalmOne, OneMessageIs DEF CalmTypes
    <3>6. mail' = mail \o y
      BY <1>2, <3>2, <3>4, AppendedIsJoined
    <3>7. ops'[c] = NoOp /\ \A d \in Channels \ {c} : ops'[d] = ops[d]
      BY <1>1, <1>2, <3>2
    <3>8. Informed(c, m, y) /\ Refused(c, y)
      BY <1>10, <3>2, <3>3, <3>5, <3>7 DEF Informed, Refused
    <3> QED
      BY <3>5, <3>6, <3>7, <3>8
  <2> QED
    BY <2>2, <2>3
<1> QED
  BY <1>8, <1>9, <1>10
-----------------------------------------------------------------------------
(* The controls' buttons: the entry of a command, and those that wait *)

\* What is known of the messages and requests: who they are for has a token.
LEMMA CallersAreOld ==
  ASSUME ControlsInvariant
  PROVE  /\ calls \in Nat /\ calls + 1 \notin 1..calls
         /\ \A d \in Channels : ops[d] # NoOp => ops[d].callers \subseteq 1..calls
         /\ \A e \in ToSet(mail) : e.type = "reply" => e.callers \subseteq 1..calls
<1>1. PICK n, token : n = calls /\ token = BiasToken
  OBVIOUS
<1>2. RequestsAre(n, token) /\ CalmMail(mail) /\ n \in Nat
  BY <1>1 DEF ControlsInvariant, ControlsAreRight, CalmInvariant, EntriesAreRight
<1>3. \A d \in Channels : ops[d] # NoOp => ops[d].callers \subseteq 1..n
  BY <1>2 DEF RequestsAre, IsRequest
<1>4. ASSUME NEW e \in ToSet(mail), e.type = "reply" PROVE e.callers \subseteq 1..n
  <2>1. PICK k \in 1..Len(mail) : e = mail[k]
    BY <1>2, <1>4, MessagesAre
  <2> QED
    BY <1>2, <1>4, <2>1 DEF RequestsAre, Addressed
<1>5. n + 1 \notin 1..n
  BY <1>2
<1> QED
  BY <1>1, <1>2, <1>3, <1>4, <1>5

\* A command is given: what the mail and the channel have of it.
IsGiven(kind, m, y) ==
  /\ CalmMail(y) /\ mail' = mail \o y /\ Informed(Channel(kind), m, y)
  /\ \A d \in Channels \ {Channel(kind)} : ops'[d] = ops[d]
  /\ \/ Joined(Channel(kind), m, y) \/ Made(Channel(kind), kind, m, y)
     \/ Refused(Channel(kind), y)

\* Another command is told no more of than before.
LEMMA OthersStayApart ==
  ASSUME ControlsInvariant, NEW kind \in Kinds, NEW m, m = calls + 1, NEW y, IsGiven(kind, m, y),
         NEW t \in 1..calls, NEW c \in Channels, Apart(t, c)
  PROVE  Apart(t, c)' /\ \A e \in ToSet(y) : ~Tells(e, t)
<1>1. PICK a : a = Channel(kind) /\ a \in Channels
  BY ChannelsAre
<1>2. t # m
  BY CallersAreOld
<1>3. \A e \in ToSet(y) : ~Tells(e, t)
  BY <1>2 DEF IsGiven, Informed, Tells
<1>4. CalmMail(mail)
  BY DEF ControlsInvariant, CalmInvariant
<1>5. \A e : e \in ToSet(mail') <=> e \in ToSet(mail) \/ e \in ToSet(y)
  BY <1>4, MessagesJoined DEF IsGiven
<1>6. \A e \in ToSet(mail') : Tells(e, t) => e.channel = c
  BY <1>3, <1>5 DEF Apart
<1>7. ASSUME NEW d \in Channels \ {c}, ops'[d] # NoOp PROVE t \notin ops'[d].callers
  <2>1. CASE d # a
    BY <1>1, <1>7, <2>1 DEF IsGiven, Apart
  <2>2. CASE d = a
    <3>1. CASE Joined(a, m, y)
      <4>1. ops[d] # NoOp /\ ops'[d].callers = ops[d].callers \union {m}
        BY <2>2, <3>1 DEF Joined
      <4> QED
        BY <1>2, <1>7, <4>1 DEF Apart
    <3>2. CASE Made(a, kind, m, y)
      BY <1>2, <2>2, <3>2 DEF Made
    <3>3. CASE Refused(a, y)
      BY <1>7, <2>2, <3>3 DEF Refused
    <3> QED
      BY <1>1, <3>1, <3>2, <3>3 DEF IsGiven
  <2> QED
    BY <2>1, <2>2
<1> QED
  BY <1>3, <1>6, <1>7 DEF Apart, Tells

\* A new command is told only of its own channel, and its request is made or answered.
LEMMA NewIsApart ==
  ASSUME ControlsInvariant, NEW kind \in Kinds, NEW m, m = calls + 1, NEW y, IsGiven(kind, m, y)
  PROVE  Apart(m, Channel(kind))' /\ \A e \in ToSet(mail) : ~Tells(e, m)
<1>1. PICK a : a = Channel(kind) /\ a \in Channels
  BY ChannelsAre
<1>2. CalmMail(mail)
  BY DEF ControlsInvariant, CalmInvariant
<1>3. \A e \in ToSet(mail) : ~Tells(e, m)
  BY CallersAreOld DEF Tells
<1>4. \A e : e \in ToSet(mail') <=> e \in ToSet(mail) \/ e \in ToSet(y)
  BY <1>2, MessagesJoined DEF IsGiven
<1>5. \A e \in ToSet(mail') : Tells(e, m) => e.channel = a
  BY <1>1, <1>3, <1>4 DEF IsGiven, Informed
<1>6. \A d \in Channels \ {a} : ops'[d] # NoOp => m \notin ops'[d].callers
  BY <1>1, CallersAreOld DEF IsGiven
<1>7. Apart(m, a)'
  BY <1>1, <1>5, <1>6 DEF Apart, Tells
<1> QED
  BY <1>1, <1>3, <1>7

LEMMA NewIsInPhase ==
  ASSUME ControlsInvariant, NEW kind \in Kinds, NEW m, m = calls + 1, NEW y, IsGiven(kind, m, y),
         ops[Channel(kind)] = NoOp, NEW x, x.complete = FALSE, x.kind = kind, x.token = m,
         NEW r, r = ops'[Channel(kind)]
  PROVE  InPhase(x, r)'
<1>1. PICK a : a = Channel(kind) /\ a \in Channels
  BY ChannelsAre
<1>2. CalmMail(mail)
  BY DEF ControlsInvariant, CalmInvariant
<1>3. \A e \in ToSet(mail) : ~Tells(e, m)
  BY NewIsApart
<1>4. \A e : e \in ToSet(mail') <=> e \in ToSet(mail) \/ e \in ToSet(y)
  BY <1>2, MessagesJoined DEF IsGiven
<1>5. Made(a, kind, m, y) \/ Refused(a, y)
  BY <1>1 DEF IsGiven, Joined
<1>6. CASE Made(a, kind, m, y)
  <2>1. \A e \in ToSet(mail') : ~Tells(e, m)
    BY <1>3, <1>4, <1>6, OneMessageIs DEF Made
  <2>2. /\ r # NoOp /\ r.kind = kind /\ r.callers = {m}
        /\ r.step \in {"asked", "sent"} /\ (kind = "record" => r.step = "asked")
    BY <1>1, <1>6 DEF Made
  <2>3. Waits(x, r)'
    BY <2>1, <2>2 DEF Waits, Tells
  <2> QED
    BY <2>3 DEF InPhase
<1>7. CASE Refused(a, y)
  <2>1. r = NoOp
    BY <1>1, <1>7 DEF Refused
  <2>2. \A e \in ToSet(mail') : Tells(e, m) => e.result # "ok"
    <3>1. \A e \in ToSet(y) : e.result = "thrown"
      BY DEF IsGiven, Informed
    <3> QED
      BY <1>3, <1>4, <3>1
  <2>3. PICK e \in ToSet(y) : TRUE
    BY <1>7 DEF Refused
  <2>4. e \in ToSet(mail') /\ Tells(e, m)
    BY <1>4, <2>3 DEF IsGiven, Informed, Tells
  <2>5. x.complete # TRUE
    OBVIOUS
  <2>6. IsAnswered(x, r)'
    BY <2>1, <2>2, <2>4, <2>5 DEF IsAnswered, Tells
  <2> QED
    BY <2>6 DEF InPhase
<1> QED
  BY <1>5, <1>6, <1>7

\* A command of another channel goes on, unless it is told to stop what this one began.
LEMMA OthersGoOn ==
  ASSUME ControlsInvariant, NEW kind \in Kinds, NEW m, m = calls + 1, NEW y, IsGiven(kind, m, y),
         peer' = peer, NEW x, x.kind \in Kinds, NEW o, InPhase(x, o),
         \A e \in ToSet(y) : ~Tells(e, x.token), kind = "stop" => x.kind # "record"
  PROVE  InPhase(x, o)'
<1>1. PICK a : a = Channel(kind) /\ a \in Channels
  BY ChannelsAre
<1>2. CalmMail(mail) /\ inbox \in Seq(Channels)
  BY DEF ControlsInvariant, ControlsAreRight, CalmInvariant, InboxIsRight
<1>3. a = "stop" <=> kind = "stop"
  BY <1>1, ChannelsAre
<1>4. inbox' = inbox \/ inbox' = Append(inbox, a)
  BY <1>1 DEF IsGiven, Joined, Made, Refused
<1>5. CASE inbox' = inbox
  <2>1. \A k : Fulfilled(k) => Fulfilled(k)'
    BY <1>5 DEF Fulfilled, Behind, ReachedIn
  <2>2. StopsComeFirst => StopsComeFirst'
    BY <1>5 DEF StopsComeFirst
  <2> QED
    BY <1>2, <2>1, <2>2, PhaseIsKept DEF IsGiven
<1>6. CASE inbox' = Append(inbox, a) /\ kind # "stop"
  <2>1. \A k : Fulfilled(k) => Fulfilled(k)'
    BY <1>1, <1>2, <1>3, <1>6, StopsStayFirst
  <2>2. StopsComeFirst => StopsComeFirst'
    BY <1>1, <1>2, <1>3, <1>6, StopsStayFirst
  <2> QED
    BY <1>2, <2>1, <2>2, PhaseIsKept DEF IsGiven
<1>7. CASE kind = "stop"
  <2>1. x.kind # "record"
    BY <1>7
  <2>2. Fulfilled(x.kind) => Fulfilled(x.kind)'
    BY <2>1 DEF Fulfilled, Behind, ReachedIn
  <2> QED
    BY <1>2, <2>1, <2>2, PhaseIsKept DEF IsGiven
<1> QED
  BY <1>4, <1>5, <1>6, <1>7
-----------------------------------------------------------------------------
(* The controls' buttons: a command is given *)

\* What is kept of a command, as it is given.
IsNew(x, kind, m) ==
  /\ DOMAIN x = EntryFields /\ x = [f \in DOMAIN x |-> x[f]]
  /\ x.token = m /\ x.kind = kind /\ x.complete = FALSE /\ x.scope = Scope(shown)
  /\ x.live \in BOOLEAN /\ x.began \in BOOLEAN
  /\ x.live = TRUE => Serves(kind, shown)
  /\ x.began = TRUE => /\ ops[Channel(kind)] = NoOp
                       /\ kind = "stop" => ops["record"] = NoOp

LEMMA EntryIsNew ==
  ASSUME NEW kind, NEW m, NEW l \in BOOLEAN, NEW b \in BOOLEAN, NEW s, s = Scope(shown),
         l = TRUE => Serves(kind, shown),
         b = TRUE => ops[Channel(kind)] = NoOp /\ (kind = "stop" => ops["record"] = NoOp),
         NEW x, x = [token |-> m, kind |-> kind, complete |-> FALSE, scope |-> s,
                     live |-> l, began |-> b]
  PROVE  IsNew(x, kind, m)
<1>1. /\ DOMAIN x = EntryFields /\ x = [f \in DOMAIN x |-> x[f]]
  BY DEF EntryFields
<1>2. /\ x.token = m /\ x.kind = kind /\ x.complete = FALSE /\ x.scope = s
      /\ x.live = l /\ x.began = b
  OBVIOUS
<1> QED
  BY <1>1, <1>2 DEF IsNew

LEMMA NewIsKept ==
  ASSUME NEW kind, Gives(kind)
  PROVE  \E x : pending' = [pending EXCEPT ![Slot(kind)] = x] /\ IsNew(x, kind, calls')
<1>1. PICK entry : entry = [token |-> calls', kind |-> kind, complete |-> FALSE,
                            scope |-> Scope(shown), live |-> Serves(kind, shown),
                            began |-> /\ ops[Channel(kind)] = NoOp
                                      /\ kind = "stop" => ops["record"] = NoOp]
  OBVIOUS
<1>2. pending' = [pending EXCEPT ![Slot(kind)] = entry]
  BY <1>1, Zenon DEF Gives
<1>3. PICK s, l, b, m : /\ s = Scope(shown) /\ m = calls' /\ l = Serves(kind, shown)
                        /\ b = (/\ ops[Channel(kind)] = NoOp
                                /\ kind = "stop" => ops["record"] = NoOp)
  OBVIOUS
<1>4. entry = [token |-> m, kind |-> kind, complete |-> FALSE, scope |-> s,
               live |-> l, began |-> b]
  BY <1>1, <1>3, Zenon
<1>5. b \in BOOLEAN /\ (b = TRUE => ops[Channel(kind)] = NoOp /\ (kind = "stop" => ops["record"] = NoOp))
  BY <1>3
<1>6. l \in BOOLEAN /\ (l = TRUE => Serves(kind, shown))
  BY <1>3 DEF Serves
<1>7. IsNew(entry, kind, m)
  BY <1>3, <1>4, <1>5, <1>6, EntryIsNew
<1> QED
  BY <1>2, <1>3, <1>7

\* What is on its way of the last message's session was before.
LEMMA LessLasts ==
  ASSUME CalmMail(mail), NEW y, CalmMail(y), mail' = mail \o y, app' = app,
         NEW s, Lasts(s)'
  PROVE  Lasts(s)
  BY LastsOn

LEMMA NewStands ==
  ASSUME ControlsInvariant, NEW kind \in Kinds, NEW m, m = calls + 1, calls' = m, NEW y,
         IsGiven(kind, m, y), UNCHANGED <<app, shown>>, NEW x, IsNew(x, kind, m)
  PROVE  EntryStands(Slot(kind), x)'
<1>1. m \in 1..calls'
  BY CallersAreOld
<1>2. IsScope(Scope(shown)) /\ NotBefore(Scope(app), Scope(shown))
  BY DEF ControlsInvariant, ControlsAreRight, FeedbackIsRight
<1>3. Scope(app)' = Scope(app) /\ Scope(shown)' = Scope(shown)
  BY DEF Scope
<1>4. IsEntry(Slot(kind), x)'
  <2>1. Apart(m, Channel(kind))'
    BY NewIsApart
  <2>2. x.token = m /\ x.kind = kind /\ Apart(x.token, Channel(x.kind))'
    BY <2>1 DEF IsNew
  <2>3. IsScope(x.scope) /\ NotBefore(Scope(app'), x.scope)
    BY <1>2 DEF IsNew
  <2> QED
    BY <1>1, <2>2, <2>3 DEF IsNew, IsEntry
<1>5. Kept(x) => IsOwed(x)'
  <2>1. PICK d : d = Dependencies(shown)
    OBVIOUS
  <2>2. /\ d.scope = Scope(shown) /\ d.backend = shown.backend.state
        /\ d.connection = shown.connection
    BY <2>1 DEF Dependencies
  <2>3. ASSUME Kept(x) PROVE Owed(x, d)
    <3>1. Serves(kind, shown) /\ x.kind = kind /\ x.scope = Scope(shown) /\ x.complete = FALSE
      BY <2>3 DEF Kept, IsNew
    <3>2. d.backend = "running" /\ (Slot(kind) # "connection" => d.connection = "streaming")
      BY <2>2, <3>1 DEF Serves, Slot
    <3>3. AliveIn(x, d)
      BY <2>2, <3>1, <3>2 DEF AliveIn
    <3> QED
      BY <3>1, <3>3 DEF Owed
  <2>4. d = Dependencies(shown')
    BY <2>1
  <2>5. Kept(x) => Owed(x, Dependencies(shown'))
    BY <2>3, <2>4
  <2> QED
    BY <2>5 DEF IsOwed, Owed, AliveIn, ReachedIn, Dependencies
<1>6. Kept(x) => InPhase(x, ops[Channel(x.kind)])'
  <2>1. ASSUME Kept(x) PROVE InPhase(x, ops[Channel(x.kind)])'
    <3>1. /\ ops[Channel(kind)] = NoOp /\ x.kind = kind /\ x.complete = FALSE /\ x.token = m
      BY <2>1 DEF Kept, IsNew
    <3>2. PICK r : r = ops'[Channel(kind)]
      OBVIOUS
    <3>3. InPhase(x, r)'
      BY <3>1, <3>2, NewIsInPhase
    <3> QED
      BY <3>1, <3>2, <3>3
  <2> QED
    BY <2>1
<1> QED
  BY <1>4, <1>5, <1>6 DEF EntryStands

LEMMA OthersStand ==
  ASSUME ControlsInvariant, NEW kind \in Kinds, NEW m, m = calls + 1, calls' = m, NEW y,
         IsGiven(kind, m, y), UNCHANGED <<app, shown, due, effected, peer>>,
         NEW c, c # Slot(kind), NEW x, EntryStands(c, x), kind = "stop" => x.kind # "record"
  PROVE  EntryStands(c, x)'
<1>1. IsEntry(c, x) /\ x.kind \in Kinds /\ x.token \in 1..calls
      /\ Channel(x.kind) \in Channels /\ Apart(x.token, Channel(x.kind))
  BY ChannelsAre DEF EntryStands, IsEntry
<1>2. Channel(x.kind) # Channel(kind)
  BY <1>1, ChannelsAre DEF IsEntry
<1>3. Apart(x.token, Channel(x.kind))' /\ \A e \in ToSet(y) : ~Tells(e, x.token)
  BY <1>1, OthersStayApart
<1>4. IsEntry(c, x)'
  <2>1. x.token \in 1..calls'
    BY <1>1, CallersAreOld
  <2>2. Scope(app)' = Scope(app)
    BY DEF Scope
  <2> QED
    BY <1>1, <1>3, <2>1, <2>2 DEF IsEntry
<1>5. Kept(x) => IsOwed(x)'
  BY DEF EntryStands, IsOwed
<1>6. ASSUME Kept(x), Expected(x)' PROVE InPhase(x, ops[Channel(x.kind)])'
  <2>1. CalmMail(mail)
    BY DEF ControlsInvariant, CalmInvariant
  <2>2. Lasts(x.scope)
    BY <1>6, <2>1, LessLasts DEF Expected, IsGiven
  <2>3. Expected(x)
    BY <1>6, <2>2 DEF Expected
  <2>4. PICK o : o = ops[Channel(x.kind)] /\ o = ops'[Channel(x.kind)]
    BY <1>1, <1>2 DEF IsGiven
  <2>5. InPhase(x, o)
    BY <1>6, <2>3, <2>4 DEF EntryStands
  <2>6. InPhase(x, o)'
    BY <1>1, <1>3, <2>5, OthersGoOn
  <2> QED
    BY <2>4, <2>6
<1> QED
  BY <1>4, <1>5, <1>6 DEF EntryStands

LEMMA GivenEndsWell ==
  ASSUME ControlsInvariant, ButtonsAreRight, NEW kind \in Kinds, Gives(kind),
         Slot(kind) # "connection" => \A c \in Actions : pending[c] = NoEntry
  PROVE  ButtonsAreRight'
<1>1. PICK m : m = calls + 1
  OBVIOUS
<1>2. /\ calls' = m /\ Invoke(kind, m)
      /\ UNCHANGED <<app, shown, due, effected, peer>>
  BY <1>1 DEF Gives, world
<1>3. PICK x : pending' = [pending EXCEPT ![Slot(kind)] = x] /\ IsNew(x, kind, m)
  BY <1>2, NewIsKept
<1>4. PICK a : a = Channel(kind) /\ a \in Channels
  BY ChannelsAre
<1>5. PICK y : IsGiven(kind, m, y)
  BY <1>2, RequestIsGiven DEF IsGiven
<1>6. /\ DOMAIN pending = Actions \union {"connection"}
      /\ pending = [c \in DOMAIN pending |-> pending[c]]
      /\ Slot(kind) \in DOMAIN pending /\ CalmMail(mail)
  BY ChannelsAre DEF ControlsInvariant, ControlsAreRight, EntriesAreRight, CalmInvariant
<1>7. /\ DOMAIN pending' = DOMAIN pending /\ pending'[Slot(kind)] = x
      /\ \A c \in DOMAIN pending \ {Slot(kind)} : pending'[c] = pending[c]
  BY <1>3, <1>6
<1>8. Guides(mail, Sight(app), Behind)'
  <2>1. Behind' = Behind /\ Sight(app') = Sight(app)
    BY <1>2 DEF Behind
  <2>2. PICK v, w : v = Sight(app) /\ w = Behind
    OBVIOUS
  <2>3. \A i \in 1..Len(y) : y[i].type = "reply"
    <3>1. CalmMail(y)
      BY <1>5 DEF IsGiven
    <3>2. \A i \in 1..Len(y) : y[i] \in ToSet(y)
      BY <3>1, MessagesAre
    <3> QED
      BY <1>5, <3>2 DEF IsGiven, Informed
  <2>4. Guides(y, w, w)
    BY <1>5, <2>3, RepliesGuideNowhere DEF IsGiven
  <2>5. Guides(mail \o y, v, w)
    BY <1>5, <1>6, <2>2, <2>4, GuidesAreJoined DEF ButtonsAreRight, IsGiven
  <2>6. Guides(mail', v, w)
    BY <1>5, <2>5 DEF IsGiven
  <2> QED
    BY <2>1, <2>2, <2>6
<1>9. PeerRests'
  BY <1>2 DEF ButtonsAreRight, PeerRests
<1>10. KindsAreRight'
  <2>1. ASSUME NEW d \in Channels, ops'[d] # NoOp PROVE ops'[d].kind \in Kinds /\ Channel(ops'[d].kind) = d
    <3>1. CASE d # a
      BY <1>4, <1>5, <2>1, <3>1 DEF ButtonsAreRight, KindsAreRight, IsGiven
    <3>2. CASE d = a
      <4>1. CASE Joined(a, m, y)
        BY <2>1, <3>2, <4>1 DEF ButtonsAreRight, KindsAreRight, Joined
      <4>2. CASE Made(a, kind, m, y)
        BY <1>4, <3>2, <4>2 DEF Made
      <4>3. CASE Refused(a, y)
        BY <2>1, <3>2, <4>3 DEF Refused
      <4> QED
        BY <1>4, <1>5, <4>1, <4>2, <4>3 DEF IsGiven
    <3> QED
      BY <3>1, <3>2
  <2> QED
    BY <2>1 DEF KindsAreRight
<1>11. Kept(pending'["stop"]) => ops'["record"] = NoOp
  <2>1. "record" \in Channels /\ "stop" \in Actions /\ "record" \in Kinds
    BY ChannelsAre DEF Kinds, Actions
  <2>2. CASE kind = "stop"
    <3>1. Slot(kind) = "stop" /\ a # "record"
      BY <1>4, <2>2, ChannelsAre DEF Slot
    <3>2. Kept(x) => ops["record"] = NoOp
      BY <1>3, <2>2 DEF Kept, IsNew
    <3> QED
      BY <1>4, <1>5, <1>7, <2>1, <3>1, <3>2 DEF IsGiven
  <2>3. CASE kind # "stop"
    <3>1. Slot(kind) # "stop"
      BY <2>3 DEF Slot, Kinds
    <3>2. pending'["stop"] = pending["stop"]
      BY <1>6, <1>7, <2>1, <3>1
    <3>3. CASE kind = "record"
      <4>1. pending["stop"] = NoEntry
        BY <2>1, <3>3 DEF Slot
      <4> QED
        BY <3>2, <4>1 DEF Kept
    <3>4. CASE kind # "record"
      <4>1. a # "record"
        BY <1>4, <3>4, ChannelsAre
      <4>2. ops'["record"] = ops["record"]
        BY <1>4, <1>5, <2>1, <4>1 DEF IsGiven
      <4> QED
        BY <3>2, <4>2 DEF ButtonsAreRight, Kept
    <3> QED
      BY <3>3, <3>4
  <2> QED
    BY <2>2, <2>3
<1>12. ASSUME NEW c \in DOMAIN pending', pending'[c] # NoEntry
       PROVE  EntryStands(c, pending[c])'
  <2>1. CASE c = Slot(kind)
    <3>1. EntryStands(c, x)'
      BY <1>1, <1>2, <1>3, <1>5, <2>1, NewStands
    <3> QED
      BY <1>7, <2>1, <3>1
  <2>2. CASE c # Slot(kind)
    <3>1. PICK z : z = pending[c] /\ z = pending'[c]
      BY <1>7, <2>2
    <3>2. EntryStands(c, z)
      BY <1>7, <1>12, <3>1 DEF ButtonsAreRight
    <3>3. kind = "stop" => z.kind # "record"
      <4>1. ASSUME kind = "stop", z.kind = "record" PROVE FALSE
        <5>1. Slot(kind) # "connection" /\ c = "record" /\ c \in Actions
          BY <3>2, <4>1 DEF EntryStands, IsEntry, Slot, Actions
        <5> QED
          BY <1>7, <1>12, <2>2, <5>1
      <4> QED
        BY <4>1
    <3>4. EntryStands(c, z)'
      BY <1>1, <1>2, <1>5, <2>2, <3>2, <3>3, OthersStand
    <3> QED
      BY <3>1, <3>4
  <2> QED
    BY <2>1, <2>2
<1> QED
  BY <1>8, <1>9, <1>10, <1>11, <1>12 DEF ButtonsAreRight
-----------------------------------------------------------------------------
(* The controls' buttons: the renderer takes a message *)

LEMMA PhaseIsLeft ==
  ASSUME CalmMail(mail), mail # <<>>, NEW e, e = Head(mail), mail' = Tail(mail),
         UNCHANGED <<peer, inbox>>, NEW x, NEW o, InPhase(x, o), ~Tells(e, x.token)
  PROVE  InPhase(x, o)'
<1>1. \A f : f \in ToSet(mail) <=> f = e \/ f \in ToSet(mail')
  BY FirstMessageIs
<1>2. Fulfilled(x.kind) <=> Fulfilled(x.kind)'
  BY DEF Fulfilled, Behind, ReachedIn
<1>3. StopsComeFirst => StopsComeFirst'
  BY DEF StopsComeFirst
<1>4. CASE Waits(x, o)
  <2>1. Waits(x, o)'
    BY <1>1, <1>2, <1>3, <1>4 DEF Waits, Tells
  <2> QED
    BY <2>1 DEF InPhase
<1>5. CASE IsAnswered(x, o)
  <2>1. IsAnswered(x, o)'
    BY <1>1, <1>2, <1>5 DEF IsAnswered, Tells
  <2> QED
    BY <2>1 DEF InPhase
<1> QED
  BY <1>4, <1>5 DEF InPhase

LEMMA ApartIsLeft ==
  ASSUME CalmMail(mail), mail # <<>>, mail' = Tail(mail), ops' = ops,
         NEW t, NEW c, Apart(t, c)
  PROVE  Apart(t, c)'
<1>1. \A f : f \in ToSet(mail') => f \in ToSet(mail)
  BY FirstMessageIs
<1> QED
  BY <1>1 DEF Apart, Tells

\* While a session lasts after a message, it lasted before: the message was of it.
LEMMA NewsStays ==
  ASSUME ControlsInvariant, mail # <<>>, NEW e, e = Head(mail), e.type # "reply",
         mail' = Tail(mail), app' = Reduce(app, e), UNCHANGED <<peer, clock, biased>>,
         NEW s, IsScope(s), NotBefore(Scope(app), s), Lasts(s)'
  PROVE  Lasts(s)
<1>1. CalmInvariant /\ MailLeads /\ CalmMail(mail) /\ IsApp(app)
  BY DEF ControlsInvariant, ControlsAreRight, CalmInvariant, MailLeads
<1>2. /\ MailLeads' /\ NotBefore(Scope(app'), Scope(app))
      /\ IsEvent(e) /\ e.at \in Nat /\ e.at > app.backend.at
      /\ MayFollow(e, app.generation) /\ app'.generation = GenerationAfter(app.generation, e)
  BY <1>1, NewsIsTaken
<1>3. IsScope(Scope(app)) /\ IsScope(Scope(app'))
  BY <1>1, <1>2 DEF MailLeads, IsApp, IsScope, Scope
<1>4. s = Scope(app')
  BY DEF Lasts
<1>5. Scope(app).epoch = s.epoch /\ Scope(app).generation = s.generation
  BY <1>2, <1>3, <1>4, ScopesAreOrdered
<1>6. s = Scope(app) /\ app'.backend.at = app.backend.at /\ app'.generation = app.generation
      /\ s.generation = app.generation
  BY <1>4, <1>5 DEF Scope
<1>7. Stays(e, s)
  <2>1. PICK r : r = Reduce(app, e)
    OBVIOUS
  <2>2. PICK a \in Nat : a = app.backend.at
    BY <1>1 DEF IsApp
  <2>3. ASSUME e.type \in {"backend_disconnected", "backend_state"} PROVE FALSE
    <3>1. r.backend.at = e.at
      <4>1. CASE Ends(e)
        BY <1>1, <1>2, <2>1, <4>1, EndIsReduced
      <4>2. CASE ~Ends(e)
        <5>1. e.type = "backend_state" /\ e.state = "running"
          BY <2>3, <4>2 DEF Ends
        <5> QED
          BY <1>1, <1>2, <2>1, <5>1, RunningIsReduced
      <4> QED
        BY <4>1, <4>2
    <3> QED
      BY <1>2, <1>6, <2>1, <2>2, <3>1
  <2>4. ASSUME e.type = "connection_state" PROVE e.gen = s.generation
    <3>1. ~Ends(e)
      BY <2>4 DEF Ends
    <3> QED
      BY <1>2, <1>6, <2>4, <3>1 DEF GenerationAfter
  <2> QED
    BY <2>3, <2>4 DEF Stays
<1>8. \A f : f \in ToSet(mail) <=> f = e \/ f \in ToSet(mail')
  BY <1>1, FirstMessageIs
<1> QED
  BY <1>6, <1>7, <1>8 DEF Lasts, Stays

LEMMA AnswerStays ==
  ASSUME CalmMail(mail), mail # <<>>, NEW e, e = Head(mail), e.type = "reply",
         mail' = Tail(mail), app' = app, NEW s, Lasts(s)'
  PROVE  Lasts(s)
<1>1. \A f : f \in ToSet(mail) <=> f = e \/ f \in ToSet(mail')
  BY FirstMessageIs
<1>2. Stays(e, s)
  BY DEF Stays
<1> QED
  BY <1>1, <1>2 DEF Lasts, Stays

\* What is seen and what is behind it, when a message is taken.
LEMMA MessageGuides ==
  ASSUME ControlsInvariant, ButtonsAreRight, mail # <<>>, NEW e, e = Head(mail),
         mail' = Tail(mail), UNCHANGED <<peer, clock, biased>>,
         IF e.type = "reply" THEN app' = app ELSE app' = Reduce(app, e)
  PROVE  Guides(mail, Sight(app), Behind)' /\ IsScope(Scope(app')) /\ NotBefore(Scope(app'), Scope(app))
<1>1. CalmInvariant /\ MailLeads /\ CalmMail(mail) /\ IsApp(app)
  BY DEF ControlsInvariant, ControlsAreRight, CalmInvariant, MailLeads
<1>2. PICK u, v, w : u = Sight(app) /\ v = After(u, e) /\ w = Behind
  OBVIOUS
<1>3. Guides(Tail(mail), v, w)
  BY <1>1, <1>2, GuideIsBegun DEF ButtonsAreRight
<1>4. Sight(app') = v /\ IsScope(Scope(app')) /\ NotBefore(Scope(app'), Scope(app))
  <2>1. CASE e.type = "reply"
    <3>1. v = u
      BY <1>2, <2>1, ReplyGuidesNowhere
    <3>2. IsScope(Scope(app)) /\ NotBefore(Scope(app), Scope(app))
      BY <1>1 DEF IsApp, IsScope, Scope, NotBefore
    <3> QED
      BY <1>2, <2>1, <3>1, <3>2
  <2>2. CASE e.type # "reply"
    <3>1. app' = Reduce(app, e)
      BY <2>2
    <3>2. MailLeads' /\ NotBefore(Scope(app'), Scope(app)) /\ Sight(app') = After(Sight(app), e)
      BY <1>1, <2>2, <3>1, NewsIsTaken
    <3>3. IsScope(Scope(app'))
      BY <3>2 DEF MailLeads, IsApp, IsScope, Scope
    <3> QED
      BY <1>2, <3>2, <3>3
  <2> QED
    BY <2>1, <2>2
<1>5. Behind' = w
  BY <1>2 DEF Behind
<1>6. Guides(mail', v, w)
  BY <1>3
<1> QED
  BY <1>4, <1>5, <1>6

\* A command of which nothing is told stands.
LEMMA EntryIsLeft ==
  ASSUME ControlsInvariant, mail # <<>>, NEW e, e = Head(mail), mail' = Tail(mail),
         due' = (IF due = 0 THEN 0 ELSE due + 1),
         UNCHANGED <<peer, clock, shown, effected, calls, ops, inbox, biased>>,
         IF e.type = "reply" THEN app' = app ELSE app' = Reduce(app, e),
         IsScope(Scope(app')), NotBefore(Scope(app'), Scope(app)),
         NEW c, NEW x, EntryStands(c, x),
         Tells(e, x.token) => ~AliveIn(x, Dependencies(shown))
  PROVE  EntryStands(c, x)'
<1>1. CalmMail(mail) /\ due \in Nat /\ IsScope(Scope(app))
  <2>1. IsApp(app)
    BY DEF ControlsInvariant, ControlsAreRight, MailLeads
  <2> QED
    BY <2>1 DEF ControlsInvariant, ControlsAreRight, CalmInvariant, FeedbackIsRight,
                IsApp, IsScope, Scope
<1>2. IsEntry(c, x)
  BY DEF EntryStands
<1>3. IsEntry(c, x)'
  <2>1. Apart(x.token, Channel(x.kind))'
    BY <1>1, <1>2, ApartIsLeft DEF IsEntry
  <2>2. NotBefore(Scope(app'), x.scope)
    BY <1>1, <1>2, ScopesAreOrdered DEF IsEntry
  <2> QED
    BY <1>2, <2>1, <2>2 DEF IsEntry
<1>4. due' = 0 <=> due = 0
  BY <1>1
<1>5. Kept(x) => IsOwed(x)'
  BY <1>4 DEF EntryStands, IsOwed
<1>6. ASSUME Kept(x), Expected(x)' PROVE InPhase(x, ops[Channel(x.kind)])'
  <2>1. AliveIn(x, Dependencies(shown)) /\ Lasts(x.scope)'
    BY <1>6 DEF Expected
  <2>2. ~Tells(e, x.token)
    BY <2>1
  <2>3. Lasts(x.scope)
    <3>1. CASE e.type = "reply"
      BY <1>1, <2>1, <3>1, AnswerStays
    <3>2. CASE e.type # "reply"
      BY <1>2, <2>1, <3>2, NewsStays DEF IsEntry
    <3> QED
      BY <3>1, <3>2
  <2>4. PICK o : o = ops[Channel(x.kind)] /\ o = ops'[Channel(x.kind)]
    OBVIOUS
  <2>5. InPhase(x, o)
    BY <1>6, <2>1, <2>3, <2>4 DEF EntryStands, Expected
  <2>6. InPhase(x, o)'
    BY <1>1, <2>2, <2>5, PhaseIsLeft
  <2> QED
    BY <2>4, <2>6
<1> QED
  BY <1>3, <1>5, <1>6 DEF EntryStands
-----------------------------------------------------------------------------
(* The controls' buttons: the renderer takes an answer *)

\* What a taken message leaves alone.
Takes(e) ==
  /\ mail # <<>> /\ e = Head(mail) /\ mail' = Tail(mail)
  /\ due' = (IF due = 0 THEN 0 ELSE due + 1)
  /\ UNCHANGED <<peer, clock, shown, effected, calls, ops, inbox, biased>>

\* A command that has succeeded, and whose state is not reached yet.
IsTold(x, y) ==
  /\ DOMAIN y = DOMAIN x /\ y = [f \in DOMAIN y |-> y[f]]
  /\ y.complete = TRUE /\ \A f \in DOMAIN x \ {"complete"} : y[f] = x[f]

LEMMA EntryIsTold ==
  ASSUME ControlsInvariant, NEW e, Takes(e), e.type = "reply", e.result = "ok", app' = app,
         NEW c, NEW x, EntryStands(c, x), Tells(e, x.token),
         AliveIn(x, Dependencies(shown)), ~Reached(x.kind, shown), NEW y, IsTold(x, y)
  PROVE  EntryStands(c, y)'
<1>1. CalmMail(mail)
  BY DEF ControlsInvariant, CalmInvariant
<1>2. IsEntry(c, x)
  BY DEF EntryStands
<1>3. /\ DOMAIN y = EntryFields /\ y = [f \in DOMAIN y |-> y[f]] /\ y.complete = TRUE
      /\ y.token = x.token /\ y.kind = x.kind /\ y.scope = x.scope
      /\ y.live = x.live /\ y.began = x.began /\ x # NoEntry
  <2>1. DOMAIN x = EntryFields
    BY <1>2 DEF IsEntry
  <2>2. x # NoEntry
    BY <2>1 DEF EntryFields, NoEntry
  <2>3. {"token", "kind", "scope", "live", "began"} \subseteq DOMAIN x \ {"complete"}
    BY <2>1 DEF EntryFields
  <2> QED
    BY <2>1, <2>2, <2>3 DEF IsTold
<1>4. IsEntry(c, y)'
  <2>1. Apart(x.token, Channel(x.kind))'
    BY <1>1, <1>2, ApartIsLeft DEF IsEntry, Takes
  <2>2. Scope(app)' = Scope(app) /\ calls' = calls
    BY DEF Scope, Takes
  <2> QED
    BY <1>2, <1>3, <2>1, <2>2 DEF IsEntry
<1>5. IsOwed(y)'
  <2>1. PICK d : d = Dependencies(shown) /\ d = Dependencies(shown')
    BY DEF Takes
  <2>2. ~ReachedIn(x.kind, d)
    <3>1. d.connection = shown.connection /\ d.paused = shown.paused
          /\ d.recording = shown.recording.state
      BY <2>1 DEF Dependencies
    <3>2. x.kind \in Kinds
      BY <1>2 DEF IsEntry
    <3> QED
      BY <3>1, <3>2 DEF ReachedIn, Reached, Kinds
  <2>3. Owed(y, d)
    BY <1>3, <2>1, <2>2 DEF Owed, AliveIn
  <2>4. Owed(y, Dependencies(shown'))
    BY <2>1, <2>3
  <2> QED
    BY <2>4 DEF IsOwed, Owed, AliveIn, ReachedIn, Dependencies
<1>6. ASSUME Kept(y), Expected(y)' PROVE InPhase(y, ops[Channel(y.kind)])'
  <2>1. Lasts(x.scope)'
    BY <1>3, <1>6 DEF Expected
  <2>2. Lasts(x.scope)
    BY <1>1, <2>1, AnswerStays DEF Takes
  <2>3. Kept(x) /\ Expected(x)
    BY <1>3, <1>6, <2>2 DEF Kept, Expected
  <2>4. PICK o : o = ops[Channel(x.kind)] /\ o = ops'[Channel(x.kind)]
    BY DEF Takes
  <2>5. InPhase(x, o)
    BY <2>3, <2>4 DEF EntryStands
  <2>6. e \in ToSet(mail) /\ \A f \in ToSet(mail') : f \in ToSet(mail)
    BY <1>1, FirstMessageIs DEF Takes
  <2>7. o = NoOp /\ Fulfilled(x.kind)
    BY <2>5, <2>6 DEF InPhase, Waits, IsAnswered
  <2>8. Fulfilled(x.kind)'
    BY <2>7 DEF Fulfilled, Behind, ReachedIn, Takes
  <2>9. IsAnswered(y, o)'
    BY <1>3, <2>7, <2>8 DEF IsAnswered
  <2> QED
    BY <1>3, <2>4, <2>9 DEF InPhase
<1> QED
  BY <1>4, <1>5, <1>6 DEF EntryStands

\* An answer is of one command at most.
LEMMA AnswersOne ==
  ASSUME ControlsInvariant, ButtonsAreRight, NEW e, Takes(e), e.type = "reply",
         NEW c \in DOMAIN pending, pending[c].token \in e.callers
  PROVE  /\ pending[c] # NoEntry
         /\ \A d \in DOMAIN pending \ {c} : pending[d].token \notin e.callers
<1>1. CalmMail(mail)
  BY DEF ControlsInvariant, CalmInvariant
<1>2. e \in ToSet(mail)
  BY <1>1, FirstMessageIs DEF Takes
<1>3. e.callers \subseteq 1..calls /\ calls \in Nat
  BY <1>2, CallersAreOld
<1>4. ASSUME NEW d \in DOMAIN pending, pending[d].token \in e.callers
      PROVE  /\ pending[d] # NoEntry /\ pending[d].kind \in Kinds
             /\ Slot(pending[d].kind) = d /\ Channel(pending[d].kind) = e.channel
  <2>1. PICK x : x = pending[d]
    OBVIOUS
  <2>2. x # NoEntry
    BY <1>3, <1>4, <2>1 DEF NoEntry
  <2>3. IsEntry(d, x)
    BY <2>1, <2>2 DEF ButtonsAreRight, EntryStands
  <2>4. Tells(e, x.token)
    BY <1>4, <2>1 DEF Tells
  <2> QED
    BY <1>2, <2>1, <2>2, <2>3, <2>4 DEF IsEntry, Apart
<1>5. ASSUME NEW d \in DOMAIN pending \ {c}, pending[d].token \in e.callers PROVE FALSE
  <2>1. Channel(pending[d].kind) = Channel(pending[c].kind)
    BY <1>4, <1>5
  <2>2. Slot(pending[d].kind) = Slot(pending[c].kind)
    BY <1>4, <1>5, <2>1, ChannelsAre
  <2> QED
    BY <1>4, <1>5, <2>2
<1> QED
  BY <1>4, <1>5

SlotAnswered(c, result) ==
  IF c = "connection" THEN ConnectionAnswered(result) ELSE ActionAnswered(c, result)

\* What an answer does to the command it is of.
LEMMA AnswerTurns ==
  ASSUME NEW e, NEW c \in DOMAIN pending, EntriesAreRight, SlotAnswered(c, e.result),
         NEW x, x = pending[c], IsEntry(c, x)
  PROVE  /\ DOMAIN pending' = DOMAIN pending
         /\ \A d \in DOMAIN pending \ {c} : pending'[d] = pending[d]
         /\ \/ pending'[c] = x /\ ~AliveIn(x, Dependencies(shown))
            \/ pending'[c] = NoEntry
            \/ /\ IsTold(x, pending'[c]) /\ AliveIn(x, Dependencies(shown))
               /\ e.result = "ok" /\ ~Reached(x.kind, shown)
<1>0. /\ DOMAIN x = EntryFields /\ x = [f \in DOMAIN x |-> x[f]] /\ Slot(x.kind) = c
      /\ DOMAIN pending = Actions \union {"connection"}
      /\ pending = [d \in DOMAIN pending |-> pending[d]]
  BY DEF IsEntry, EntriesAreRight
<1>1. PICK y : y = [x EXCEPT !.complete = TRUE]
  OBVIOUS
<1>2. IsTold(x, y)
  BY <1>0, <1>1 DEF IsTold, EntryFields
<1>3. PICK d : d = Dependencies(shown)
  OBVIOUS
<1>4. d.scope = Scope(shown) /\ d.backend = shown.backend.state /\ d.connection = shown.connection
  BY <1>3 DEF Dependencies
<1>5. ASSUME NEW z, pending' = [pending EXCEPT ![c] = z]
      PROVE  /\ DOMAIN pending' = DOMAIN pending /\ pending'[c] = z
             /\ \A a \in DOMAIN pending \ {c} : pending'[a] = pending[a]
  BY <1>0, <1>5
<1>6. CASE c = "connection"
  <2>1. PICK stale : stale = (x.scope # Scope(shown) \/ shown.backend.state # "running")
    OBVIOUS
  <2>2. PICK over : over = (stale \/ e.result # "ok" \/ Reached(x.kind, shown))
    OBVIOUS
  <2>3. pending' = [pending EXCEPT !["connection"] = IF over THEN NoEntry ELSE y]
    BY <1>1, <1>6, <2>1, <2>2, Zenon DEF SlotAnswered, ConnectionAnswered
  <2>4. CASE over
    <3>1. pending' = [pending EXCEPT ![c] = NoEntry]
      BY <1>6, <2>3, <2>4
    <3> QED
      BY <1>5, <3>1
  <2>5. CASE ~over
    <3>1. pending' = [pending EXCEPT ![c] = y]
      BY <1>6, <2>3, <2>5
    <3>2. AliveIn(x, d)
      BY <1>0, <1>4, <1>6, <2>1, <2>2, <2>5 DEF AliveIn
    <3> QED
      BY <1>2, <1>3, <1>5, <2>2, <2>5, <3>1, <3>2
  <2> QED
    BY <2>4, <2>5
<1>7. CASE c # "connection"
  <2>1. PICK live : live = (x.scope = Scope(shown) /\ Streams(shown))
    OBVIOUS
  <2>2. PICK over : over = (e.result # "ok" \/ Reached(x.kind, shown))
    OBVIOUS
  <2>3. ActionAnswered(c, e.result)
    BY <1>7 DEF SlotAnswered
  <2>4. ~live => pending' = pending
    BY <2>1, <2>3, Zenon DEF ActionAnswered
  <2>5. live => pending' = [pending EXCEPT ![c] = IF over THEN NoEntry ELSE y]
    BY <1>1, <2>1, <2>2, <2>3, Zenon DEF ActionAnswered
  <2>6. live <=> AliveIn(x, d)
    BY <1>0, <1>4, <1>7, <2>1 DEF AliveIn, Streams
  <2>7. CASE ~live
    BY <1>3, <2>4, <2>6, <2>7
  <2>8. CASE live /\ over
    <3>1. pending' = [pending EXCEPT ![c] = NoEntry]
      BY <2>5, <2>8
    <3> QED
      BY <1>5, <3>1
  <2>9. CASE live /\ ~over
    <3>1. pending' = [pending EXCEPT ![c] = y]
      BY <2>5, <2>9
    <3> QED
      BY <1>2, <1>3, <1>5, <2>2, <2>6, <2>9, <3>1
  <2> QED
    BY <2>7, <2>8, <2>9
<1> QED
  BY <1>6, <1>7
-----------------------------------------------------------------------------
(* The controls' buttons: the renderer's steps *)

LEMMA MailEndsWell ==
  ASSUME ControlsInvariant, ButtonsAreRight, TakeMail
  PROVE  ButtonsAreRight'
<1>1. PICK e : e = Head(mail)
  OBVIOUS
<1>2. /\ Takes(e)
      /\ IF e.type = "reply" THEN TakeReply(e) /\ app' = app
         ELSE app' = Reduce(app, e) /\ pending' = pending
  BY <1>1, Zenon DEF TakeMail, Takes, world, main
<1>3. IF e.type = "reply" THEN app' = app ELSE app' = Reduce(app, e)
  BY <1>2
<1>4. /\ Guides(mail, Sight(app), Behind)'
      /\ IsScope(Scope(app')) /\ NotBefore(Scope(app'), Scope(app))
  BY <1>2, <1>3, MessageGuides DEF Takes
<1>5. PeerRests' /\ KindsAreRight'
  BY <1>2 DEF ButtonsAreRight, PeerRests, KindsAreRight, Takes
<1>6. /\ DOMAIN pending = Actions \union {"connection"}
      /\ pending = [c \in DOMAIN pending |-> pending[c]]
      /\ EntriesAreRight
  BY DEF ControlsInvariant, ControlsAreRight, EntriesAreRight
<1>7. ASSUME NEW c, NEW x, EntryStands(c, x),
             Tells(e, x.token) => ~AliveIn(x, Dependencies(shown))
      PROVE  EntryStands(c, x)'
  BY <1>2, <1>3, <1>4, <1>7, EntryIsLeft DEF Takes
<1>8. CASE /\ pending' = pending
           /\ \A c \in DOMAIN pending : pending[c] # NoEntry => ~Tells(e, pending[c].token)
  <2>1. ASSUME NEW c \in DOMAIN pending', pending'[c] # NoEntry PROVE EntryStands(c, pending[c])'
    <3>1. PICK x : x = pending[c] /\ x = pending'[c]
      BY <1>8
    <3>2. EntryStands(c, x) /\ ~Tells(e, x.token)
      BY <1>8, <2>1, <3>1 DEF ButtonsAreRight
    <3>3. EntryStands(c, x)'
      BY <1>7, <3>2
    <3> QED
      BY <3>1, <3>3
  <2>2. Kept(pending'["stop"]) => ops'["record"] = NoOp
    BY <1>2, <1>8 DEF ButtonsAreRight, Kept, Takes
  <2> QED
    BY <1>4, <1>5, <2>1, <2>2 DEF ButtonsAreRight
<1>9. CASE e.type = "reply" /\ \E c \in DOMAIN pending : pending[c].token \in e.callers
  <2>1. PICK waiting : waiting = {c \in DOMAIN pending : pending[c].token \in e.callers}
    OBVIOUS
  <2>2. waiting # {}
    BY <1>9, <2>1
  <2>3. PICK c \in waiting : SlotAnswered(c, e.result)
    BY <1>2, <1>9, <2>1, <2>2, Zenon DEF TakeReply, SlotAnswered
  <2>4. /\ c \in DOMAIN pending /\ pending[c] # NoEntry
        /\ \A d \in DOMAIN pending \ {c} : pending[d].token \notin e.callers
    BY <1>2, <1>9, <2>1, AnswersOne
  <2>5. PICK x : x = pending[c]
    OBVIOUS
  <2>6. EntryStands(c, x) /\ IsEntry(c, x) /\ Tells(e, x.token)
    BY <1>9, <2>1, <2>4, <2>5 DEF ButtonsAreRight, EntryStands, Tells
  <2>7. /\ DOMAIN pending' = DOMAIN pending
        /\ \A d \in DOMAIN pending \ {c} : pending'[d] = pending[d]
        /\ \/ pending'[c] = x /\ ~AliveIn(x, Dependencies(shown))
           \/ pending'[c] = NoEntry
           \/ /\ IsTold(x, pending'[c]) /\ AliveIn(x, Dependencies(shown))
              /\ e.result = "ok" /\ ~Reached(x.kind, shown)
    BY <1>6, <2>3, <2>4, <2>5, <2>6, AnswerTurns
  <2>8. PICK z : z = pending'[c]
    OBVIOUS
  <2>9. z # NoEntry => EntryStands(c, z)'
    <3>1. CASE z = x /\ ~AliveIn(x, Dependencies(shown))
      BY <1>7, <2>6, <3>1
    <3>2. CASE /\ IsTold(x, z) /\ AliveIn(x, Dependencies(shown))
               /\ e.result = "ok" /\ ~Reached(x.kind, shown)
      BY <1>2, <1>9, <2>6, <3>2, EntryIsTold
    <3> QED
      BY <2>7, <2>8, <3>1, <3>2
  <2>10. ASSUME NEW d \in DOMAIN pending', pending'[d] # NoEntry PROVE EntryStands(d, pending[d])'
    <3>1. CASE d = c
      BY <2>8, <2>9, <2>10, <3>1
    <3>2. CASE d # c
      <4>1. PICK y : y = pending[d] /\ y = pending'[d]
        BY <2>7, <3>2
      <4>2. EntryStands(d, y) /\ ~Tells(e, y.token)
        BY <2>4, <2>7, <2>10, <3>2, <4>1 DEF ButtonsAreRight, Tells
      <4>3. EntryStands(d, y)'
        BY <1>7, <4>2
      <4> QED
        BY <4>1, <4>3
    <3> QED
      BY <3>1, <3>2
  <2>11. Kept(pending'["stop"]) => ops'["record"] = NoOp
    <3>1. Kept(pending'["stop"]) => Kept(pending["stop"])
      <4>0. "stop" \in DOMAIN pending
        BY <1>6 DEF Actions
      <4>1. CASE c = "stop"
        <5>1. DOMAIN x = EntryFields
          BY <2>6 DEF IsEntry
        <5>2. z = NoEntry \/ z = x \/ IsTold(x, z)
          BY <2>7, <2>8
        <5>3. IsTold(x, z) => z.live = x.live /\ z.began = x.began
          BY <5>1 DEF IsTold, EntryFields
        <5>4. Kept(z) => Kept(x)
          BY <2>4, <2>5, <5>2, <5>3 DEF Kept
        <5> QED
          BY <2>5, <2>8, <4>1, <5>4
      <4>2. CASE c # "stop"
        BY <2>7, <4>0, <4>2 DEF Kept
      <4> QED
        BY <4>1, <4>2
    <3> QED
      BY <1>2, <3>1 DEF ButtonsAreRight, Takes
  <2> QED
    BY <1>4, <1>5, <2>10, <2>11 DEF ButtonsAreRight
<1>10. CASE e.type = "reply" /\ \A c \in DOMAIN pending : pending[c].token \notin e.callers
  <2>1. PICK waiting : waiting = {c \in DOMAIN pending : pending[c].token \in e.callers}
    OBVIOUS
  <2>2. waiting = {}
    BY <1>10, <2>1
  <2>3. pending' = pending
    BY <1>2, <1>10, <2>1, <2>2, Zenon DEF TakeReply
  <2> QED
    BY <1>8, <1>10, <2>3 DEF Tells
<1>11. CASE e.type # "reply"
  BY <1>2, <1>8, <1>11 DEF Tells
<1> QED
  BY <1>9, <1>10, <1>11

\* A render is of what the renderer knows.
LEMMA RenderEndsWell ==
  ASSUME ControlsInvariant, ButtonsAreRight, RenderControls
  PROVE  ButtonsAreRight'
<1>1. /\ due = 0 /\ due' = 1 /\ shown' = app
      /\ UNCHANGED <<peer, clock, mail, app, pending, effected, calls, ops, inbox, biased>>
  BY DEF RenderControls, world, main
<1>2. PICK now : now = Dependencies(shown) /\ now = effected.now /\ now = effected'.now
  BY <1>1 DEF ControlsInvariant, ControlsAreRight, FeedbackIsRight
<1>3. PICK next : next = Dependencies(app) /\ next = Dependencies(shown')
  BY <1>1
<1>4. Scope(app)' = Scope(app) /\ Behind' = Behind /\ Sight(app') = Sight(app)
  BY <1>1 DEF Scope, Behind
<1>5. Guides(mail, Sight(app), Behind)' /\ PeerRests' /\ KindsAreRight'
      /\ (Kept(pending'["stop"]) => ops'["record"] = NoOp)
  BY <1>1, <1>4 DEF ButtonsAreRight, PeerRests, KindsAreRight, Kept
<1>6. ASSUME NEW c, NEW x, EntryStands(c, x) PROVE EntryStands(c, x)'
  <2>1. IsEntry(c, x)'
    BY <1>1, <1>4, <1>6 DEF EntryStands, IsEntry, Apart
  <2>2. Kept(x) => Owed(x, now)
    BY <1>1, <1>2, <1>6 DEF EntryStands, IsOwed
  <2>3. Kept(x) => IsOwed(x)'
    <3>1. Kept(x) => due' # 0 /\ Owed(x, effected'.now)
      BY <1>1, <1>2, <2>2
    <3> QED
      BY <3>1 DEF IsOwed, Owed, AliveIn, ReachedIn, Dependencies
  <2>4. ASSUME Kept(x), Expected(x)' PROVE InPhase(x, ops[Channel(x.kind)])'
    <3>1. Lasts(x.scope)
      BY <1>1, <1>4, <2>4 DEF Expected, Lasts
    <3>2. Expected(x)
      BY <1>2, <2>2, <2>4, <3>1 DEF Expected, Owed
    <3>3. PICK o : o = ops[Channel(x.kind)] /\ o = ops'[Channel(x.kind)]
      BY <1>1
    <3>4. InPhase(x, o)
      BY <1>6, <2>4, <3>2, <3>3 DEF EntryStands
    <3>5. InPhase(x, o)'
      BY <1>1, <3>4 DEF InPhase, Waits, IsAnswered, Fulfilled, Behind, ReachedIn,
                       StopsComeFirst
    <3> QED
      BY <3>3, <3>5
  <2> QED
    BY <2>1, <2>3, <2>4 DEF EntryStands
<1>7. ASSUME NEW c \in DOMAIN pending', pending'[c] # NoEntry PROVE EntryStands(c, pending[c])'
  <2>1. PICK x : x = pending[c] /\ x = pending'[c]
    BY <1>1
  <2>2. EntryStands(c, x)
    BY <1>1, <1>7, <2>1 DEF ButtonsAreRight
  <2>3. EntryStands(c, x)'
    BY <1>6, <2>2
  <2> QED
    BY <2>1, <2>3
<1> QED
  BY <1>5, <1>7 DEF ButtonsAreRight

\* The effects that run leave, of the commands the code keeps it of, those that are owed
\* something yet in what is shown.
LEMMA EffectsLeave ==
  ASSUME ControlsEffects, DOMAIN pending = Actions \union {"connection"},
         pending = [d \in DOMAIN pending |-> pending[d]],
         NEW c \in DOMAIN pending, NEW x, x = pending[c], IsEntry(c, x),
         Kept(x) => Owed(x, Dependencies(shown)) \/ Owed(x, effected.now),
         pending'[c] # NoEntry
  PROVE  pending'[c] = x /\ (Kept(x) => Owed(x, Dependencies(shown)))
<1>1. PICK now, was : now = Dependencies(shown) /\ was = effected.now
  OBVIOUS
<1>2. /\ now.scope = Scope(shown) /\ now.backend = shown.backend.state
      /\ now.connection = shown.connection /\ now.paused = shown.paused
      /\ now.recording = shown.recording.state
  BY <1>1 DEF Dependencies
<1>3. /\ x.kind \in Kinds /\ x.token \in Nat /\ x.token # 0 /\ Slot(x.kind) = c
      /\ x.complete \in BOOLEAN
  BY DEF IsEntry
<1>4. Reached(x.kind, shown) <=> ReachedIn(x.kind, now)
  BY <1>2, <1>3 DEF Reached, ReachedIn, Kinds
<1>5. PICK after : after = AfterActions.pending
  OBVIOUS
<1>6. pending' = [after EXCEPT !["connection"] = IF ConnectionEnds THEN NoEntry ELSE after["connection"]]
  BY <1>5, Zenon DEF ControlsEffects
<1>7. PICK over : over = (now.scope # was.scope \/ ~Streams(shown))
  OBVIOUS
<1>8. PICK done : done = {a \in DOMAIN pending :
                            /\ pending[a].token # 0 /\ pending[a].scope = now.scope
                            /\ pending[a].complete /\ Reached(pending[a].kind, shown)}
  OBVIOUS
<1>9. after = IF now = was THEN pending
              ELSE [a \in DOMAIN pending |->
                      IF a \in Actions /\ (over \/ a \in done) THEN NoEntry ELSE pending[a]]
  <2>1. CASE now = was
    BY <1>1, <1>5, <2>1, Zenon DEF AfterActions
  <2>2. CASE now # was
    BY <1>1, <1>5, <1>7, <1>8, <2>2 DEF AfterActions
  <2> QED
    BY <2>1, <2>2
<1>10. c = "connection" \/ c \in Actions
  OBVIOUS
<1>11. "connection" \notin Actions
  BY DEF Actions
<1>12. DOMAIN after = DOMAIN pending
  BY <1>9
<1>13. CASE c = "connection"
  <2>1. after[c] = x
    BY <1>9, <1>11, <1>13
  <2>2. ~ConnectionEnds /\ pending'[c] = x
    BY <1>6, <1>12, <1>13, <2>1
  <2>3. x # NoEntry
    BY <2>2
  <2>4. \/ now.scope = was.scope /\ now.backend = was.backend /\ now.connection = was.connection
        \/ now.backend = "running" /\ x.scope = now.scope
           /\ ~(x.complete /\ Reached(x.kind, shown))
    BY <1>1, <1>13, <2>2, <2>3 DEF ConnectionEnds
  <2>5. x.kind \in {"connect", "disconnect"}
    BY <1>3, <1>13 DEF Slot, Kinds
  <2>6. Slot(x.kind) = "connection"
    BY <1>3, <1>13
  <2>7. ASSUME Kept(x) PROVE Owed(x, now)
    <3>1. CASE now.scope = was.scope /\ now.backend = was.backend /\ now.connection = was.connection
      <4>1. ReachedIn(x.kind, now) <=> ReachedIn(x.kind, was)
        BY <2>5, <3>1 DEF ReachedIn
      <4>2. AliveIn(x, now) <=> AliveIn(x, was)
        BY <3>1 DEF AliveIn
      <4> QED
        BY <1>1, <2>7, <4>1, <4>2 DEF Owed
    <3>2. CASE now.backend = "running" /\ x.scope = now.scope
               /\ ~(x.complete /\ Reached(x.kind, shown))
      BY <1>4, <2>6, <3>2 DEF Owed, AliveIn
    <3> QED
      BY <2>4, <3>1, <3>2
  <2> QED
    BY <1>1, <2>2, <2>7
<1>14. CASE c \in Actions
  <2>1. pending'[c] = after[c]
    BY <1>6, <1>11, <1>12, <1>14
  <2>2. CASE now = was
    <3>1. pending'[c] = x
      BY <1>9, <2>1, <2>2
    <3> QED
      BY <1>1, <2>2, <3>1
  <2>3. CASE now # was
    <3>1. ~over /\ c \notin done /\ pending'[c] = x
      BY <1>9, <1>14, <2>1, <2>3
    <3>2. ~(x.scope = now.scope /\ x.complete /\ Reached(x.kind, shown))
      BY <1>3, <1>8, <3>1
    <3>3. now.scope = was.scope /\ now.backend = "running" /\ now.connection = "streaming"
      BY <1>2, <1>7, <3>1 DEF Streams
    <3>4. ASSUME Kept(x) PROVE Owed(x, now)
      <4>1. x.scope = now.scope
        BY <1>1, <3>3, <3>4 DEF Owed, AliveIn
      <4> QED
        BY <1>4, <3>2, <3>3, <4>1 DEF Owed, AliveIn
    <3> QED
      BY <1>1, <3>1, <3>4
  <2> QED
    BY <2>2, <2>3
<1> QED
  BY <1>10, <1>13, <1>14
-----------------------------------------------------------------------------
(* The controls' buttons: every step, and what is left when all is quiet *)

LEMMA EffectsEndWell ==
  ASSUME ControlsInvariant, ButtonsAreRight, ControlsEffects
  PROVE  ButtonsAreRight'
<1>1. /\ due # 0 /\ due' = 0
      /\ UNCHANGED <<peer, clock, mail, app, shown, calls, ops, inbox, biased>>
  BY DEF ControlsEffects, world
<1>2. PICK now : now = Dependencies(shown) /\ now = Dependencies(shown')
  BY <1>1
<1>3. Scope(app)' = Scope(app) /\ Behind' = Behind /\ Sight(app') = Sight(app)
  BY <1>1 DEF Scope, Behind
<1>4. Guides(mail, Sight(app), Behind)' /\ PeerRests' /\ KindsAreRight'
  BY <1>1, <1>3 DEF ButtonsAreRight, PeerRests, KindsAreRight
<1>5. /\ DOMAIN pending = Actions \union {"connection"}
      /\ pending = [c \in DOMAIN pending |-> pending[c]]
  BY DEF ControlsInvariant, ControlsAreRight, EntriesAreRight
<1>6. DOMAIN pending' = DOMAIN pending /\ \A c \in DOMAIN pending :
        pending'[c] # NoEntry => pending'[c] = pending[c]
  <2>1. PICK after : after = AfterActions.pending
    OBVIOUS
  <2>2. pending' = [after EXCEPT !["connection"] = IF ConnectionEnds THEN NoEntry ELSE after["connection"]]
    BY <2>1, Zenon DEF ControlsEffects
  <2>3. DOMAIN after = DOMAIN pending /\ \A c \in DOMAIN pending : after[c] # NoEntry => after[c] = pending[c]
    <3>1. CASE Dependencies(shown) = effected.now
      BY <2>1, <3>1 DEF AfterActions
    <3>2. CASE Dependencies(shown) # effected.now
      BY <2>1, <3>2 DEF AfterActions
    <3> QED
      BY <3>1, <3>2
  <2> QED
    BY <2>2, <2>3
<1>7. ASSUME NEW c \in DOMAIN pending, NEW x, x = pending[c], pending'[c] = x, EntryStands(c, x),
             pending'[c] # NoEntry
      PROVE  EntryStands(c, x)'
  <2>1. IsEntry(c, x)
    BY <1>7 DEF EntryStands
  <2>2. IsEntry(c, x)'
    BY <1>1, <1>3, <2>1 DEF IsEntry, Apart
  <2>3. Kept(x) => Owed(x, Dependencies(shown)) \/ Owed(x, effected.now)
    BY <1>7 DEF EntryStands, IsOwed
  <2>4. Kept(x) => Owed(x, Dependencies(shown))
    BY <1>5, <1>7, <2>1, <2>3, EffectsLeave
  <2>5. Kept(x) => IsOwed(x)'
    <3>1. Kept(x) => Owed(x, Dependencies(shown'))
      BY <1>2, <2>4
    <3> QED
      BY <3>1 DEF IsOwed, Owed, AliveIn, ReachedIn, Dependencies
  <2>6. ASSUME Kept(x), Expected(x)' PROVE InPhase(x, ops[Channel(x.kind)])'
    <3>1. Expected(x)
      BY <1>1, <1>2, <1>3, <2>6 DEF Expected, Lasts
    <3>2. PICK o : o = ops[Channel(x.kind)] /\ o = ops'[Channel(x.kind)]
      BY <1>1
    <3>3. InPhase(x, o)
      BY <1>7, <2>6, <3>1, <3>2 DEF EntryStands
    <3>4. InPhase(x, o)'
      BY <1>1, <3>3 DEF InPhase, Waits, IsAnswered, Fulfilled, Behind, ReachedIn, StopsComeFirst
    <3> QED
      BY <3>2, <3>4
  <2> QED
    BY <2>2, <2>5, <2>6 DEF EntryStands
<1>8. ASSUME NEW c \in DOMAIN pending', pending'[c] # NoEntry PROVE EntryStands(c, pending[c])'
  <2>1. PICK x : x = pending[c] /\ x = pending'[c]
    BY <1>6, <1>8
  <2>2. EntryStands(c, x)
    BY <1>6, <1>8, <2>1 DEF ButtonsAreRight
  <2>3. EntryStands(c, x)'
    BY <1>6, <1>7, <1>8, <2>1, <2>2
  <2> QED
    BY <2>1, <2>3
<1>9. Kept(pending'["stop"]) => ops'["record"] = NoOp
  <2>1. "stop" \in DOMAIN pending
    BY <1>5 DEF Actions
  <2>2. Kept(pending'["stop"]) => Kept(pending["stop"])
    BY <1>6, <2>1 DEF Kept
  <2> QED
    BY <1>1, <2>2 DEF ButtonsAreRight
<1> QED
  BY <1>4, <1>8, <1>9 DEF ButtonsAreRight

LEMMA ButtonsStep ==
  ASSUME ControlsInvariant, ButtonsAreRight, ControlsNext
  PROVE  ButtonsAreRight'
<1>1. CASE Click \/ MenuChosen
  BY <1>1, GivenAlone, GivenEndsWell
<1>2. CASE \/ DialogAnswered \/ HostStored \/ Executes \/ Answered \/ Unasked \/ CompanionDies
           \/ TakeMail \/ RenderControls \/ ControlsEffects
  BY <1>2, DialogEndsWell, HostEndsWell, CommandEndsWell, AnswerEndsWell, UnaskedEndsWell,
     DeathEndsWell, MailEndsWell, RenderEndsWell, EffectsEndWell
<1> QED
  BY <1>1, <1>2 DEF ControlsNext

\* Nothing that was asked and carried out is left to wait for.
LEMMA NoneIsLeft ==
  ASSUME ControlsInvariant, ButtonsAreRight, Quiet, NEW c \in DOMAIN pending,
         pending[c] # NoEntry, NEW x, x = pending[c], Kept(x)
  PROVE  FALSE
<1>1. /\ app = shown /\ due = 0 /\ mail = <<>> /\ inbox = <<>> /\ \A d \in Channels : ops[d] = NoOp
  BY DEF Quiet, Shown
<1>2. PICK d : d = Dependencies(shown)
  OBVIOUS
<1>3. /\ d.scope = Scope(app) /\ d.connection = app.connection /\ d.paused = app.paused
      /\ d.recording = app.recording.state
  BY <1>1, <1>2 DEF Dependencies
<1>4. EntryStands(c, x) /\ IsEntry(c, x) /\ x.kind \in Kinds
  BY DEF ButtonsAreRight, EntryStands, IsEntry
<1>5. Owed(x, d)
  BY <1>1, <1>2, <1>4 DEF EntryStands, IsOwed
<1>6. \A e \in ToSet(mail) : FALSE
  BY <1>1 DEF ToSet
<1>7. Expected(x)
  BY <1>2, <1>3, <1>5, <1>6 DEF Expected, Owed, AliveIn, Lasts
<1>8. ops[Channel(x.kind)] = NoOp
  BY <1>1, <1>4, ChannelsAre
<1>9. IsAnswered(x, NoOp)
  BY <1>4, <1>7, <1>8 DEF EntryStands, InPhase, Waits
<1>10. x.complete = TRUE /\ Fulfilled(x.kind)
  BY <1>6, <1>9 DEF IsAnswered
<1>11. ~ReachedIn(x.kind, d) /\ AliveIn(x, d)
  BY <1>5, <1>10 DEF Owed
<1>12. PICK v, w : v = Sight(app) /\ w = Behind
  OBVIOUS
<1>13. v = w
  <2>1. PICK views : views[0] = v /\ views[Len(mail)] = w
    BY <1>12 DEF ButtonsAreRight, Guides
  <2> QED
    BY <1>1, <2>1
<1>14. /\ v.connection = app.connection /\ v.paused = app.paused
       /\ v.recording = app.recording.state /\ w.connection = peer.link
  BY <1>12, ViewIs DEF Sight, Behind
<1>15. ReachedIn(x.kind, w) <=> ReachedIn(x.kind, d)
  BY <1>3, <1>13, <1>14 DEF ReachedIn
<1>16. peer.link = "disconnected" /\ x.kind # "connect"
  BY <1>10, <1>11, <1>12, <1>15 DEF Fulfilled
<1>17. d.connection = "disconnected"
  BY <1>3, <1>13, <1>14, <1>16
<1>18. CASE x.kind = "disconnect"
  BY <1>11, <1>17, <1>18 DEF ReachedIn
<1>19. CASE x.kind # "disconnect"
  <2>1. Slot(x.kind) # "connection"
    BY <1>4, <1>16, <1>19 DEF Slot, Kinds
  <2> QED
    BY <1>11, <1>17, <2>1 DEF AliveIn
<1> QED
  BY <1>18, <1>19

LEMMA ButtonsStart ==
  ASSUME NEW events \in {<<>>, BackendUp, SensorUp}, NEW prefs, LiveInit(prefs, events),
         NEW asked \in SUBSET {"bias"}, ControlsInit(asked)
  PROVE  ButtonsAreRight /\ \A c \in DOMAIN pending : pending[c] = NoEntry
<1>1. /\ DisplayInvariant /\ mail = <<>> /\ app.paused = FALSE
      /\ app.recording = EmptyRecording /\ app.connection = peer.link
      /\ peer.paused = FALSE /\ peer.recording = "idle"
  BY LiveStarts
<1>2. PeerRests
  BY <1>1 DEF PeerRests, DisplayInvariant, PeerIsRight
<1>3. PICK v : v = View(peer.link, peer.paused, "idle")
  OBVIOUS
<1>4. EmptyRecording.state = "idle"
  BY DEF EmptyRecording
<1>5. Sight(app) = v /\ Behind = v
  BY <1>1, <1>3, <1>4 DEF Sight, Behind
<1>6. Guides(mail, Sight(app), Behind)
  BY <1>1, <1>5, GuideNothing
<1>7. /\ pending = [c \in Actions \union {"connection"} |-> NoEntry]
      /\ ops = [c \in Channels |-> IF c \in asked THEN [step |-> "asked", kind |-> c,
                                                         callers |-> {}, result |-> "none"]
                                   ELSE NoOp]
  BY DEF ControlsInit
<1>8. KindsAreRight
  <2>1. ASSUME NEW c \in Channels, ops[c] # NoOp
        PROVE  ops[c].kind \in Kinds /\ Channel(ops[c].kind) = c
    <3>1. c = "bias"
      BY <1>7, <2>1
    <3>2. PICK o : o = [step |-> "asked", kind |-> c, callers |-> {}, result |-> "none"]
      OBVIOUS
    <3>3. ops[c] = o /\ o.kind = c
      BY <1>7, <2>1, <3>2
    <3> QED
      BY <3>1, <3>3 DEF Kinds, Channel
  <2> QED
    BY <2>1 DEF KindsAreRight
<1>9. \A c \in DOMAIN pending : pending[c] = NoEntry
  BY <1>7
<1>10. pending["stop"] = NoEntry
  BY <1>7 DEF Actions
<1> QED
  BY <1>2, <1>6, <1>8, <1>9, <1>10 DEF ButtonsAreRight, Kept

\* The buttons, where they are pressed.
ButtonsInvariant ==
  IF scene = "controls" THEN ControlsInvariant /\ ButtonsAreRight
  ELSE \A c \in DOMAIN pending : pending[c] = NoEntry

LEMMA ButtonsInit ==
  ASSUME Init
  PROVE  ButtonsInvariant
<1>1. PICK events \in {<<>>, BackendUp, SensorUp} :
        /\ LiveInit(Defaults, events)
        /\ ControlsInit(IF scene = "controls" /\ events = SensorUp THEN {"bias"} ELSE {})
  BY DEF Init
<1>2. PICK asked : /\ asked = IF scene = "controls" /\ events = SensorUp THEN {"bias"} ELSE {}
                   /\ ControlsInit(asked)
  BY <1>1
<1>3. asked \in SUBSET {"bias"}
  BY <1>2
<1>4. ControlsInvariant
  BY <1>1, <1>2, ControlsStart
<1>5. ButtonsAreRight /\ \A c \in DOMAIN pending : pending[c] = NoEntry
  BY <1>1, <1>2, <1>3, ButtonsStart
<1> QED
  BY <1>4, <1>5 DEF ButtonsInvariant

LEMMA ButtonsRest ==
  ASSUME ButtonsAreRight,
         UNCHANGED <<peer, clock, mail, app, shown, due, pending, effected, calls, ops, inbox, biased>>
  PROVE  ButtonsAreRight'
<1>1. /\ Guides(mail, Sight(app), Behind)' /\ PeerRests' /\ KindsAreRight'
      /\ (Kept(pending'["stop"]) => ops'["record"] = NoOp)
  BY DEF ButtonsAreRight, PeerRests, KindsAreRight, Kept, Behind
<1>2. ASSUME NEW c, NEW x, EntryStands(c, x) PROVE EntryStands(c, x)'
  <2>1. IsEntry(c, x)'
    BY <1>2 DEF EntryStands, IsEntry, Apart
  <2>2. Kept(x) => IsOwed(x)'
    BY <1>2 DEF EntryStands, IsOwed
  <2>3. ASSUME Kept(x), Expected(x)' PROVE InPhase(x, ops[Channel(x.kind)])'
    <3>1. Expected(x)
      BY <2>3 DEF Expected, Lasts
    <3>2. PICK o : o = ops[Channel(x.kind)] /\ o = ops'[Channel(x.kind)]
      OBVIOUS
    <3>3. InPhase(x, o)
      BY <1>2, <2>3, <3>1, <3>2 DEF EntryStands
    <3>4. InPhase(x, o)'
      BY <3>3 DEF InPhase, Waits, IsAnswered, Fulfilled, Behind, ReachedIn, StopsComeFirst
    <3> QED
      BY <3>2, <3>4
  <2> QED
    BY <2>1, <2>2, <2>3 DEF EntryStands
<1>3. ASSUME NEW c \in DOMAIN pending', pending'[c] # NoEntry PROVE EntryStands(c, pending[c])'
  <2>1. PICK x : x = pending[c] /\ x = pending'[c]
    OBVIOUS
  <2>2. EntryStands(c, x)
    BY <1>3, <2>1 DEF ButtonsAreRight
  <2>3. EntryStands(c, x)'
    BY <1>2, <2>2
  <2> QED
    BY <2>1, <2>3
<1> QED
  BY <1>1, <1>3 DEF ButtonsAreRight

LEMMA ButtonsGoOn ==
  ASSUME FeedbackInvariant, ButtonsInvariant, [Next]_vars
  PROVE  ButtonsInvariant'
<1>1. FeedbackInvariant'
  BY FeedbackStep
<1>2. CASE Only("controls") /\ ControlsNext
  <2>1. scene = "controls" /\ scene' = scene
    BY <1>2 DEF Only
  <2>2. ButtonsAreRight'
    BY <1>2, <2>1, ButtonsStep DEF ButtonsInvariant
  <2> QED
    BY <1>1, <2>1, <2>2 DEF ButtonsInvariant, FeedbackInvariant
<1>3. CASE \E part \in Scenes \ {"controls"} : Only(part)
  <2>1. scene # "controls" /\ scene' = scene /\ pending' = pending
    BY <1>3 DEF Only, controlVars, renderer
  <2> QED
    BY <2>1 DEF ButtonsInvariant
<1>4. CASE UNCHANGED vars
  <2>1. scene' = scene
    BY <1>4 DEF vars
  <2>2. CASE scene = "controls"
    <3>1. /\ UNCHANGED liveVars
          /\ UNCHANGED <<pending, calls, effected, ops, inbox, biased>>
      BY <1>4 DEF vars, controlVars, renderer, main
    <3>2. UNCHANGED <<peer, clock, mail, app, shown, due, pending, effected, calls, ops, inbox,
                      biased>>
      BY <3>1 DEF liveVars, world
    <3>3. ButtonsAreRight'
      BY <2>2, <3>2, ButtonsRest DEF ButtonsInvariant
    <3> QED
      BY <1>1, <2>1, <2>2, <3>3 DEF ButtonsInvariant, FeedbackInvariant
  <2>3. CASE scene # "controls"
    BY <1>4, <2>1, <2>3 DEF ButtonsInvariant, vars, controlVars, renderer
  <2> QED
    BY <2>2, <2>3
<1> QED
  BY <1>2, <1>3, <1>4, Zenon DEF Next, Scenes

\* Once everything asked has been answered, and what is known is shown and has had its
\* effects, no control waits any more for a command that was given while there was something
\* to carry it out, its request its own: for commands, answers, events, failures and new
\* sessions in any number and order, the state a command asked for before its answer or after.
THEOREM ButtonsAreBack == Spec => []ButtonsComeBack
<1>1. ButtonsInvariant => ButtonsComeBack
  <2> SUFFICES ASSUME ButtonsInvariant, Quiet, NEW c \in DOMAIN pending, pending[c] # NoEntry
               PROVE  ~pending[c].began \/ ~pending[c].live
    BY DEF ButtonsComeBack
  <2>1. ControlsInvariant /\ ButtonsAreRight
    BY DEF ButtonsInvariant
  <2>2. PICK x : x = pending[c]
    OBVIOUS
  <2>3. ~Kept(x)
    BY <2>1, <2>2, NoneIsLeft
  <2>4. x.live \in BOOLEAN /\ x.began \in BOOLEAN
    BY <2>1, <2>2 DEF ButtonsAreRight, EntryStands, IsEntry
  <2> QED
    BY <2>2, <2>3, <2>4 DEF Kept
<1>2. FeedbackInvariant /\ [Next]_vars => FeedbackInvariant'
  BY FeedbackStep
<1>3. FeedbackInvariant /\ ButtonsInvariant /\ [Next]_vars => ButtonsInvariant'
  BY ButtonsGoOn
<1> QED
  BY FeedbackInit, ButtonsInit, <1>1, <1>2, <1>3, PTL DEF Spec
=============================================================================

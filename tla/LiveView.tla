------------------------------ MODULE LiveView ------------------------------
(***************************************************************************)
(* The renderer from the events it is sent to what it shows: the frame     *)
(* scheduler, the reducer and the plot.  Three copies of the state are     *)
(* never quite equal: what has been dispatched (app), what React has       *)
(* rendered (shown) and what the effects of a render have seen; the plot   *)
(* is told of events by a sink as they come, and again by its effects.     *)
(* A task, a frame, a render and the effects of a render are a step each;  *)
(* effects run before the next render, and may run long after theirs.      *)
(*                                                                         *)
(* The supervisor and the companion are their events, in the order of      *)
(* CompanionSupervisor and Session; e.cuts says what an event ends.        *)
(***************************************************************************)
EXTENDS AppState, ChartModel

CONSTANTS MaxEvents,  \* bound: the stamps of the events
          MaxMail,    \* bound: events on their way to the renderer
          MaxLag,     \* bound: events taken between a render and its effects
          PlotAxis    \* the axis whose points stand for all

VARIABLES
  peer,     \* what the supervisor and the session are in
  clock,    \* the stamp of the last event
  mail,     \* events sent and not yet taken
  app,      \* the reducer's state, everything dispatched
  shown,    \* state as rendered, and stateRef
  due,      \* 0, or the effects of that render are still to run
  sample,   \* scheduler: latestWrench, 0 for none
  frame,    \* scheduler: frameHandle is set
  callback, \* a frame will call flush
  mounted,  \* whether ChartWorkspace is mounted and its sink registered
  chart,    \* modelRef
  boundary, \* previousBoundaryRef
  appended, \* lastAppendedBatchRef, 0 for null
  seen,     \* what the plot's effects and its sink's closure last saw
  past      \* history: stamps of the last event that ended a scope of each kind

world     == <<peer, clock>>
scheduler == <<sample, frame, callback>>
plot      == <<mounted, chart, boundary, appended, seen>>
liveVars  == <<world, mail, app, shown, due, scheduler, plot, past>>

Boundary(s) ==
  [epoch |-> s.backend.at, revision |-> s.configuration.revision,
   generation |-> s.generation, connection |-> s.connection, paused |-> s.paused]

Seen(s) == [connection |-> s.connection, paused |-> s.paused,
            batch |-> s.plot.batch]

\* The state after a sequence of events.
Reduced(s, events) ==
  LET after[i \in 0..Len(events)] == IF i = 0 THEN s ELSE Reduce(after[i - 1], events[i])
  IN after[Len(events)]

\* A viewer that shows what these events made of it: none, that the backend runs,
\* or that it runs and a sensor began to stream.
LiveInit(prefs, events) ==
  /\ peer = [backend |-> IF events = <<>> THEN "starting" ELSE "running",
             link |-> IF Len(events) < 3 THEN "disconnected" ELSE "streaming",
             generation |-> IF Len(events) < 3 THEN 0 ELSE 1,
             paused |-> FALSE, revision |-> 0, errors |-> 0, rejects |-> 0,
             recording |-> "idle"]
  /\ clock = Len(events) /\ mail = <<>>
  /\ app = Reduced(InitialAppState(prefs), events)
  /\ shown = app /\ due = 0
  /\ sample = 0 /\ frame = FALSE /\ callback = FALSE
  /\ mounted = TRUE /\ chart = NewChart(prefs.window)
  /\ boundary = Boundary(app) /\ appended = 0 /\ seen = Seen(app)
  /\ past = [k \in {"scope", "stream", "plot", "sensor", "pause", "error"} |->
               Max({0} \union {i \in DOMAIN events : k \in events[i].cuts})]
-----------------------------------------------------------------------------
(* What is sent *)

Renderer == <<app, shown, due, scheduler, plot, past>>

\* An event and its stamp.
At(n, e) == [f \in DOMAIN e \union {"at"} |-> IF f = "at" THEN n ELSE e[f]]

\* Events whose stamps follow each other.
Sends(es) ==
  /\ clock + Len(es) <= MaxEvents /\ Len(mail) + Len(es) <= MaxMail
  /\ clock' = clock + Len(es)
  /\ mail' = mail \o [i \in DOMAIN es |-> At(clock + i, es[i])]
  /\ UNCHANGED Renderer

BackendEvent(state) ==
  [type |-> "backend_state", state |-> state, error |-> "",
   cuts |-> {"scope", "plot"} \union
            IF state = "running" THEN {} ELSE {"stream", "sensor"}]

NoLink == [peer EXCEPT !.link = "disconnected", !.generation = 0,
                       !.paused = FALSE, !.revision = 0, !.errors = 0,
                       !.rejects = 0, !.recording = "idle"]

BackendRuns ==
  /\ peer.backend = "starting"
  /\ peer' = [NoLink EXCEPT !.backend = "running"]
  /\ Sends(<<BackendEvent("running")>>)

\* handleTermination, or stop.
BackendEnds(next) ==
  /\ peer.backend = "running"
  /\ peer' = [NoLink EXCEPT !.backend = next]
  /\ Sends(<<[type |-> "backend_disconnected", restart |-> next = "starting",
              cuts |-> {"scope", "stream", "plot", "sensor"}],
             BackendEvent(next)>>)

BackendRetried ==
  /\ peer.backend = "failed"
  /\ peer' = [peer EXCEPT !.backend = "starting"]
  /\ Sends(<<BackendEvent("starting")>>)

\* Where the link goes by itself once it was begun.  A session in error begins no
\* other connection, and the interface then offers no way to disconnect.
LinkSteps == {<<"connecting", "streaming">>, <<"connecting", "error">>,
              <<"streaming", "reconnecting">>, <<"reconnecting", "streaming">>,
              <<"streaming", "error">>, <<"reconnecting", "error">>}

LinkEvent(state, gen, paused) ==
  [type |-> "connection_state", state |-> state, gen |-> gen, paused |-> paused,
   error |-> "",
   cuts |-> {"scope"}
     \union (IF state \in {"connecting", "reconnecting", "disconnected"}
             THEN {"stream"} ELSE {})
     \union (IF state # "streaming" THEN {"plot"} ELSE {})
     \union (IF state \in {"connecting", "disconnected"} THEN {"sensor"} ELSE {})]

LinkChanges(link) ==
  /\ peer.backend = "running" /\ <<peer.link, link>> \in LinkSteps
  /\ peer' = [peer EXCEPT !.link = link]
  /\ Sends(<<LinkEvent(link, peer.generation, peer.paused)>>)

\* connect, which a session accepts only when it is disconnected.  Its configurations
\* are numbered anew, its errors are not.
LinkBegins ==
  /\ peer.backend = "running" /\ peer.link = "disconnected"
  /\ peer' = [peer EXCEPT !.link = "connecting", !.generation = @ + 1, !.revision = 0]
  /\ Sends(<<LinkEvent("connecting", peer.generation + 1, FALSE)>>)

\* disconnect
LinkEnds ==
  /\ peer.link \in {"connecting", "streaming", "reconnecting"}
  /\ peer' = [peer EXCEPT !.link = "disconnected", !.paused = FALSE]
  /\ Sends(<<LinkEvent("disconnecting", peer.generation, FALSE),
             LinkEvent("disconnected", peer.generation, FALSE)>>)

\* set_paused
PauseChanges ==
  /\ peer.link = "streaming"
  /\ peer' = [peer EXCEPT !.paused = ~@]
  /\ Sends(<<[LinkEvent("streaming", peer.generation, ~peer.paused) EXCEPT
               !.cuts = @ \union IF peer.paused THEN {"pause"} ELSE {}]>>)

\* A session publishes the configuration it finds when it connects, and one it finds
\* later, in mid-stream or not.
Configured ==
  /\ peer.link # "disconnected"
  /\ peer' = [peer EXCEPT !.revision = @ + 1]
  /\ Sends(<<[type |-> "configuration_changed", revision |-> peer.revision + 1,
              cuts |-> {"scope"}]>>)

Measured(type) ==
  /\ peer.link = "streaming" /\ ~peer.paused
  /\ UNCHANGED peer
  /\ Sends(<<[type |-> type, cuts |-> {}]>>)

\* The session numbers its errors, and the companion those of the lines it rejects;
\* both begin with the companion's process, and neither anew with a connection.
Complained(counter) ==
  /\ peer.backend = "running"
  /\ peer' = [peer EXCEPT ![counter] = @ + 1]
  /\ Sends(<<[type |-> "error", sequence |-> peer[counter] + 1, error |-> "failed",
              operation |-> "recording", cuts |-> {}]>>)

\* What may have been sent when the operator comes: that the backend runs, and that
\* a sensor streams.
BackendUp == <<At(1, BackendEvent("running"))>>
SensorUp  == <<At(1, BackendEvent("running")), At(2, LinkEvent("connecting", 1, FALSE)),
               At(3, LinkEvent("streaming", 1, FALSE))>>

World ==
  \/ BackendRuns \/ BackendRetried \/ LinkBegins \/ LinkEnds
  \/ PauseChanges \/ Configured
  \/ \E next \in {"starting", "stopped", "failed"} : BackendEnds(next)
  \/ \E link \in Connections : LinkChanges(link)
  \/ \E type \in {"live_wrench", "plot_batch"} : Measured(type)
  \/ \E counter \in {"errors", "rejects"} : Complained(counter)
-----------------------------------------------------------------------------
(* ChartWorkspace's sink *)

ResetPlot  == chart' = Cleared(chart)
AppendPlot(at) ==
  chart' = Appended(chart, <<[axis |-> PlotAxis, time |-> at, value |-> 1]>>)

\* Mutant: the plot of another connection is kept.
SinkConnection_keeps(e) ==
  LET resumed == boundary.paused /\ ~e.paused
  IN /\ boundary' = [boundary EXCEPT !.generation = e.gen, !.connection = e.state,
                                     !.paused = e.paused]
     /\ IF resumed THEN ResetPlot /\ appended' = seen.batch
                   ELSE UNCHANGED <<chart, appended>>

SinkConnection(e) ==
  LET resumed == boundary.paused /\ ~e.paused
      resets  == e.gen # boundary.generation \/ e.state # "streaming" \/ resumed
  IN /\ boundary' = [boundary EXCEPT !.generation = e.gen, !.connection = e.state,
                                     !.paused = e.paused]
     /\ IF resets THEN ResetPlot ELSE UNCHANGED chart
     /\ appended' = IF resumed THEN seen.batch ELSE appended

SinkBackend(e) ==
  /\ boundary' = IF e.type = "backend_state" /\ e.state = "running"
                 THEN [boundary EXCEPT !.epoch = e.at]
                 ELSE [epoch |-> e.at, revision |-> 0, generation |-> 0,
                       connection |-> "disconnected", paused |-> FALSE]
  /\ ResetPlot /\ UNCHANGED appended

SinkConfiguration(e) ==
  IF e.revision = boundary.revision THEN UNCHANGED <<boundary, chart, appended>>
  ELSE /\ boundary' = [boundary EXCEPT !.revision = e.revision]
       /\ ResetPlot /\ UNCHANGED appended

SinkBatch(e) ==
  /\ UNCHANGED boundary
  /\ IF boundary.connection # "streaming" \/ boundary.paused
     THEN UNCHANGED <<chart, appended>>
     ELSE AppendPlot(e.at) /\ appended' = e.at

\* consumeRendererEvent, while it is registered.
Sink(e) ==
  /\ UNCHANGED <<mounted, seen>>
  /\ IF ~mounted THEN UNCHANGED <<chart, boundary, appended>>
     ELSE CASE e.type \in {"backend_disconnected", "backend_state"} -> SinkBackend(e)
            [] e.type = "connection_state"      -> SinkConnection(e)
            [] e.type = "configuration_changed" -> SinkConfiguration(e)
            [] e.type = "plot_batch"            -> SinkBatch(e)
            [] OTHER -> UNCHANGED <<chart, boundary, appended>>
-----------------------------------------------------------------------------
(* The scheduler *)

Dispatch(e) == Sink(e) /\ app' = Reduce(app, e)

\* revokePendingWrench.  A cancelled frame does not call: frameGeneration, which
\* would make such a call do nothing, is left out.
Revoke == sample' = 0 /\ frame' = FALSE /\ callback' = FALSE

\* Mutant: a change of the configuration is not taken for a boundary.
IsScopeBoundary_configuration(e) ==
  e.type \in {"connection_state", "backend_disconnected", "backend_state"}

IsScopeBoundary(e) ==
  e.type \in {"configuration_changed", "connection_state",
              "backend_disconnected", "backend_state"}

\* push
TakeEvent ==
  /\ mail # <<>> /\ mail' = Tail(mail)
  /\ due <= MaxLag /\ due' = IF due = 0 THEN 0 ELSE due + 1
  /\ LET e == Head(mail)
     IN /\ past' = [k \in DOMAIN past |->
                      IF k \in e.cuts \/ k = e.type THEN e.at ELSE past[k]]
        /\ IF e.type = "live_wrench"
           THEN /\ sample' = e.at /\ frame' = TRUE
                /\ callback' = (callback \/ ~frame)
                /\ UNCHANGED <<app, plot>>
           ELSE /\ IF IsScopeBoundary(e) THEN Revoke ELSE UNCHANGED scheduler
                /\ Dispatch(e)
  /\ UNCHANGED <<world, shown>>

\* flush
Frame ==
  /\ callback /\ callback' = FALSE /\ frame' = FALSE /\ sample' = 0
  /\ IF sample = 0 THEN UNCHANGED app
     ELSE app' = Reduce(app, [type |-> "live_wrench", at |-> sample])
  /\ UNCHANGED <<world, mail, shown, due, plot, past>>
-----------------------------------------------------------------------------
(* React *)

Render ==
  /\ app # shown /\ due = 0
  /\ shown' = app /\ due' = 1
  /\ UNCHANGED <<world, mail, app, scheduler, plot, past>>

\* The effect of a boundary that is not the one seen last.
BoundaryEffect(s, previous, model, last) ==
  LET now == Boundary(s)
      changed == \/ previous.epoch # now.epoch \/ previous.revision # now.revision
                 \/ previous.generation # now.generation
      unavailable == now.connection # "streaming"
      resumed == previous.paused /\ ~now.paused
  IN IF previous # now /\ (changed \/ unavailable \/ resumed)
     THEN [chart |-> Cleared(model),
           last  |-> IF unavailable \/ resumed \/ s.plot.batch <= s.connectionAt
                     THEN s.plot.batch ELSE 0]
     ELSE [chart |-> model, last |-> last]

\* What mounting ChartWorkspace begins with, else what it has.
Before == IF mounted THEN [boundary |-> boundary, chart |-> chart, last |-> appended]
          ELSE [boundary |-> Boundary(shown), last |-> 0,
                chart |-> NewChart(shown.preferences.window)]

\* The effects of the plot's render in their order: the sink is registered anew,
\* the boundary, the batch.
PlotEffects ==
  LET b == Before
      r == BoundaryEffect(shown, b.boundary, b.chart, b.last)
      batch == shown.plot.batch
      appends == /\ ~mounted \/ seen # Seen(shown)
                 /\ batch # 0 /\ batch # r.last /\ Live(shown)
  IN /\ boundary' = Boundary(shown)
     /\ appended' = IF appends THEN batch ELSE r.last
     /\ chart' = IF ~appends THEN r.chart
                 ELSE Appended(r.chart, <<[axis |-> PlotAxis, time |-> batch,
                                           value |-> 1]>>)

\* A backend that failed is shown instead of the plot.
Effects ==
  /\ due # 0 /\ due' = 0
  /\ seen' = Seen(shown) /\ mounted' = (shown.backend.state # "failed")
  /\ IF mounted' THEN PlotEffects ELSE UNCHANGED <<chart, boundary, appended>>
  /\ UNCHANGED <<world, mail, app, shown, scheduler, past>>

LiveNext == World \/ TakeEvent \/ Frame \/ Render \/ Effects
-----------------------------------------------------------------------------
\* app-state.test.ts and event-scheduler.test.ts: a sample is never shown that was
\* measured before the last event that ended its stream, and none is newly shown
\* that crossed an event the scheduler takes for a boundary, a change of the
\* configuration included, whatever waited for a frame meanwhile; and what still
\* waits has a frame coming that will show it.
WrenchIsCurrent ==
  /\ [](sample # 0 => callback)
  /\ [](app.wrench.at # 0 => app.wrench.at > past.stream)
  /\ [][app'.wrench.at \notin {0, app.wrench.at} =>
          app'.wrench.at > past.scope]_liveVars

\* ChartWorkspace.tsx:277: once the effects have run the plot holds nothing that
\* was measured before the last change of backend or connection, and of before the
\* last interruption at most one batch, which an effect that had been waiting may
\* append after the sink has cleared the plot: whatever the effects of earlier renders
\* and the sink have done to it in which order.
Settled == app = shown /\ due = 0 /\ mounted
PlotIsOfOneSession ==
  Settled => /\ \A t \in Times(chart) : t > past.sensor
             /\ \A t, u \in Times(chart) : t <= past.plot /\ u <= past.plot => t = u

\* chart-workspace.test.tsx:255 "freezes data on pause, clears it on resume, and
\* accepts only new samples".
PlotIsOfAfterTheResume == Settled => \A t \in Times(chart) : t > past.pause

\* Two numberings of errors reach the viewer, and neither begins again with a
\* connection: the first error after a change of backend or connection is shown,
\* whichever of them it is of and whatever was shown before.
ErrorsOfANewSensorAreShown ==
  [][\A i \in {1} \intersect DOMAIN mail :
       mail' = Tail(mail) /\ mail[i].type = "error" /\ past.error <= past.sensor
         => app'.errorSequence = mail[i].sequence]_liveVars
=============================================================================

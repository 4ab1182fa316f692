------------------------------ MODULE AppState ------------------------------
(***************************************************************************)
(* The state the renderer shows and appReducer, which takes it from one    *)
(* event to the next (app/renderer/model/app-state.ts).  The companion and *)
(* the supervisor stamp events with one monotonic clock; stamps, sequences *)
(* and generations are numbers here, 0 where the code starts from "0" or   *)
(* null.  A measurement is its stamp: its values, units and rates are      *)
(* only shown.                                                             *)
(***************************************************************************)
EXTENDS Naturals, FiniteSets

Backends    == {"stopped", "starting", "running", "stopping", "failed"}
Connections == {"disconnected", "connecting", "streaming", "reconnecting",
                "disconnecting", "error"}
Recordings  == {"idle", "starting", "recording", "pausing", "paused",
                "stopping", "error"}

Idle == {"idle", "error"}  \* the states in which nothing is being recorded

EmptyHealth        == [state |-> "stopped", host |-> "", error |-> "", at |-> 0]
EmptyWrench        == [at |-> 0]
EmptyPlot          == [batch |-> 0, at |-> 0]
EmptyConfiguration == [available |-> FALSE, revision |-> 0, at |-> 0]
EmptyRecording     == [state |-> "idle", path |-> "", error |-> "",
                       startedAt |-> 0, elapsed |-> 0, at |-> 0]

IsNewer(candidate, current) == candidate > current

InitialAppState(prefs) ==
  [backend |-> [state |-> "starting", restart |-> TRUE, error |-> "", at |-> 0],
   connection |-> "disconnected", generation |-> 0, connectionAt |-> 0,
   paused |-> FALSE, sensorHost |-> prefs.sensorHost,
   health |-> EmptyHealth, wrench |-> EmptyWrench,
   recording |-> EmptyRecording, plot |-> EmptyPlot,
   configuration |-> EmptyConfiguration, preferences |-> prefs,
   partialPath |-> "", settingsError |-> FALSE, errorSequence |-> 0]
-----------------------------------------------------------------------------
(* What ends with a sensor, a stream, a session, a backend *)

\* Mutant: the errors of another sensor still count.
ClearSensorIdentity_errors(s) ==
  [s EXCEPT !.health = [EmptyHealth EXCEPT !.state = s.health.state],
            !.wrench = EmptyWrench, !.plot = EmptyPlot,
            !.configuration = EmptyConfiguration]

ClearSensorIdentity(s) ==
  [s EXCEPT !.health = [EmptyHealth EXCEPT !.state = s.health.state],
            !.wrench = EmptyWrench, !.plot = EmptyPlot,
            !.configuration = EmptyConfiguration, !.errorSequence = 0]

ClearTransientMeasurement(s) ==
  [s EXCEPT !.wrench = EmptyWrench, !.plot = EmptyPlot]

ClearLiveSession(s) ==
  [ClearSensorIdentity(s) EXCEPT !.paused = FALSE,
                                 !.health.state = "stopped",
                                 !.recording = EmptyRecording]

ClearBackendSession(s) ==
  [ClearLiveSession(s) EXCEPT !.connection = "disconnected",
                              !.generation = 0, !.connectionAt = 0]
-----------------------------------------------------------------------------
(* One event *)

ReduceDisconnected(s, e) ==
  IF ~IsNewer(e.at, s.backend.at) THEN s
  ELSE [ClearBackendSession(s) EXCEPT
          !.backend = [s.backend EXCEPT
            !.state = IF e.restart THEN "starting" ELSE "stopped",
            !.restart = e.restart, !.at = e.at]]

ReduceBackend(s, e) ==
  LET backend == [state |-> e.state, restart |-> e.state = "starting",
                  error |-> e.error, at |-> e.at]
  IN IF ~IsNewer(e.at, s.backend.at) THEN s
     ELSE IF e.state = "running" THEN [s EXCEPT !.backend = backend]
     ELSE [ClearBackendSession(s) EXCEPT !.backend = backend]

ReduceConnection(s, e) ==
  LET scoped ==
        IF e.gen > s.generation THEN ClearSensorIdentity(s)
        ELSE IF e.state = "reconnecting" /\ s.connection # "reconnecting"
        THEN ClearTransientMeasurement(s)
        ELSE s
      next == [scoped EXCEPT !.connection = e.state, !.generation = e.gen,
                             !.connectionAt = e.at, !.paused = e.paused,
                             !.health.error = e.error]
  IN IF \/ e.gen < s.generation
        \/ e.gen = s.generation /\ ~IsNewer(e.at, s.connectionAt)
     THEN s
     ELSE IF e.state = "disconnected" THEN ClearLiveSession(next) ELSE next

\* The host reported while streaming becomes the one that is remembered.
ReduceHealth(s, e) ==
  IF ~IsNewer(e.at, s.health.at) THEN s
  ELSE [s EXCEPT
          !.health = [state |-> e.state, host |-> e.host, error |-> e.error,
                      at |-> e.at],
          !.preferences.sensorHost =
            IF s.connection = "streaming" /\ e.host # "" THEN e.host ELSE @]

Live(s) == ~s.paused /\ s.connection = "streaming"

ReduceWrench(s, e) ==
  IF Live(s) /\ IsNewer(e.at, s.wrench.at) THEN [s EXCEPT !.wrench.at = e.at]
                                           ELSE s

\* lastBatch is the event; its stamp stands for it.
ReducePlot(s, e) ==
  IF Live(s) /\ IsNewer(e.at, s.plot.at)
  THEN [s EXCEPT !.plot = [batch |-> e.at, at |-> e.at]] ELSE s

ReduceRecordingState(s, e) ==
  LET kept == IF e.path # "" THEN [s EXCEPT !.partialPath = e.path] ELSE s
      r == s.recording
      next == IF e.state = "idle" THEN [EmptyRecording EXCEPT !.at = e.at]
              ELSE [r EXCEPT !.state = e.state, !.path = e.path, !.error = e.error,
                             !.at = e.at,
                             !.startedAt = IF r.state \in Idle THEN e.at ELSE @]
  IN IF \/ s.connection # "streaming" /\ e.state \notin Idle
        \/ ~IsNewer(e.at, r.at)
     THEN kept
     ELSE [kept EXCEPT !.recording = next]

ReduceRecordingProgress(s, e) ==
  LET r == s.recording
  IN IF r.state \in Idle \/ ~IsNewer(e.at, r.at) THEN s
     ELSE [s EXCEPT
             !.recording.at = e.at,
             !.recording.elapsed = IF r.startedAt > 0 /\ e.at >= r.startedAt
                                   THEN e.at - r.startedAt ELSE 0]

ReduceConfiguration(s, e) ==
  IF s.configuration.available /\ e.revision <= s.configuration.revision THEN s
  ELSE [s EXCEPT !.configuration = [available |-> TRUE,
                                    revision |-> e.revision, at |-> e.at]]

ReduceError(s, e) ==
  IF e.sequence <= s.errorSequence THEN s
  ELSE [s EXCEPT !.health.error = e.error, !.errorSequence = e.sequence,
                 !.recording.error = IF e.operation = "recording" THEN e.error
                                     ELSE @]

ReducePreferences(s, a) ==
  [s EXCEPT !.sensorHost = IF s.connection = "disconnected"
                           THEN a.preferences.sensorHost ELSE @,
            !.preferences = a.preferences]

\* A patch is a function from the fields it changes.
Patched(prefs, patch) ==
  [f \in DOMAIN prefs |-> IF f \in DOMAIN patch THEN patch[f] ELSE prefs[f]]

Reduce(s, a) ==
  CASE a.type = "sensor_host_changed"  -> [s EXCEPT !.sensorHost = a.host]
    [] a.type = "preferences_received" -> ReducePreferences(s, a)
    [] a.type = "preferences_patched"  ->
         [s EXCEPT !.preferences = Patched(@, a.patch)]
    [] a.type = "backend_disconnected" -> ReduceDisconnected(s, a)
    [] a.type = "backend_state"        -> ReduceBackend(s, a)
    [] a.type = "connection_state"     -> ReduceConnection(s, a)
    [] a.type = "health"               -> ReduceHealth(s, a)
    [] a.type = "live_wrench"          -> ReduceWrench(s, a)
    [] a.type = "plot_batch"           -> ReducePlot(s, a)
    [] a.type = "recording_state"      -> ReduceRecordingState(s, a)
    [] a.type = "recording_progress"   -> ReduceRecordingProgress(s, a)
    [] a.type = "configuration_changed" -> ReduceConfiguration(s, a)
    [] a.type = "error"                -> ReduceError(s, a)
    [] a.type = "settings_error"       -> [s EXCEPT !.settingsError = TRUE]
    [] OTHER                           -> s

\* connectionScope and scopeFromState: what tells one session from the next.
Scope(s) == [epoch |-> s.backend.at, generation |-> s.generation]
=============================================================================

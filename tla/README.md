# A verification of netft-viewer in TLA+

netft-viewer records and shows the forces and torques an ATI Net F/T sensor
sends over UDP.  It is two programs: an Electron application (`src/app`) and a
native companion (`src/core`) that the application starts, talks to over a line
protocol on stdin and stdout, and restarts when it is lost.  The data path and
everything that must not be lost is in the companion; the application decides
when a companion runs at all.

This directory models the program's concurrent core and the viewer around it,
model-checks them with TLC on small instances, and proves with TLAPS, for every value
of the constants, every safety property of the recorder and its two refinements, and
the properties that matter most of the session, the companion's shutdown, the settings
store, the window's life, the series of the plot and a chart on the page.

Contents: [the system](#the-system) ·
[the modules](#the-modules-and-the-code) ·
[the runs](#the-runs) ·
[bounds](#bounds-and-why-they-are-enough) ·
[fairness](#fairness) ·
[what the runs found](#what-the-runs-found) ·
[proofs](#the-proofs) ·
[abstractions](#abstractions-and-what-is-not-modelled) ·
[plan](#plan)

## The system

    renderer ─── preload, IPC ─── main process ─── stdin/stdout ─── companion
    (React)                       handlers, dialogs,                command loop, writer
    scheduler, reducer,           window and menu,                    │
    controls, plot, menu          supervisor,                       Session ── Recorder ── files
                                  settings, logs ── files             │  │
                                                                      │  └── event sink ── writer
                                                                    Net F/T client ── UDP, HTTP ── sensor

Paths below are relative to `src/`.

| Component | Code | State it keeps | Operations |
|---|---|---|---|
| Recorder | `core/viewer/src/recorder.cpp`, `submission_gate.hpp`, `recording_queue.hpp`, `drain_completion.hpp` | `state_`, the submission gate (open bit and count), a lock-free ring of samples, the counters, the writer thread, the partial and final CSV and metadata files | `start` `submit` `pause` `resume` `stop`, `writer_loop` |
| Session | `core/viewer/src/session.cpp` | the connection snapshot with its generation, whether samples are accepted and one is being delivered, the configuration and its published revision, the client, the health thread, the plot interval | `connect` `disconnect` `set_paused` `bias` `start_recording` `stop_recording`, `sample_received`, `health_loop` |
| Event sink and queue | `session.cpp` (`SessionEventSink`), `session_event_queue.hpp` | at most 64 events, dropped errors, the lease of measurements, finishing, closed | `enqueue` `try_pop` `wait_for_event` `purge_measurements` `retain_generation` `begin_measurements` `revoke_measurements` `finish` `close` |
| Companion supervisor | `app/main/companion-supervisor.ts` | the snapshot (state, attempts), the process and its generation, the pending requests with timers, the start cycle, `suppressRestart` | `start` `retry` `command` `stop`, handlers of output, exit, error and write callbacks, timers |
| Application lifecycle | `app/main/main.ts` | how far boot has come; whether quitting was requested, is allowed, and the logs are closed | `boot`, before-quit, window-all-closed, will-quit |
| Companion process | `core/companion/src/companion.cpp` | the queue of responses with their tickets, writer and command thread, whether the output failed | the command loop, `OutputWriter`, shutdown |
| Companion protocol | `core/companion/src/protocol.cpp`, `app/main/protocol.ts` | none (the framer keeps a partial line) | parse, validate, format |
| Net F/T client | `core/netft/src/detail/client_impl.cpp`, `fault_latch.cpp` | the worker thread and who joins it, whether a stream was begun, the fault latch, the health | `start` `stop` `bias` `health`, the receive loop with reconnection, the callback |
| Sequence trackers | `core/netft/src/detail/sequence.cpp` | the last numbers of records and samples, 32 bits, and what may be a restart | `observe` `reset` `begin_session` |
| Sensor configuration, transport, types | `core/netft/src/detail/xml_config.cpp`, `udp_transport_*.cpp`, ... | sockets | decode, send, receive |
| Plot aggregator | `core/viewer/src/plot_aggregator.cpp` | the open interval: first, last, extremes | `push` `reset` |
| IPC handlers and dialogs | `app/main/ipc-handlers.ts`, `dialog-service.ts` | one pending promise per channel, which a second call joins | the channels the renderer invokes; confirmation of a bias and of replacing a file |
| Settings store | `app/main/settings-store.ts` | the settings in memory and on disk, the write chain | `load` `update` |
| Log store | `app/main/log-store.ts` | the log file and its rotations | `append` `rotate` |
| Renderer state | `app/renderer/model/app-state.ts`, `event-scheduler.ts`, `App.tsx`, `components/Actions.tsx` | the reduced state, the sample that waits for a frame, a pending entry and a token for each control, feedback, preferences on their way to the store | `appReducer`, `enqueue` `flush`, the controls' handlers and effects, `changePreferences` `flushPreferences` |
| Charts and other views | `chart-model.ts`, `components/ChartWorkspace.tsx`, `use-echart.ts`, the panels | the points in the window, the boundary the plot last saw, the view; the library's instance | `append` `reset` `setWindow`, the sink and the effects of the plot, mount, update and resize of a chart |
| Menus, windows, preload | `desktop-menu-model.ts`, `application-menu.ts`, `TitleBarMenu.tsx`, `titlebar-menu-state.ts`, `window-command-handler.ts`, `preload/index.ts` | which menu is open and what is active in it; what the menu was last told; the window's focus and full screen | pointer and keys of the menu, menu commands, window commands and the window's state |
| Build, packaging, tools, tests | `forge.config.ts`, `cmake`, `tools`, `test` | not part of the running program | |

### How they interact

* **Threads of the companion.**  The SDK client's receive thread calls
  `ViewerSession::sample_received` for every record; that hands the sample to
  `Recorder::submit`, to the plot aggregator and, as an event, to the sink.
  The session's health thread polls the client and the recorder five times a
  second (`health_interval`, 200 ms) and pushes snapshots.  The command thread runs one operation of the
  session at a time (`operation_mutex_`).  The recorder's writer thread drains
  its ring into the file.  The companion's writer thread drains the sink into
  stdout.
* **Shared state.**  `state_mutex_` guards the session's fields.  The sink and
  the recorder's wait have mutexes of their own.  The recorder's state, gate and
  counters are atomics; the ring has one producer and one consumer.  `plot_` and
  `client_` have no lock: they are used by the callback and reset by the
  controller, who must first wait for the callback.
* **Inside the application.**  The supervisor's events go to the page as they come.
  The scheduler holds back samples for a frame and passes everything else on; the
  reducer keeps what is newer.  The plot is told of batches and boundaries twice: by a
  sink, at once, and by the effects of a render, later.  A press of a control sends a
  request through the preload to a handler, which asks a dialog, the settings or the
  supervisor; its answer and the event with the state it brought about arrive in either
  order.  Choices go to the settings store by a queue and a timer, hosts by the handler
  of connect.  Menus send commands that mean what the state they were drawn with says.
* **Between the processes.**  One JSON line per message; every command has a
  request id; the supervisor keeps a timer for each.  Events carry a generation,
  which counts the connections, and measurements carry a lease that pause,
  disconnect and a new configuration revoke.

### What makes it hard, and what makes each component correct

* **Recorder.**  `submit` must not block and runs beside a pause or stop that
  closes the gate under it; the writer decides that everything has been drained
  from two separate reads; its condition variable is notified without the mutex;
  any storage call can fail; the process can die.  Correct: a published file is
  exactly what was admitted, paused means quiet and flushed, nothing of one
  recording reaches another, nothing is overwritten under the refuse policy, an
  operation always returns.
* **Session.**  Six operations, three threads of its own and the recorder's
  meet; snapshots are copied under a lock and pushed after it.  Correct: pause
  and disconnect return into silence, nothing of an earlier run or connection
  appears in a later one, threads do not outlive their connection, a failed
  recorder is shown, nobody waits in a circle.
* **Sink.**  It is bounded, coalesces in place, evicts, and an event can be in
  the consumer's hands while its lease is revoked.  Correct: bounded by kind,
  every slot moves forward in time, losses of errors are told, a revoked
  measurement is never written.
* **Supervisor.**  Tasks of several processes, timers and callbacks arrive in
  any order, late ones included, in a restart or a shutdown.  Correct: no
  companion left running and forgotten, none killed for what another did, every
  start, command and shutdown ends.
* **Companion process.**  Two threads wait for each other over one mutex, an output that
  can break under either of them, and an input that may never come.  Correct: every line
  is answered once and in order, the answer to shutdown comes after everything else, the
  exit code tells whether the output failed, nobody waits for a thread that has gone.
* **Renderer.**  Three copies of the state (dispatched, rendered, seen by the effects)
  are never quite equal, and events, frames, renders, effects and answers come in any
  order.  Correct: a sample or a point of before a boundary is never shown after it, a
  new sensor's errors are shown, controls come back, and what is reported of a command
  is of the session that is shown.
* **Preferences and settings.**  Choices are made before the stored ones have come, in
  two ways to the same store; the process or the machine ends between any two steps of
  a write.  Correct: a choice arrives in the store and in the plot, and an answered
  update survives.
* **Plot and charts.**  Points come late, twice and out of order; the library throws.
  Correct: the series is what a set of the points says; a chart shows the last option
  or its fallback, and nothing leaks.
* **Window and life cycle.**  Boot puts the parts together while the page already asks
  and the user already quits.  Correct: no quitting before the backend has stopped, no
  window whose close nobody handles, a title bar that shows the window.
* **Log and menu.**  A rotation of several renames stops anywhere; pointer, two key
  handlers and vanishing items move a menu.  Correct: the log is the end of what was
  written; what Enter would run is on the screen.
* **Client, trackers.**  Callers, the callback's own stop and a worker that ends by a
  fault meet over one thread handle; sockets are opened while somebody stops; counters of 32
  bits wrap, records are lost, overtake each other and come twice, sensors restart.
  Correct: who returns from stop finds nothing running or open, every call returns, no
  sample is delivered behind a newer one, and a healthy sensor's newest is delivered.

`PROJECT.json` lists every hazard at its line with the properties that cover it.

## The modules and the code

| Module | Stands for | State and actions |
|---|---|---|
| `Recorder` | `recorder.cpp` with the gate, ring and drain check | One variable per member (the comment beside each names it).  Three program counters: `ppc` inside `submit`, `cpc` inside `start`/`pause`/`resume`/`stop`, `wpc` inside `writer_loop_impl`.  Each atomic access, each critical section of `wait_mutex_` and each storage call is one action.  `csvPartial`, `csv`, `metaPartial`, `meta` are the files; `buf` is the stdio buffer, of which a failing call or a crash moves any prefix.  `ForeignOutput`, `RecoverPartial` and `Crash` are the world outside. |
| `Capture` | what a recording promises | The abstract specification: samples are admitted into a log, the output changes once, from what was there to the whole log, and the capture ends well only then. |
| `RecorderStatus` | what callers see of the recorder | The second, smaller abstraction: `RecordingState` and whether the writer is to be joined.  `Session` extends it instead of the recorder. |
| `RecorderRefinement` | | The two refinement mappings: `ImplementsCapture`, `StatusIsImplemented`. |
| `RecorderInvariant` | | The inductive invariant: `Core` (threads and the way of a sample) and `Books` (what files and counters say). |
| `RecorderProofs` | | The theorems: about `Core`, about `Books`, and the refinements. |
| `EventSink` | `SessionEventSink`, `SessionEventQueue` and the consumer's pop, validity check and write | Operators on the sink's variables; an operation is one critical section. |
| `Companion` | `companion.cpp`: `Impl::run` and `OutputWriter` | `EXTENDS EventSink`.  `mpc` is the main thread, `wpc` the writer's.  `ticket`, `pending`, `completed`, `closing`, `failed`, `finished` are the writer's members.  A wait on its condition is a guard, because everything waited for is changed under the mutex and notified to all.  The session is any use of the sink until it is destroyed; `generation` counts its connects, each of which throws away what is queued of an earlier one (`Retain`); `said` is what has come out of stdout, and `forgotten` the count of lost errors when a connect last cleared the queue. |
| `Session` | `session.cpp` | `EXTENDS EventSink, RecorderStatus` and so composes session, sink, recorder and consumer.  Program counters `rpc` (receiver), `hpc` (poller), `cpc` (controller), `pub` (the steps of `publish_configuration_locked`, run by whoever holds `lock`).  A critical section of `state_mutex_`, an atomic access and a call of another component are a step each.  A play (`Plays`) is which operations are called, how often, and which events are looked at. |
| `SensorClient` | `client_impl.cpp`, `fault_latch.cpp`, and a sensor behind UDP | `pc` is the step of every thread's `start` or `stop`; `lifecycle` is who holds `lifecycle_mutex_`, and a wait on its condition is a sleeper that a notification wakes.  `wpc` is the worker in `run`, `receive_session`, `handle_record`, `finish_session`.  `sensor` and `flight` are the other end. |
| `SequenceTracker` | `sequence.cpp` | Operators on a tracker.  It keeps the true number it took, of which only the remainder is compared, so that the properties can speak of the true order. |
| `Supervisor` | `companion-supervisor.ts`, its callers in `main.ts` and `ipc-handlers.ts`, and the processes | `sup` is the record of the supervisor's fields.  A handler (`Attempt`, `HandleTermination`, `FailProcess`, `Receive`, ...) is an operator from those fields to the next ones; an action is one task of the event loop with all promise continuations it makes runnable, which JavaScript runs before the next task. |
| `AppState` | `app-state.ts` | The record `appReducer` keeps and one operator per event, `Reduce` for all of them.  A measurement is its stamp. |
| `ChartModel` | `chart-model.ts` | The series as sorted sequences with the binary search, insertion and eviction, and what of a model is drawn: value axis, ticks' range, panels. |
| `LiveView` | `event-scheduler.ts`, `App.tsx`'s dispatching, `ChartWorkspace.tsx`'s sink and effects, `main.ts`'s delivery | `EXTENDS AppState, ChartModel`.  `app`, `shown` and `due` are the three copies of the state; `sample`, `frame`, `callback` the scheduler's members; `chart`, `boundary`, `appended`, `seen` the plot's refs.  A delivery (`TakeMail`), a frame, a render and the effects of a render are a step each.  `peer` is what the supervisor and the session say: the link, the generation, the revision of the configuration (which any link but a disconnected one may change) and the two counters of errors, which only a new companion begins again.  `past` remembers the last end of each scope. |
| `Controls` | `Actions.tsx`, `ConnectionPanel.tsx` and `App.tsx`'s connection commands, the command handlers of `ipc-handlers.ts`, the dialogs, `application-menu.ts`, `desktop-menu-model.ts` | `EXTENDS LiveView`.  `pending` holds an entry for each control, `ops` the pending promise of each channel, `inbox` the companion's commands, `menu` what the menus were last told. |
| `SettingsStore` | `settings-store.ts` | `value`, `chain` (the updates that wait), `step` (where the write is), `temporary` and `file` with what of them has reached the disk (`durable`).  `answered` and `refused` remember what may be under the name.  A restart is of the program alone, which leaves an unflushed rename unflushed, or of the machine. |
| `Preferences` | the preferences of `App.tsx`, the view of `ChartWorkspace.tsx` and `ChartToolbar.tsx`, the preference channels | `EXTENDS SettingsStore, ChartModel`.  A choice on its way: `chosen`, the view that follows it, `queue`, `timer`, `hydration`, and `handlers`: registered after the page has loaded, removed as soon as quitting is asked for.  `lost` remembers the fields whose last choice nobody took. |
| `ChartSeries` | the calls of a chart's model | `ChartModel` under arbitrary batches, windows and resets, beside sets of the same points. |
| `Surface` | `use-echart.ts` | The library's instance, the option applied to it, the two effects and the observer. |
| `TitleBarMenu` | `TitleBarMenu.tsx`, `titlebar-menu-state.ts` | The reducer `bar` (focused, open path, active path, mnemonics) under pointer and keys; both handlers of a key in the order the DOM calls them. |
| `LogStore` | `log-store.ts` | The files, the bytes counted, and where an append or a rotation is. |
| `Desktop` | `main.ts` (`boot`, `bindApplicationLifecycle`), `window-command-handler.ts`, `preload/index.ts` | How far boot is, the window, what is handled, the lane of window states to the page, quitting. |
| `Viewer` | | Composes the parts of the viewer: a scene plays one of them from its beginning while the others rest. |
| `Selection` | what `erase_if` and its like leave of a queue | `Keep`: the entries at given positions, in order. |
| `SupervisorProofs`, `ViewerProofs`, `ControlsProofs`, `CompanionProofs`, `SessionProofs`, `SensorClientProofs` | | The theorems about these parts, each beside its inductive invariant. |
| `SequenceLemmas` | | Lemmas of which several of them make use: induction, suffixes, `Keep`. |
| `MCRecorder`, `MCSession`, `MCClient`, `MCCompanion`, `MCSupervisor`, `MCViewer` | | Constants for TLC. |

Some modules contain operators called "Mutant: ...": a variant of the definition
that follows, wrong in a way the code could easily have been.  Each property was
checked to fail when its mutant replaces the definition.

### Where to look in the code

* `Recorder.SubmitEnter ... SubmitNotify` is `Recorder::submit`;
  `WriterPop ... WriterDone` is `writer_loop_impl` in the order of its lines:
  pop a batch, write it, load the state, check the drain (gate first, then queue:
  `drain_complete`), pause or close, promote, write the summary, compare and swap
  to Idle.
* `Session.Call*` are the first critical sections of the operations, with their
  early returns; the steps after them are shared by the operations as in the code
  (`AwaitCallback`, `RevokeMeasurements`, `PurgeMeasurements` are the silence that
  pause and disconnect both need).  `todo` is the list of snapshots an operation
  still has to publish; `CopySnapshot` and `PushSnapshot` are the two halves of
  each publication, between which any other thread may run.
* `Companion.ReadLine ... Return` is `Impl::run` with `OutputWriter::submit`,
  `finish_session_events` and `close` at the places where it calls them;
  `TakeResponse ... NotifyFailure` is `OutputWriter::run`, a response before each event.
* `Supervisor.Task(s)` is the point at which a task ends and the continuations of
  `spawnAndHandshake`, `startAttempts` and `stop` run: `StopSettled(HelloSettled(s))`.
* `LiveView.TakeEvent` is the preload's listener, `EventScheduler.enqueue` with its
  boundaries, the plot's sink and `dispatch`; `Frame` is `flush` of a frame; `PlotEffects`
  are the plot's effects in the order React runs them.  `AppState.Reduce` has an arm for
  each case of `appReducer`.
* `Controls.Click` and `MenuChosen` begin a command (`begin`, the guard of each control,
  the request); `Invoke` is `deduplicated`; `ActionAnswered` is the continuation of the
  request with its tests of token and scope; `ControlsEffects` are the effects that
  clear entries and feedback.
* `SettingsStore.Opens ... Acknowledges` are the calls of a write in the order of their
  lines (temporary file, flush, rename, permissions, flush of the directory), and `Fails`
  the failure of any of them.
* `Desktop.Boots` is everything of `boot` after `loadURL`; `Exits` is Electron's end of
  the process, by default until the life cycle is bound.

## The runs

| Run | Question | Result |
|---|---|---|
| `recorder` | Every interleaving of producer, controller and writer over three samples, two recordings, one pause, failing storage, another program's files and one process death: what do the files hold, what do pause and stop promise? | Holds: completeness, no rows of another recording, a partial file is a prefix, the summary is true, pause is quiet, stop Ok means published, Refuse replaces nothing, `IInv` (the invariant that is proved), and the two refinements. |
| `recorder_live` | Do operations return, and is every queued sample drained, although `submit` notifies without the mutex? | Holds under fairness. |
| `recorder_overflow_summary` | Does an overflowed capture never receive a completed summary (`README.md:86`)? | **Violated**, see below. |
| `session` | Four plays: pause, resume, disconnect and a second connect against measurements, and against snapshots, at every step of a sample and of a poll; a configuration that changes while samples stream; four operations of any kind with a recorder that may fail at any moment. | Holds: nothing old is delivered (silence while paused, no replay after), threads do not outlive their connection nor what they use, Disconnected is the last snapshot of a connection, recorder and session pause together, no measurement follows a newer configuration than its own. |
| `session_live` | Do operations return, and is a failed recorder shown? | Holds under fairness. |
| `session_stopped_shown` | Does the last recording snapshot after a stop say Idle? | **Violated**, see below. |
| `client` | Four calls of two callers and of the callback at every step of a worker that recovers or faults; streams that wrap, are biased or begun again, with something lost, repeated, reordered or a sensor restarted. | Holds: stop is final, samples are in order and the newest is delivered, calls return. |
| `client_bias` | Are the records of the stream a bias begins delivered? | **Violated**, see below. |
| `companion` | Commands, rejected lines, shutdown, the end of the input and an output that breaks, at every step of main and writer, against a session that connects and uses the sink in any order, with the queue at both its limits. | Holds: the answer to shutdown is last, lines are answered once and in order, the exit code tells the truth, losses of errors are told unless a connect forgot them, nothing revoked is written, nobody waits for ever. |
| `supervisor` | Two things going wrong anywhere in starts, commands and the shutdown. | Holds: no orphan, no companion killed for another's fault, starts and requests settle and quitting ends with no companion alive (`EverythingEnds`). |
| `supervisor_running` | Does `running` mean that there is a process? | **Violated**, see below. |
| `viewer` | The application on the operator's side of the supervisor, in eight scenes (below). | Holds: see the scenes. |

`viewer` is one run of eight scenes, because they share `AppState` and `ChartModel` and
none of them waits for another:

| Scene | Question | Properties |
|---|---|---|
| display | Backends restart, sensors connect, drop out, are reconfigured, paused and resumed while samples, batches and errors wait for frames, renders and effects. | `WrenchIsCurrent`: no sample of before a boundary is shown after it, and what waits has a frame coming.  `PlotIsOfOneSession`: the plot has nothing of before the last change of backend or connection, and of before the last interruption one batch at most.  `ErrorsOfANewSensorAreShown`: two numberings of errors do not hide the first of a new sensor. |
| controls | Presses and menu commands, dialogs, answers, events, renders and effects in every order, while connections, recordings and the companion end by themselves. | `ButtonsComeBack`: no control waits for ever.  `FeedbackIsOfThisSession`: what is reported is of the session that is shown, and a bias reported as applied was applied to its sensor. |
| choices | Choices before and after the stored ones came, a host by the other way, refused updates, handlers that are not there yet or any more, the window closed, ends of the program and the machine at every step of a write. | `ChoicesArrive`: in the store, but for what is cut off from it, and in the plot.  `StoredIsKept`: what was answered is found at the next start. |
| series | Batches late, repeated and out of order, another window, a reset. | `ChartIsItsReference`: the sorted sequences are the sets, and all of it is within the axes. |
| surface | Renders, their effects, sizes and a library that throws. | `SurfaceShowsTheLast`: the last option or the fallback, and no instance left over. |
| desktop | Boot, its failures, the page's subscription, the window's changes, quitting from anywhere. | `QuitWaitsForTheBackend`, `TitleBarIsCurrent`. |
| log | Appends and rotations that fail or are cut short at every step. | `LogIsATail`: what is left is the end of what was written, without a gap. |
| titlebar | Pointer, mnemonics, keys through both handlers, items that become unavailable. | `ActiveIsOnScreen`: the open menus are a chain, and the active item is on it. |

`CHECK_DEADLOCK FALSE` everywhere has one reason: the bounds end the calls, and a
system nobody calls may rest.  That threads do not rest while they have something
to do is what the liveness properties say.

## Bounds and why they are enough

* **Recorder** (`Capacity` 2, `BatchSize` 2, `MaxSubmits` 3, `MaxCaptures` 2,
  `MaxPauses` 1, `MaxCrashes` 1).  Two slots and three samples give an empty, a
  partly filled, a full and an overflowing queue; a batch of two gives full and
  partial batches; two recordings give every leftover of a first in a second; one
  crash can come at any step of either.  The live run has one slot and one
  recording, which still includes the full queue and the lost notification.  The
  proofs lift all these bounds.
* **Session.**  Each play has its `ops`, calls after one another (2 to 4), `generations`
  of connections (1 or 2) and `revisions` of the configuration (1 or 2).  A hazard here
  needs an operation, another that races with what the first left behind, and the
  connect before them; the play of configurations only connects and disconnects.  The
  receiver, the poller and the consumer are not bounded: they loop.  `observed` names the
  kinds of event that go into the sink in a play
  and `followed` the kinds whose last push is remembered.  This is sound because
  slots are independent as long as nothing is evicted, and the session never fills
  the queue: there are six kinds of snapshot of one generation at a time, at most
  16 errors, and 64 places.  `companion` covers the queue when it is full.
* **Client** (`Modulus` 8, `LowMax` 1, `MaxFlight` 2, `Strides`).  Numbers of three bits
  wrap within three records, and half of them is still more than what is on the way;
  the code has 2^32 and 0xffff.  Records and samples advance by one, by a gap of three, or
  the sample counter stands still.  Four calls of two callers and the callback with one
  failure bring a stop that waits for another's join, a reap, and a start behind a fault;
  four records with one failure bring a wrap, an overtaking, and the two low records
  by which a restart is told.  The sensor never loses, and no record is ever overtaken by,
  half the numbers (`Near`): beyond that the code cannot tell old from new.
* **Companion and sink** (`MaxCommands` 2, `MaxEvents` 3, `MaxLeases` 2, `Capacity` 2,
  `ErrorCapacity` 1).  A second line shows that the loop comes back with its tickets in
  order, and may be the shutdown.  Three events reach both limits of the queue: an error
  evicts an error, and a third event finds two in it and evicts a snapshot; in the code the numbers are 64 and 16, and only
  `0 < ErrorCapacity < Capacity` is used.  Two leases let an event be in the writer's
  hands across a revocation and a new beginning.  The first line may be a connect, with
  errors already in the queue.  Input and output can end at every step.
* **Supervisor** (`Attempts` 2, `MaxFaults` 2, `ChunkLines` 2, one command).  The
  code has three delays; two give a start that fails once and succeeds and one
  that fails for good.  A chunk of two lines is the smallest in which one line's
  effect meets the other's.  Two faults let a first loss cause a restart and a
  second hit that restart, a late callback included.  Processes need a bound:
  each but the first needs a fault of its predecessor, so there are at most
  `MaxFaults + 1`.
* **Viewer.**  Display: six stamped events (`MaxEvents`), two on the way (`MaxMail`) and
  four taken between a render and its effects (`MaxLag`), so that the effects of a
  connecting renderer may wait while its sensor streams, sends a batch, is interrupted and
  streams again; it begins before the backend runs, when it runs, and with a sensor that
  streams, so that six events reach a second generation, a new configuration and a second
  backend.  Controls: two commands
  (`MaxCalls`), six stamps (`MaxStamps`), and the confirmation of a bias that an
  earlier session left open, so that what was asked in one session is answered in the
  next.  Choices: two (`MaxEdits`), of five fields with two values or more each, and
  two restarts (`MaxCrashes`), so that the machine may stop after the program did.  Series: three times (`MaxTime`), two axes of different
  units, two values, a narrow and a wide window; every number of points from none to
  all, and eviction of none, some and all.  Surface: two mounts and four options.  Desktop:
  three changes of the window (`MaxNative`).  Log: four files (as `main.ts` keeps five:
  the code has no case for a particular number above two), entries of one or two units
  with room for two, six appends: every file is used and the oldest is removed.  Menu:
  two submenus and an item of each kind; unbounded.  All of it is about 1.8 million
  states.  `ControlsProofs` lifts the bounds of the controls, `ViewerProofs` those of
  all other scenes.

## Fairness

* **Recorder**: weak fairness of each thread's next step.  Strong fairness of the
  controller's steps that wait for `wait_mutex_`, because a mutex that comes free
  again and again is not withheld from one thread for ever.  The timed wait's
  deadline passes.  No fairness of calls, failures, crashes or other programs.
* **Session**: strong fairness of the controller's, the receiver's and the
  poller's steps, which wait for `state_mutex_`, for the same reason.  Weak
  fairness of whoever holds the mutex, of the recorder's writer (justified by
  `recorder_live`) and of the consumer.  No fairness of the user's calls or of
  failures.
* **Client**: one weak fairness of all threads together, `ThreadStep`: some thread goes on
  when one can.  It is enough because calls, records and failures are bounded and every
  loop uses one of them up.  The callback returns, as `OperationsReturn` of the session
  says of the viewer's.  No fairness of calls, of the sensor or of the network.
* **Companion**: weak fairness of each of the two threads; the next step of either is
  enabled until it is taken, a wait included, for what is waited for stays true until the
  waiter goes on.  No fairness of input, of the session, or of whoever reads stdout; a
  write either succeeds or fails.
* **Supervisor**: one weak fairness of `Due`, the tasks that are due: the event
  loop runs timers and deliveries, and processes that are not hung go on.  No
  fairness of faults, commands, retries or quitting.  One condition is enough:
  every such step uses something up (a line, a request, an event, an attempt),
  and only a call or a fault brings new ones.
* **Viewer**: none.  Its properties are of what holds once nothing is on its way, which a
  single state shows, and the operator owes nothing.  That what is due comes (a frame,
  an effect, an answer) is React's, the browser's and the supervisor's (`EverythingEnds`).

### Assumptions on timing

Where the code relies on one thing being quicker than another, the model says so in a
guard of its own:

* `RecordingFails`: a recording fails only after it has been shown as recording, its
  command was answered and the mail has no more of it (otherwise see 4 below).
* `HostConnects`: nobody connects in the 250 ms between the arrival of the stored
  choices and the flush of the merged ones (otherwise see 8 below).
* A press in the chart's toolbar is rendered before the next (React flushes discrete
  events), and two handlers of one key see a render between them.

## What the runs found

Four statements of the repository do not hold, each with a run that shows it.

1. **A capture that overflowed can receive a completed summary**
   (`recorder_overflow_summary`, `recorder.cpp:574`).  The writer acts on the state
   it loaded at line 556.  A `submit` that overflows publishes Error at line 802;
   when that comes after the writer loaded Stopping, the writer closes and promotes
   the CSV and writes a summary with result complete.  Only its last
   compare-and-swap notices: the recorder stays in Error.  `README.md:86` says that
   failed captures do not receive a completed summary.  Every sample that was
   accepted is in the file all the same (`OverflowKeepsAccepted`).
2. **The last recording event after a stop can say Recording**
   (`session_stopped_shown`, `session.cpp:707`).  The health thread copies the
   recorder's snapshot and pushes it later; `stop_recording` can publish Idle in
   between, and the older snapshot replaces it in its slot.  An idle recorder is not
   published periodically, so nothing corrects it.
3. **`running` without a process** (`supervisor_running`,
   `companion-supervisor.ts:325`).  When the chunk that holds the answer to hello also
   holds a line that fails the process, `failProcess` disposes it before the start's
   continuation runs, which then announces running.  Commands are refused, and so is
   retry.

4. **After a bias nothing may be delivered for a long time** (`client_bias`,
   `client_impl.cpp:302`).  `bias` resets the tracker of record numbers for the stream it
   begins, while records of the old stream are still in the socket.  The first of those is
   taken as the first of the new stream, and the new records, which a sensor counts from
   the start command on, are out of order until they have passed it: for as long as the
   old stream had lasted.  The state says Streaming and no timeout runs, since records
   come.  `companion_process_test.py:486` waits for samples after a bias; its own sensor
   goes on counting.

The following behaviours are in the models too.  They contradict no statement of the
repository that a run could quote, or follow from reading the code next to the model,
and are noted for whoever changes this code.

* `connection_changed` from the health thread is copied under the mutex and pushed
  after it (`session.cpp:658`).  Pause and resume do not join that thread, so the last
  connection snapshot of a paused session may say that it is not paused.
  `DisconnectedIsLast` holds because disconnect does join it.
* The configuration comes before the first sample of its revision except in one window
  (`session.cpp:566`): a callback overtaken by pause or disconnect skips the
  configuration and pushes its sample, which the lease then rejects.  And a poll with
  an older copy of the client's health can publish revision 1 again after 2; the
  next sample or poll corrects it.
* `reported` (`session.cpp:665`): a poll that still holds the Error of one recording
  can take the failure flag that `start_recording` has just cleared for the next one.
  That one's failure is then shown as a snapshot but not as an error event.
* The recorder accepts `start` after Error, and Error survives disconnect and connect;
  the renderer disables Record in that state (`Actions.tsx:264`).  After an overflow
  the writer thread stays joinable until stop or disconnect, and start is refused with
  InvalidState until then.
* While a paused session is reconnecting, resume is refused until it streams.
* A failed start is reported twice: by the operation and by the poller.
* `SessionEventSink::finish` purges measurements of generation 0, which no connection
  has; the revoked lease is what silences the rest.
* A companion that exits with 0 during its handshake is announced with
  `restartPending` false and state stopped, and the start cycle spawns the next one all
  the same (`companion-supervisor.ts:533`); its count of attempts begins again at 1.
  After the handshake an exit with 0 does end in stopped, as the tests say.
* Quitting during the handshake takes the state from stopping to running, until
  the shutdown is answered; an attempt that fails for good meanwhile ends in failed
  rather than stopped.  The last failed attempt announces `restartPending` true and
  then failed.
* The exit event can come before the last output is delivered: a command that was done
  is rejected, and an answered shutdown is treated as failed.
* Only the answer to shutdown follows the events its command caused.  Any other response
  is written before the event the writer takes next (`companion.cpp:166`), so the answer
  to pause can come before the snapshot that says so; the application orders events by
  their own numbers.
* A `start` that waits behind a fault can sleep for ever (`client_impl.cpp:126`): the worker
  sets `worker_exited_` and notifies without `lifecycle_mutex_`, which may be just between
  the start's look at it and its sleep; only another call wakes it then.  `CallsReturn`
  exempts that sleep.  The viewer does not get there: its client recovers instead of
  faulting, and each one is started once (`session.cpp:290`).
* A sensor that restarts is believed after two records with a sample counter up to 65535,
  and only if the counter before was above that (`sequence.cpp:52`).  If it restarted
  longer ago (about 9 s at 7 kHz), or early in its life, its records move backward and none
  is delivered until its counter has passed the old one; the viewer's policy does not end
  the session for that, and the state says Streaming.  Two late records in a row look like
  a restart as well: behind one of a new boot and a second bias, a record of the boot before
  is delivered again, behind a newer one of its own.  `SamplesAreInOrder` is about the boot
  the sensor is in.
* An error that carries the count of the errors lost before it is itself lost uncounted when
  a connect clears the queue (`session.cpp:281`, `session_event_queue.hpp:73`): that loss is
  told by the next error that is dropped, or never.  `LossesAreTold` exempts what was lost
  before the last connect (`forgotten`).
* The timer of a command is 5 s.  A disconnect or stop that flushes for longer gets
  the companion killed, with the recording it was closing; the partial file stays
  (`PartialIsAPrefix`).

Of the application the models show, or leave out by a guard that says so:

1. **A batch of before a pause is plotted after the resume** (`ChartWorkspace.tsx:299`).
   The effects of the render that shows the resume append `state.plot.lastBatch`, which may
   be one that the sink had cleared away with the boundary.  `chart-workspace.test.tsx:255`
   says "freezes data on pause, clears it on resume, and accepts only new samples".
   `LiveView.PlotIsOfAfterTheResume` says the same of the model; added to `MCViewer.cfg`
   as an invariant it is violated.  The same happens at the end of an interruption: an
   effect that was still to run when the sink cleared the plot appends what was rendered
   before (`ChartWorkspace.tsx:302`), and if the stream is back before the next render, no
   effect clears it again.  One batch comes back this way, as `PlotIsOfOneSession` says; it
   holds without exception at a backend or a connection that ends and the next that begins.
   Nothing is claimed of a change of the configuration.  A connection numbers its
   configurations anew, but the sink's connection event keeps the boundary's revision
   (`ChartWorkspace.tsx:209`), and an effect that was pending may have put the boundary back
   to that of the earlier connection.  A configuration that comes in mid-stream with that same
   revision is not taken for a change by the sink (`ChartWorkspace.tsx:229`), and the batches
   of the new connection from before it, however many, stay.
2. **A connect that joins another** (`ipc-handlers.ts:108`).  Connect to A, disconnect, and
   connect to B while A's request is still in `settings.update`: B's press joins A's
   promise, is told that it succeeded, and no command for B is ever sent; its entry waits
   for a connection that does not come.  In the same way a Stop may be overtaken: the
   dialog of a Record that a reconnect has dropped stays open (it is not modal,
   `dialog-service.ts:106`), and a Record chosen in it while the Stop is under way begins the
   next recording before the idle state of the Stop is shown; the Stop waits until that ends.
   `ButtonsComeBack` exempts both (`began`).
3. **Stop pressed while reconnecting** (`Actions.tsx:142`).  Its answer is dropped because
   the scope is not live then, and the entry stays until the session ends.
   `ButtonsComeBack` exempts what was pressed when nothing could carry it out (`live`, as
   `Serves` has it).
4. A recording that starts and fails before "recording" was rendered leaves Record
   pending: the state the entry waits for was never shown.
5. In connection state `error` only Connect is offered, and the session refuses it
   (InvalidState) unless it is disconnected: the backend must be restarted.
6. In recording state `error` Record is disabled, and Stop is not offered, until
   disconnect.
7. The confirmation of a bias is not tied to a session (`ipc-handlers.ts:170`): left open
   over a reconnect it biases the new session's sensor.  What is then reported is
   reported truly (`FeedbackIsOfThisSession`).
8. The merge of stored and early choices is stored whole, with the host
   (`App.tsx:170`): a host connected before that flush is overwritten (`HostConnects` leaves
   that out).  And when
   `getPreferences` fails, which it does if the page asks before `boot` has registered its
   handlers (`main.ts:679`), an early choice stores the defaults over everything
   (`App.tsx:181`).  Choices made in the 250 ms before the end are not stored: the flush on
   cleanup (`App.tsx:209`) runs when `App` is unmounted, which nothing does when the window
   closes, and once quitting was asked for nobody handles `updatePreferences`
   (`main.ts:595`), though the page is there until the backend has stopped.  `ChoicesArrive`
   exempts them (`lost`).
9. Two toggles of an axis before a render: the second is computed from the state before
   the first, which is lost.
10. A menu shown before a recording ended means the opposite when it is used after:
    "Stop Recording" opens the dialog of a start.
11. A settings write that fails after its rename leaves the new file with the old value
    in memory (`settings-store.ts:261`); the next write puts that right.  Each retry of a
    rotation that failed midway may remove one older log more (`log-store.ts:151`).  A chart
    that failed once shows its fallback until it is mounted again.
12. The menu of the title bar: an arrow key with the focus on a top-level button is
    handled twice and skips a menu; pointing at a second submenu while one is open does
    not open it.
13. Errors of two counters, the session's and the companion's for lines it rejects
    (`session.cpp:719`, `companion.cpp:584`), meet in one `errorSequence` (`app-state.ts:543`).
    While one connection lasts, an error of the counter that is behind is taken for an old
    one and not shown.
14. `void boot()` (`main.ts:744`): a failure before the window leaves a process nobody sees,
    one after it a window without handlers.  A change of focus or full screen before the
    page subscribes is lost until the next one, which is the exception in
    `TitleBarIsCurrent`.

## The proofs

They hold for every value of the constants, hence for any queue, any number of calls,
connections, events, choices and crashes.  The assumptions are those the modules name:
`RecorderConstants` (capacity and batch size are positive, the bounds are natural numbers),
`SinkConstants`, `CompanionConstants` and `SessionConstants` (the bounds of a play are
natural numbers) for the companion and the session, `ClientConstants` and
`TrackerConstants` (a positive modulus) for the client, `ChartConstants` (finitely many axes,
windows in natural numbers), `SeriesConstants` (values are integers), `StoreConstants` (the
defaults have the fields of preferences), `WindowIsOffered` (their window is one of those
that can be chosen, as 10 s is of `TIME_WINDOWS_SECONDS`) and `LogAssumption` for the viewer.  Two records at most are on their way to the client (`MaxFlight`), also in
the proofs.  A play is any record of the set `Plays`, whatever it calls and looks at.

| Theorem | States |
|---|---|
| `CoreInvariance`, `Invariance` | `Spec => []Core`, `Spec => []IInv` |
| `TypeCorrect` | `Spec => []TypeOK` |
| `OutputComplete` | A published data file holds exactly what its capture admitted, in order. |
| `PausedQuiet` | When Paused is published, nothing is in flight or queued and everything admitted is in the file. |
| `ReopenDrained` | `start` and `resume` always find the gate closed and drained: their error branches are dead code. |
| `ErrorRefuses` | Once the state is Error, the gate is closed. |
| `NeverReplaces` | Under Refuse no step changes an existing output or summary. |
| `PartialPrefix` | A partial file holds the first samples of its capture, after any failure and after a process death. |
| `OwnRows` | No file holds a row of another capture. |
| `SummaryTrue` | A summary stands beside its data, and its counts are the number of rows. |
| `StopPublishes` | When stop returns Ok, data and summary are in place. |
| `OverflowKeeps` | A capture that overflowed keeps every sample it accepted. |
| `Implements` | The recorder refines `Capture`. |
| `StatusImplemented` | Until the process dies it refines `RecorderStatus`, which `Session` is built on. |
| `ThreadsContained` | A thread of the session is of the current connection, a disconnected session has none, and the plot and the client are reset and destroyed while nobody can be using them. |
| `RecorderFollows` | Between operations recorder and session are paused together; disconnected means no recording and no writer. |
| `DisconnectedIsLastWord` | The last connection snapshot of a connection says that it is over. |
| `NothingOldGetsOut` | No sample and no plot batch is delivered while the session is paused or disconnected, and none of an earlier connection or from before an answered pause afterwards. |
| `ConfigurationIsNotBehind` | No measurement is written after a configuration newer than its own. |
| `GoodbyeIsLast` | The answer to shutdown is the last line, when session and queue are gone. |
| `EveryLineIsAnswered` | The answers are numbered 1, 2, 3, ..., and all lines before the one read have theirs. |
| `ExitCodeIsTrue` | Result 0: everything is answered and written.  Failed output: result 3. |
| `LossesAreReported` | An error dropped since the last connect is counted by a later one that is queued or was taken out. |
| `RevokedStaysUnwritten` | No measurement of before a revocation is written after it. |
| `NoOrphans` | A running companion that is not the supervisor's process any more was killed or lost its input. |
| `OnlyTheFaultyAreKilled` | A running companion is killed only for what it did itself. |
| `StopsFinally` | Once stop has returned no worker, socket or stream is left. |
| `SamplesInOrder` | No late sample reaches the callback; the newest does, or the session ends. |
| `TrackersTellOrder` | The remainders of two numbers closer than half the range tell the newer one, for every width. |
| `SettingsAreKept` | Whether the program ends or the machine stops, and in whatever order, the next start finds a whole file with what was last answered, or a later update unanswered. |
| `ChoicesAreKept` | Once nothing is on its way, what was chosen is stored and shown, unless the store refused, or the window closed or nobody handled requests while the choice waited. |
| `ChartIsRight` | A series is what came within the window, once and in order, and all of it is drawn inside its axes. |
| `SurfaceIsRight` | A chart shows the last option or its fallback; no instance is left over. |
| `QuitWaits` | The application ends only after stop has settled and the logs are closed. |
| `TitleBarFollows` | Once nothing is on its way, the title bar shows the window. |
| `LogIsTheEnd` | The files are the end of what was logged, without a gap, each within its limit. |
| `ActiveCanBeSeen` | The active item of the menu is on the screen. |
| `SamplesAreCurrent` | No sample of before a boundary is shown after it; what waits for a frame has one coming. |
| `NewErrorsAreShown` | The first error after a change of backend or sensor is shown, whichever counter numbers it. |
| `PlotIsOfTheSession` | Once the effects have run the plot has nothing of before the last change of backend or connection, and of before the last interruption one batch at most. |
| `FeedbackIsCurrent` | What is reported of a command is of the session shown; a bias reported as applied was applied to its sensor. |
| `ButtonsAreBack` | Once everything asked is answered and shown, no control waits for a command of which the code keeps that. |

**The recorder.**  `OutputIsComplete` is not inductive: that the file is complete when it
is promoted depends on where every sample was before.  `Core` adds

* `Flow`: until storage fails or the file is promoted, `Path`, the rows of the partial
  file followed by the stdio buffer, the writer's batch and the queue, equals
  `admitted`.  Each step of the writer moves a piece of `Path` to the left; only a push
  appends to it.
* `GateFacts`: the gate's count is 1 exactly while a submit is past it.  So a drained
  gate means that no push is coming.
* `WriterFacts`: from the moment the writer has read the gate as drained (`wpc = "size"`)
  `inFlight` stays 0, because `ControlFacts` say that the gate stays closed while the
  controller waits in pause or stop.  This is where the order of the two reads in
  `drain_complete` matters: with the other order `inFlight = 0` is not known when the
  queue is read as empty.
* `ControlFacts`: what each step of an operation knows of the state, the gate and the
  writer; above all that an operation which waits keeps the gate closed.
* `QuietFacts`: nothing moves while paused and until resume opens the gate.
* `FileFacts`: who may hold rows, and to which file they go; a file that is published is
  closed, and its capture admits no more.

`Books` adds what the remaining properties need, and is inductive relative to `Core`:

* `OwnerFacts`: a sample on its way is of the current capture.  Inductive because start
  finds nobody past the gate and discards what a failed recording left in the queue.
* `CountFacts`: the counters, with the sample that is pushed and not yet counted.
* `ReachedFacts`: rows and buffer together are a prefix of `admitted`, also after a
  failure, where `Flow` says nothing any more.
* `PublishedFacts`: which files are in place at each step of a stop, and that a writer
  which ends without a failure has left nothing in the queue.

The refinement proofs use one invariant state and its successor.  Every step leaves
`admitted` and the output alone and moves the status in one of four ways
(`ThreadsMoveStatus`), or is one of the five that do more.  Promotion is `Publish`
because of `OutputIsComplete` in the state after it.

The proof has one lemma for what moves the data (`WhoMovesData`), so that the type and
flow lemmas treat a few cases instead of some seventy actions; one lemma per group of
conjuncts (`StepTypesStep` ... `OutputStep`), each with a case per action that can disturb
it; and `NextIInv`, which puts them together.  `PausedQuiet` follows from `QuietFacts`
and `Flow`; `NeverReplaces` needs no invariant but the guard of promotion, which is
the code's own.

**The session.**  `SessionInvariant` says of each program counter which operation takes it
(`Steps`), which threads may run at it (`Threads`) and whether samples are refused and the
callback has left (`Silent`).  It is needed because none of the properties speaks of what an
operation is about to do: a thread is of this connection because disconnect joined it
before the state became Disconnected, and the plot is free because `accepting` was
cleared before the callback was waited for.  `RecorderInvariant` adds what each step knows of
the recorder's status, of which only `RecorderStatus` is used.  `LastWord` is about the two
halves of a publication: after disconnect the queue of snapshots begins with the last
connection snapshot or it has been pushed, and a copy that is held says the same.

`NothingOldGetsOut` rests on `DeliveryInvariant`.  `Silence` is the stretch from the
revocation that begins a pause or a disconnect to the resume or connect that ends it.
`Fits` says of whatever is in the queue or popped: if it is a measurement of a valid lease,
it is of this run of samples, and there is no silence.  It is inductive because the run changes in
silence only, silence begins only where the lease has been revoked, and what the
receiver has in its hands (`RunsAreCurrent`) has been waited for before the plot is reset
and another run begins.  All steps do one of four things to lease and queue (`Moves`), so
that the queue is looked at once and not at every step.

`ConfigurationIsNotBehind` adds `ConfigurationInvariant`.  `Revisions`: no configuration in
the session, the queue or the client's hands is newer than the client's own, which a
callback does not outlive.  `InTime` orders the queue: no configuration stands before a
measurement under an older one that can still be delivered.  It is inductive because
whoever replaces a published configuration has revoked the lease first (`Revoked`), and
because of `Locking`: receiver and poller publish under the same lock, so between a
revocation and its push nothing is measured under the old configuration.

**The companion.**  `OneAnswer`: main waits for its ticket, so the writer never holds an answer
when a line is read.  `NothingLeft`: the writer is told that there is no more only by a
sink that is finished and empty, and main finishes it only when the session is gone.
`Goodbye`: therefore nobody can write after the answer to shutdown.
`Numbered`: the answers among the lines written are as many as the tickets completed, or
one more while the writer is between the write and its count; `Counted`: at each step of main
completed tickets, ticket and lines read differ by what main holds; `Ended`: the writer
exits only at the end or in failure, and main takes a failure into its result.
`EveryLineIsAnswered` and `ExitCodeIsTrue` are these three together.

The queue (`QueueInvariant`) is held within its bounds and holds what is `Admitted`: a
measurement of the valid lease is newer than the last revocation, from which
`RevokedStaysUnwritten` follows at once.  `LossesAreReported` needs the bounds: because
`ErrorCapacity < Capacity` a full queue holds something else than errors, so that only an error
displaces an error, and the one that displaces is pushed with the count of what was lost.
A purge keeps every error, a connect none of an earlier one, after which there is `NothingToTell`
until another is displaced, and what a pop takes is what `told` remembers.

**The supervisor.**  An action is a task: handlers in a row and then the continuations they
have made runnable.  `Sound` holds between any two handlers: whose requests wait
(`Waiting`: the process's, or those of one that may be killed), that an answer which came and was
not looked at yet condemns only a process at fault (`Judged`), and who is alive
(`Watched`: the process, the killed, those whose input was ended).  `Settled` adds that
between tasks no such answer is left.  That a healthy companion is never disposed of needs
what it is owed: as long as it has done nothing wrong, every line it has written and not
been read, and every command it has still to read, is waited for, each once (`Owed`, `Once`).
A chunk has any number of lines: they are handled one after the other by induction, in
which `Owed` is about the lines after the n-th.  Late timers and write callbacks fall
under `Waiting`: what they are about is the process's or is gone.

**The client.**  `StopIsFinal` speaks of the end of stop only.  `StopInvariant` says who may
join on the way there: the handle and `joining` are never both set, whoever joins is
alone, and when neither is set the worker is gone (`HandleFacts`), so a step of the worker
finds that no stop has returned.  `WorkerFacts` say at each of its steps whether it
has anything open.  `Callers`, calls, records and failures are arbitrary.
`TrackersTellOrder` is about the operators alone: it is what lets the runs use a
modulus of 8.  `SamplesInOrder` brings it to the records: `Comparable` says that no two
numbers a tracker may compare are half the range apart, which `Near` gives when the later
one is sent; `Remembered` ties what a tracker keeps to the histories of the property; and
`Overtaken`, for which two records on their way are the bound, that of what
is on its way one record at most is late.  A second late one is therefore the first
again, and is not taken for a restart.

**Settings.**  `StoreInvariant` says at each step of a write what is under the name: from
the rename on the file is the patched value, and the temporary one was whole before; what is
under the name, and what a crash of the machine would bring back, is `answered` or among the
values that were put there since (`refused`), which the end of the program alone leaves as they
are.  Of
`Viewer`'s actions six reach the store, the others leave it alone (`Only`).

**Choices.**  `StoringInvariant` follows each field over its whole way: what `Comes` of it is what
the renderer's queue says, else the last patch in the store's chain that names it, else the
stored value; of a field in `lost` it need not be what is shown.  A flush, an answered update and the arrival of the stored choices each move a
patch along without changing what comes.  Two things make it inductive: before the stored
choices are there (`Early`) everything chosen is still in the queue and the chain is empty; and
no patch of the queue names the host, which goes to the store by its own way, but for the ones that hold
all of what is shown.  `FollowingInvariant` says that the view is the one of the preferences
its effects saw last: a toolbar's action gives it what the effect would.

**The series of the plot.**  `SeriesInvariant` compares each sequence with its set.  The work is in
the operators.  The binary search finds the first index that is not before a time because each
turn at least halves what is left (`SearchNarrows`), so as many turns as there are points are
enough.  An insertion there keeps the order and replaces a point of the same time
(`InsertKeepsOrder`), an eviction leaves exactly what is not older (`EvictedAreEarlier`).
`IsIn` says which points there are after *n* of a batch, and `BatchIsFilledIn` follows it by
induction, so that late, repeated and unordered points are in.  The reference drops the
points before the window only in the end, which makes no difference (`OverwrittenIsIn`).
That everything is inside the axes rests on a finite set of integers having a greatest
element (`MaxIsGreatest`).

**A chart.**  `SurfaceInvariant`: there is an instance as soon as neither the first effect nor
the observer is still to come, and it has the last option unless the option's effect is.

**The window.**  `QuitInvariant` orders the flags: asked, stopping, settled, logs closed,
allowed.  `TitleInvariant`: the last state in the lane to the page, or what it shows when
the lane is empty, is the window's.

**The log.**  `Pieces`: there are cuts of what was written such that file *i* is what lies
between cut *i* + 1 and cut *i*.  A rename moves the cuts, a removal of the oldest file
moves the last one.  That is enough for order and absence of gaps.  That nothing is missing
unless something was removed needs `Full`: where no rotation was cut short, only the
oldest files are empty, but for the place that is free while they move up.  `Sized` says
that the bytes the store counts are those of the log, a sum over a sequence of any length.

**The menu.**  `BarIsRight` is kept by every operation of the reducer, in whatever order both
handlers of a key and the pointer call them: the open path is a chain from a menu of the
bar, and the active path is an item of a menu that is open (`Below`) or a part of the open path.

**The live view.**  Neither of the properties of sample and errors is inductive: whether a sample is of before a boundary
depends on events that are still in the mail.  `MailIsRight` numbers them: the *k*-th event
in the mail was stamped `Taken + k`, so what has been taken is not newer than `Taken`, which
all times of the state and of `past` are bounded by, and what comes is newer than all
of them.  The errors' numbers and the scopes are told apart by generations; there is a
function over the mail (`Generations`) that leads from the generation the renderer knows
to the one the session is in, each event giving the next, so that a connection in the
mail is never older than what the renderer has when it arrives.  `TimesAreRight` then
says that what is shown, and what waits in the scheduler, is younger than the boundary that
would have ended it, and that whatever waits has its callback.  Each event's arm of
`Reduce` is a lemma about what it leaves alone, and `Reduced` carries them over the events of a
render, of any number, by induction.  In the other scenes there is no sample and no
error (`CalmInvariant`).

**The plot.**  Sink and effects write to it independently, the one on events the other will
see a render later, so it may well hold points of an earlier connection; the property is
of when both have caught up.  `PointsAreOfBoundary` says when it may: where a point is from
before the connection, or two are from before the interruption, the boundary the plot goes
by `Differs` from the state that was dispatched, in its backend or its generation, or there is
no connection.  So the next effects find that it has changed and clear the plot.
`RenderIsSeen` says that with the effects run and nothing newly dispatched the boundary
is the state's, and then it does not differ.  `Fits` tells which link an event may find, a
stream only after a connecting or an interrupted one, and `Links` is the function over
the mail that leads from the link the renderer knows to the session's: no batch is in
the state when the stream comes back (`BatchIsNew`).  `RenderedDiffers` and
`ShownIsBehind` are about the batch the effects may still append: it is older than the
connection only where the render was of another one.  A lemma says what reducer and
sink make of an event (`Moved`, `Sunk`).

**The controls.**  That a bias reported as applied was applied to the sensor shown is not
evident, because a press may join the request of an earlier session, and the answer
comes by another way than the events.  `FeedbackIsCurrent` rests on the one thing both
have in common, their order in the mail.  `MailLeads`: the messages lead from the
generation the renderer knows to the one the session is in (`Reaches`), and each answer
to a bias that succeeded stands where the generation is one that was biased (`Leads`); what the
companion sends is appended at the session's end (`AnswersLead`), and what is taken is
removed at the renderer's.  `RequestsAre` says that the token of the bias that waits is
among the callers of no other channel, so only an answer of the bias channel can report it;
`InboxIsRight` that the companion has one command of each channel that was sent, so each is
answered once.  `ReportIsRight` ties what is reported to the session of the last
effects or to the one shown, none of which is later than what the renderer knows
(`NotBefore`).  That suffices because the reducer never goes back to a session that has
ended (`ScopeGoesOn`): a report of an earlier session is not of the one shown when its
successor is, and the effects of that render remove it.

That no control waits for ever is harder, because an entry goes away in one of three ways and
each may be overtaken by another: its answer fails, its session ends, or the answer and the
state it asked for have both come.  `ButtonsComeBack` speaks of the end, where nothing is on
its way; `ButtonsAreRight` says of every entry what is still to come of it meanwhile.
`Guides` is a function over the mail that leads from what the renderer knows of connection,
pause and recording (`Sight`) to what the session is in (`Behind`): in the end they are the
same.  `IsOwed` says of an entry that the effects have still to look at, or for which an
answer or the state is still missing; it is what the effects leave (`EffectsLeave`).  `InPhase`
is about the entries whose session is not about to end in the mail (`Lasts`).  Such an entry
`Waits`, its request its own, and nothing in the mail is for it; or it `IsAnswered`: it was
told, or will be, and if the answer is one of success, the session does what was asked
or is disconnected, and nothing that is on its way to the companion undoes it
(`Fulfilled`).  Four things make
that inductive.  A request is of one channel and an answer of one entry (`Apart`,
`AnswersOne`).  What a command comes to is told before or after its answer, but by the
same companion (`Turns`, with a lemma for what each command does).  Nothing undoes what an entry
asked for: no press finds another command of the measurement pending (`GivenAlone`); a Stop
that the companion has beside the Record of an entry stands before it (`StopsComeFirst`); and a
Stop that was given while a Record was under way is exempt (`began`), so that none is under way
while any other Stop is pending.  And a connection that succeeds begins another generation:
the entry of a connect is over by its scope, not by the state it asked for.  The proof has a
lemma for every action (`DialogEndsWell` ... `EffectsEndWell`).  Of the timing assumptions
it uses that of `RecordingFails`, without which item 4 of what the models show above would
be a counterexample.

**Induction.**  The library's induction theorems take an operator as a parameter, which
the provers cannot instantiate.  `SequenceLemmas.SetInduction` is induction over a set
instead: a set of natural numbers that has 0 and with each number the next has all of them.
It is proved from the library's well-foundedness of strict inclusion on finite sets.
What the model computes over a sequence is written as a recursive function of the
position (`Keep`, `Bytes`, `Reduced`, `LowerBound`, `Filled`, the supervisor's lines), whose equation is proved
from it; the operators of the community modules for the same
(`SelectSeq`, `FoldLeft`, `@@`) cannot be expanded by the backends.

**Only model-checked**: liveness and ENABLED, which are out of the prover's reach
(`OperationsReturn`, `SamplesSettle`, `FailureIsShown`, `CallsReturn`, `NobodyWaitsForEver`,
`EverythingEnds`).  Every invariant and action property of a passing run is also proved.

## Abstractions, and what is not modelled

* **Recorder.**  A row is the sample's identity; formatting, clocks and statistics
  other than the two counts are left out.  One producer, as the code demands, so the
  gate's count is 0 or 1.  The model
  interleaves atomic accesses, which is more than the acquire and release orders of
  the code give in general.  Here nothing is lost by it: what one thread must see of
  another is published by a release the reader acquires (a push before its gate entry
  is released, the closed gate before the state that is stored after it), and the
  counters, which are relaxed, are read only behind those.
  Failures of allocation in `submit` are left out: it allocates nothing.
* **Session.**  Messages, clocks and rates are left out, a configuration is its
  revision, and a health snapshot is the client's state.  `bias` is an operation that
  changes nothing but may report an error.  The check of the generation in
  `EventPublisher::push` and the push are one step: the generation changes only in
  connect, when no other thread of the session runs.  `finish` and `close` of the sink
  belong to the companion's shutdown and are in `Companion` only.  Exceptions by
  failed allocations inside the callback, and reads (`snapshot`, `latest`) are not
  modelled.
* **Client.**  Counters, rates, the rate limit (the viewer sets none), texts and clocks are
  left out; a configuration is discovered or not.  A silent sensor, an error of the socket
  and ten malformed packets end a session alike (`Receive`), a serious status and values
  that are not finite too (`HandleRecord`).  Only what is true of a record decides whether it
  is delivered: its numbers and those the trackers hold.  The sensor is external: it begins
  a new stream at each start command and counts its records from 1, as
  `test/support/fake_sensor.cpp` does, and its sample counter goes on until it restarts.
  Closing the socket drops what is on the way; commands may be lost.
  `wait_for_first_sample`, which the viewer does not call, and a client destroyed by its own
  callback are not modelled; waits end by a notification, never by themselves.
* **Sink.**  The consumer's validity check and its write are one step: it alone writes
  to stdout, so only the order of its writes can be seen.
* **Companion.**  A line is a command for the session, one that only needs an answer,
  shutdown, or one that throws.  `LineFramer`, the ways in which each platform waits for
  its input, and the options of `main` are left out; what matters of the input is that a
  wait for it ends when it is cancelled.  That an answer cannot be serialized is a choice.
  The loop's test of `writer.failed()` right after reading is part of the step that
  reads: a failure after that test ends in the same place.
* **Supervisor.**  A line is good or bad; framing and parsing are not modelled, and
  events of the companion are passed on and leave no trace.  A process that has
  answered shutdown goes on to exit; a killed process ends; all pipes close when the
  application exits.  The renderer calls retry only when it shows failed or stopped,
  and one request of a channel is pending at a time (`ipc-handlers.ts`).
* **Renderer.**  A measurement is its stamp, so texts, units and rates are not there.  Stamps
  are numbers of one clock, as the companion and the application stamp them.  What the
  companion may send is what `Session` sends: `LinkSteps` are the steps of a connection, each
  with the effects of `Session`'s operations.  Events come in order and none is lost, as
  over one channel of Electron.  Only one axis of the plot is kept in `LiveView`, and points
  have no values there: those are `ChartSeries`'.
* **Controls.**  The window stays open, and the panel of a collapsed section is not modelled.
  The supervisor is whether it runs and what it sends when it stops; that its answers come
  is `EverythingEnds`.  Arguments and senders are valid, as the page's own are.
* **Settings.**  A file is whole or torn and is what the schema accepts.  A crash of the
  machine loses any of what was not flushed, by this run of the program or an earlier one; a
  rename is atomic.  The first load, before any
  handler is registered, is what `Restarts` reads.
* **Charts.**  The library throws or does what it is told.  Colours, ticks and the tooltip are
  left out; the range of an axis is not.
* **Window.**  The native menu exists on macOS only and is Electron's: it is the same commands
  as the menu in the window.  A renderer that crashes is not handled by the code and not
  modelled.
* **Log.**  Texts, redaction and permissions are left out; an entry has a size.
* **Not modelled.**  The protocol's two codecs, XML and UDP decoding, sockets: pure
  conversions or calls of the operating system, which schemas and fixtures check better.
  The choice of extremes in the plot aggregator.  The panels that only format the state.  The
  assets' protocol, the
  navigation policy and window options, which keep no state.  Build files, tools and tests.

## Plan

Done: the recorder with its refinements; the session, the sink and the companion; the
client with its trackers; the supervisor; the viewer from events to what is shown and from presses to what is stored.
What is left, in order:

1. **Client**: its receiver shown to implement the one `Session` assumes.
2. **Sample pipeline**: the plot aggregator (first, extremes and last of an interval, in
   order).
3. **Framing**: the companion's line framer and the supervisor's, against a reference that
   sees the whole input.

The abstract specifications are `Capture`, `RecorderStatus`, and, for 1, the receiver as the
session sees it.

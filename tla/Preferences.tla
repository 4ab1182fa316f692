---------------------------- MODULE Preferences ----------------------------
(***************************************************************************)
(* The operator's choices on their way: through the reducer to the view of *)
(* the plot, and by a queue, a timer and a request to the settings store,  *)
(* which the host of a connection reaches by another way.  The viewer asks *)
(* for the stored choices when it starts and may be used before it has     *)
(* them; it is closed, or its process ends, at any time.                   *)
(***************************************************************************)
EXTENDS SettingsStore, ChartModel

CONSTANTS MaxEdits  \* bound: choices made and hosts connected

ASSUME WindowIsOffered == Defaults.window \in Windows  \* of TIME_WINDOWS_SECONDS

VARIABLES
  chosen,    \* state.preferences, as dispatched
  view,      \* ChartWorkspace's view, as dispatched
  window,    \* the window of its model
  painted,   \* both as rendered, and stateRef
  late,      \* the effects of that render are still to run
  followed,  \* the preferences those effects last saw
  queue,     \* pendingPreferencesRef
  timer,     \* preferenceTimerRef is set
  hydration, \* getPreferences: "asked", or its answer, or "done"; "closed"
  handlers,  \* the viewer's requests: "none" is there yet, "registered", "removed"
  edits,     \* bound
  touched,   \* history: the fields chosen since the start
  host,      \* history: the host last connected, or shown where none was known
  lossy,     \* history: an update was refused since the start
  lost       \* history: the fields of which the last choice never reached the store

choiceVars == <<chosen, view, window, painted, late, followed, queue, timer, hydration,
                handlers>>
editVars   == <<edits, touched, host, lossy, lost>>
prefsVars  == <<storeVars, choiceVars, editVars>>

NoPatch == <<>>  \* a patch of no field

\* A later patch of a field takes the place of an earlier one.
Merge(older, newer) ==
  [f \in DOMAIN older \union DOMAIN newer |->
     IF f \in DOMAIN newer THEN newer[f] ELSE older[f]]

StartsViewer(known) ==
  /\ chosen = Defaults /\ view = CreateView(Defaults) /\ window = Defaults.window
  /\ painted = [prefs |-> chosen, view |-> view] /\ late = FALSE /\ followed = Defaults
  /\ queue = NoPatch /\ timer = FALSE /\ hydration = [state |-> "asked"]
  /\ handlers = "none"
  /\ touched = {} /\ host = known /\ lossy = FALSE /\ lost = {}

PrefsInit == StoreInit /\ StartsViewer(Defaults.sensorHost) /\ edits = 0
-----------------------------------------------------------------------------
(* Choosing *)

\* changePreferences
Changes(patch) ==
  /\ edits < MaxEdits /\ edits' = edits + 1
  /\ hydration.state # "closed"
  /\ chosen' = Patched(chosen, patch)
  /\ queue' = Merge(queue, patch)
  /\ timer' = (timer \/ hydration.state = "done")
  /\ touched' = touched \union DOMAIN patch
  /\ UNCHANGED <<storeVars, hydration, handlers, host, lossy, lost>>

Toggled(axes, axis) == IF axis \in axes THEN axes \ {axis} ELSE axes \union {axis}

\* dispatchMenuCommand: the axes are those last rendered.
MenuChooses ==
  /\ UNCHANGED <<view, window, painted, late, followed>>
  /\ \/ \E w \in Windows : Changes([window |-> w])
     \/ \E a \in Axes : Changes([axes |-> Toggled(painted.prefs.axes, a)])

\* ChartWorkspace's effect of the preferences.
FollowedBy(old, new, shownView) ==
  IF CreateView(old) = CreateView(new) THEN shownView
  ELSE ReduceView(shownView, [type |-> "preferences_received", preferences |-> new])

\* The toolbar's choice is dispatched to the view as well.  A click first runs the
\* effects that wait, and is rendered, with its effects, before anything else.
ToolbarChooses(action, patch) ==
  /\ ~late /\ late' = FALSE
  /\ Changes(patch)
  /\ painted' = [prefs |-> chosen', view |-> ReduceView(view, action)]
  /\ view' = FollowedBy(followed, chosen', painted'.view)
  /\ window' = painted'.view.window /\ followed' = chosen'

Toolbar ==
  \/ \E w \in Windows :
       ToolbarChooses([type |-> "window_changed", window |-> w], [window |-> w])
  \/ \E a \in Axes :
       LET action == [type |-> "axis_visibility_changed", axis |-> a,
                      visible |-> a \notin painted.view.axes]
       IN ToolbarChooses(action, [axes |-> ReduceView(painted.view, action).axes])
-----------------------------------------------------------------------------
(* Storing *)

\* flushPreferences.  A request that nobody handles is rejected, and what it was to
\* store is not sent again.
TimerFires ==
  /\ timer /\ timer' = FALSE /\ queue' = NoPatch
  /\ \/ handlers = "registered" /\ Update(queue) /\ lost' = lost \ DOMAIN queue
     \/ handlers # "registered" /\ UNCHANGED chain /\ lost' = lost \union DOMAIN queue
  /\ UNCHANGED <<value, step, temporary, file, durable, answered, refused, crashes, chosen,
                 view, window, painted, late, followed, hydration, handlers, edits, touched,
                 host, lossy>>

\* boot registers the handlers once the page has been loaded.
Registers ==
  /\ handlers = "none" /\ handlers' = "registered" /\ hydration.state # "closed"
  /\ UNCHANGED <<storeVars, chosen, view, window, painted, late, followed, queue, timer,
                 hydration, editVars>>

\* The request for the stored choices is handled, or nobody is there to handle it.
HydrationAnswered ==
  /\ hydration.state = "asked"
  /\ hydration' = IF handlers = "registered" THEN [state |-> "answered", prefs |-> value]
                  ELSE [state |-> "refused"]
  /\ UNCHANGED <<storeVars, chosen, view, window, painted, late, followed, queue, timer,
                 handlers, editVars>>

\* Mutant: what was chosen before the answer is forgotten.
Hydrates_forgets ==
  /\ hydration.state = "answered" /\ hydration' = [state |-> "done"]
  /\ chosen' = Patched(hydration.prefs, queue)
  /\ queue' = NoPatch /\ UNCHANGED timer
  /\ UNCHANGED <<storeVars, view, window, painted, late, followed, handlers, editVars>>

\* The answer: with what was chosen meanwhile it is all to be stored.
Hydrates ==
  /\ hydration.state = "answered" /\ hydration' = [state |-> "done"]
  /\ chosen' = Patched(hydration.prefs, queue)
  /\ queue' = IF queue = NoPatch THEN queue ELSE chosen'
  /\ timer' = (queue # NoPatch)
  /\ UNCHANGED <<storeVars, view, window, painted, late, followed, handlers, editVars>>

\* No answer: with what was chosen all that is shown is to be stored.
HydrationFails ==
  /\ hydration.state = "refused" /\ hydration' = [state |-> "done"]
  /\ queue' = IF queue = NoPatch THEN queue ELSE Merge(painted.prefs, queue)
  /\ timer' = (queue # NoPatch)
  /\ host' = IF queue = NoPatch THEN host ELSE painted.prefs.sensorHost
  /\ UNCHANGED <<storeVars, chosen, view, window, painted, late, followed, handlers,
                 edits, touched, lossy, lost>>

\* connect stores its host.  Assumption on timing: nobody connects in the quarter
\* of a second in which what the viewer started with is to be stored with choices
\* made before it had it.
HostConnects ==
  /\ edits < MaxEdits /\ edits' = edits + 1
  /\ hydration.state = "done" /\ "sensorHost" \notin DOMAIN queue
  /\ handlers = "registered"
  /\ host' \in {"a", "b"} /\ Update([sensorHost |-> host'])
  /\ lost' = lost \ {"sensorHost"}
  /\ UNCHANGED <<value, step, temporary, file, durable, answered, refused, crashes,
                 choiceVars, touched, lossy>>

\* Quitting is asked for: the handlers go at once, the window when the backend has
\* stopped.
Quits ==
  /\ handlers = "registered" /\ handlers' = "removed"
  /\ UNCHANGED <<storeVars, chosen, view, window, painted, late, followed, queue, timer,
                 hydration, editVars>>

\* The window is closed.  Nothing unmounts App, whose cleanup would flush: the page is
\* gone, with its timer and with what waited for it.
Closes ==
  /\ hydration.state # "closed" /\ hydration' = [state |-> "closed"]
  /\ handlers' = "removed" /\ queue' = NoPatch /\ timer' = FALSE
  /\ lost' = lost \union DOMAIN queue
  /\ UNCHANGED <<storeVars, chosen, view, window, painted, late, followed, edits, touched,
                 host, lossy>>

Stores  == StoreStep /\ UNCHANGED <<choiceVars, editVars>>
Refuses == Fails /\ lossy' = TRUE /\ UNCHANGED <<choiceVars, edits, touched, host, lost>>

StartsAgain ==
  /\ Restarts
  /\ chosen' = Defaults /\ view' = CreateView(Defaults) /\ window' = Defaults.window
  /\ painted' = [prefs |-> chosen', view |-> view'] /\ late' = FALSE
  /\ followed' = Defaults /\ queue' = NoPatch /\ timer' = FALSE
  /\ hydration' = [state |-> "asked"] /\ handlers' = "none"
  /\ touched' = {} /\ host' = value'.sensorHost /\ lossy' = FALSE /\ lost' = {}
  /\ UNCHANGED edits
-----------------------------------------------------------------------------
(* Showing *)

Paints ==
  /\ ~late /\ painted # [prefs |-> chosen, view |-> view]
  /\ painted' = [prefs |-> chosen, view |-> view] /\ late' = TRUE
  /\ UNCHANGED <<storeVars, chosen, view, window, followed, queue, timer, hydration,
                 handlers, editVars>>

\* The effects of the preferences and of the view's window.
Follows ==
  /\ late /\ late' = FALSE /\ followed' = painted.prefs
  /\ view' = FollowedBy(followed, painted.prefs, view)
  /\ window' = painted.view.window
  /\ UNCHANGED <<storeVars, chosen, painted, queue, timer, hydration, handlers, editVars>>

PrefsNext ==
  \/ MenuChooses \/ Toolbar \/ HostConnects
  \/ HydrationAnswered \/ Hydrates \/ HydrationFails \/ TimerFires
  \/ Registers \/ Quits \/ Closes
  \/ Stores \/ Refuses \/ StartsAgain
  \/ Paints \/ Follows
-----------------------------------------------------------------------------
\* actions.test.tsx:404 and settings-store.test.ts:50: once nothing is on its way any
\* more, what was chosen since the start is what is stored, before and after the
\* stored choices arrived, by whichever way it came to the store, unless the store
\* refused an update.  What waits for the quarter of a second when the window is
\* closed, or runs out of it when nobody handles requests yet or any more, is lost.
Stored ==
  hydration.state \in {"done", "closed"} /\ chain = <<>> /\ ~timer /\ ~lossy =>
       /\ \A f \in touched \ lost : value[f] = chosen[f]
       /\ "sensorHost" \notin lost => value.sensorHost = host

\* ChartWorkspace.tsx:260: the view comes to what was chosen, by the toolbar, by a
\* menu or in an earlier run, and the model keeps the window that is shown.
Followed ==
  painted = [prefs |-> chosen, view |-> view] /\ ~late =>
    view = CreateView(chosen) /\ window = view.window

\* A choice arrives: in the store, and in the plot.
ChoicesArrive == Stored /\ Followed
=============================================================================

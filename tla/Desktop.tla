------------------------------- MODULE Desktop -------------------------------
(***************************************************************************)
(* The main process around its one window (main.ts): how boot puts the     *)
(* parts together, what the page is told of the window and may ask of it,  *)
(* and how both end.  The page is loaded while nothing handles its         *)
(* requests but the menu; until boot has bound the life cycle Electron     *)
(* quits as it does by default.  The supervisor is whether its stop has    *)
(* settled (Supervisor); the menu's state and commands are Controls'.      *)
(***************************************************************************)
EXTENDS Naturals, Sequences

CONSTANTS MaxNative  \* bound: changes of the native window, and messages on the way

VARIABLES
  boot,     \* what boot waits for, or "up", or "failed"
  win,      \* the native window: open, focused and in full screen
  announce, \* native events that are still to be emitted
  page,     \* "none", "loading", "subscribed" (App's effects have run) or "gone"
  titled,   \* windowFocused and fullScreen of App
  lane,     \* window states sent and not delivered
  asks,     \* window commands of the page on the way
  handled,  \* the main process: what is registered and not cleaned up
  quitting, \* quitRequested, allowQuit and whether the logs are closed
  backend,  \* the supervisor: "none", "started", "stopping", "stopped" or "stuck"
  exited,   \* the process has ended
  changes,  \* bound
  missed    \* history: a change was announced to nobody

windowVars  == <<win, announce, page, titled, lane, asks, changes, missed>>
desktopVars == <<windowVars, boot, handled, quitting, backend, exited>>

Registered == {"menu", "commands", "window-command", "window-state"}

DesktopInit ==
  /\ boot = "snapshot" /\ page = "none" /\ lane = <<>> /\ asks = {}
  /\ win = [open |-> FALSE, focused |-> TRUE, full |-> FALSE] /\ announce = 0
  /\ titled = [focused |-> TRUE, full |-> FALSE]
  /\ handled = {} /\ backend = "none" /\ exited = FALSE
  /\ quitting = [requested |-> FALSE, allowed |-> FALSE, logsClosed |-> FALSE]
  /\ changes = 0 /\ missed = FALSE

-----------------------------------------------------------------------------
(* boot *)

\* The assets are read, the window created, its menu installed and its page loaded.
\* A failure here leaves a process without a window.
CreatesWindow ==
  /\ boot = "snapshot" /\ ~exited
  /\ \/ /\ boot' = "load" /\ handled' = {"menu"}
        /\ win' = [win EXCEPT !.open = TRUE] /\ page' = "loading"
     \/ boot' = "failed" /\ UNCHANGED <<win, page, handled>>
  /\ UNCHANGED <<announce, titled, lane, asks, changes, missed, quitting, backend,
                 exited>>

\* The page's script has rendered App, before or after its loading is reported.
PageSubscribes ==
  /\ page = "loading" /\ page' = "subscribed"
  /\ UNCHANGED <<win, announce, titled, lane, asks, changes, missed, boot, handled,
                 quitting, backend, exited>>

\* The rest of boot is one task: the stores, the handlers, the life cycle and the
\* supervisor.  A store may refuse its directory, and a page not be loaded.
Boots ==
  /\ boot = "load" /\ ~exited
  /\ \/ /\ page \in {"loading", "subscribed"}
        /\ boot' = "up" /\ handled' = Registered /\ backend' = "started"
     \/ boot' = "failed" /\ UNCHANGED <<handled, backend>>
  /\ UNCHANGED <<windowVars, quitting, exited>>
-----------------------------------------------------------------------------
(* bindApplicationLifecycle *)

\* Mutant: the application may quit before the backend has stopped.
RequestQuit_allowed ==
  IF quitting.requested THEN UNCHANGED <<handled, quitting, backend>>
  ELSE /\ handled' = {} /\ backend' = "stopping"
       /\ quitting' = [quitting EXCEPT !.requested = TRUE, !.allowed = TRUE]

\* requestQuitAfterShutdown, with shutdown and cleanupRenderer, each once.
RequestQuit ==
  IF quitting.requested THEN UNCHANGED <<handled, quitting, backend>>
  ELSE /\ handled' = {} /\ backend' = "stopping"
       /\ quitting' = [quitting EXCEPT !.requested = TRUE]

\* Electron: the window is gone, and the process.
Exits == exited' = TRUE /\ win' = [win EXCEPT !.open = FALSE] /\ page' = "gone"

\* app.quit, from the menu, the system or the page.
Quit ==
  IF boot # "up" \/ quitting.allowed
  THEN Exits /\ UNCHANGED <<handled, quitting, backend>>
  ELSE RequestQuit /\ UNCHANGED <<exited, win, page>>

SystemQuits ==
  /\ ~exited /\ Quit
  /\ UNCHANGED <<announce, titled, lane, asks, changes, missed, boot>>

\* The operator closes the window: "closed", "destroyed" and "window-all-closed".
WindowCloses ==
  /\ win.open /\ ~exited
  /\ IF boot # "up" THEN Exits /\ UNCHANGED <<handled, quitting, backend>>
     ELSE /\ win' = [win EXCEPT !.open = FALSE] /\ page' = "gone"
          /\ RequestQuit /\ UNCHANGED exited
  /\ UNCHANGED <<announce, titled, lane, asks, changes, missed, boot>>

\* stop settles, in whichever way; the logs are closed, and the application quits.
StopSettles ==
  /\ backend = "stopping" /\ ~exited
  /\ backend' \in {"stopped", "stuck"}
  /\ quitting' = [quitting EXCEPT !.logsClosed = TRUE, !.allowed = TRUE]
  /\ Exits
  /\ UNCHANGED <<announce, titled, lane, asks, changes, missed, boot, handled>>
-----------------------------------------------------------------------------
(* window-command-handler.ts and the preload *)

\* The window changes; its event follows.
NativeChanges ==
  /\ win.open /\ ~exited /\ changes < MaxNative /\ changes' = changes + 1
  /\ \/ win' = [win EXCEPT !.focused = ~@]
     \/ win' = [win EXCEPT !.full = ~@]
  /\ announce' = announce + 1
  /\ UNCHANGED <<page, titled, lane, asks, missed, boot, handled, quitting, backend,
                 exited>>

\* Mutant: the state is that of the event's kind alone.
Published_focus == [focused |-> win.focused, full |-> FALSE]

\* What publish sends: the window as it is by then.
Published == [focused |-> win.focused, full |-> win.full]

Announces ==
  /\ announce > 0 /\ ~exited /\ announce' = announce - 1
  /\ IF "window-state" \in handled /\ win.open
     THEN lane' = Append(lane, Published) /\ missed' = FALSE
     ELSE missed' = TRUE /\ UNCHANGED lane
  /\ UNCHANGED <<win, page, titled, asks, changes, boot, handled, quitting, backend,
                 exited>>

\* A page that is not subscribed yet loses it.
Delivers ==
  /\ lane # <<>> /\ page # "gone" /\ lane' = Tail(lane)
  /\ IF page = "subscribed" THEN titled' = Head(lane) /\ UNCHANGED missed
     ELSE missed' = TRUE /\ UNCHANGED titled
  /\ UNCHANGED <<win, announce, page, asks, changes, boot, handled, quitting, backend,
                 exited>>

\* A window command of the page, by the title bar's menu.
PageAsks ==
  /\ page = "subscribed"
  /\ \E command \in {"quit", "toggle-full-screen", "open-external"} :
       asks' = asks \union {command}
  /\ UNCHANGED <<win, announce, page, titled, lane, changes, missed, boot, handled,
                 quitting, backend, exited>>

\* It is handled, unless nobody is registered, or the page is gone by then.
ExecuteWindowCommand(command) ==
  CASE command = "quit" -> Quit /\ UNCHANGED <<announce, changes>>
    [] command = "toggle-full-screen" ->
         /\ changes < MaxNative /\ changes' = changes + 1
         /\ win' = [win EXCEPT !.full = ~@] /\ announce' = announce + 1
         /\ UNCHANGED <<page, handled, quitting, backend, exited>>
    [] OTHER -> UNCHANGED <<announce, changes, win, page, handled, quitting, backend,
                            exited>>

WindowCommanded ==
  /\ ~exited
  /\ \E command \in asks :
       /\ asks' = asks \ {command}
       /\ IF "window-command" \in handled /\ win.open THEN ExecuteWindowCommand(command)
          ELSE UNCHANGED <<announce, changes, win, page, handled, quitting, backend,
                           exited>>
  /\ UNCHANGED <<titled, lane, missed, boot>>

DesktopNext ==
  \/ CreatesWindow \/ PageSubscribes \/ Boots
  \/ SystemQuits \/ WindowCloses \/ StopSettles
  \/ NativeChanges \/ Announces \/ Delivers \/ PageAsks \/ WindowCommanded
-----------------------------------------------------------------------------
\* security.test.ts:865 and 912, and "Backend shutdown failure must not trap the
\* application" (main.ts:608): a backend that was started is never left without its
\* stop having settled and the logs closed, however often and from wherever the
\* application was asked to quit; once it has settled the process has ended, and a
\* window is never left without one that handles its close.
QuitWaitsForTheBackend ==
  /\ exited /\ boot = "up" => quitting.logsClosed /\ backend \in {"stopped", "stuck"}
  /\ quitting.logsClosed => exited
  /\ boot = "up" /\ ~win.open /\ ~exited => backend = "stopping"
  /\ quitting.requested => handled = {}

\* window-command-handler.test.ts:140: the title bar shows the window as it is once
\* nothing is on the way, if the last change was announced to somebody.
TitleBarIsCurrent ==
  page = "subscribed" /\ announce = 0 /\ lane = <<>> /\ ~missed =>
    titled = [focused |-> win.focused, full |-> win.full]
=============================================================================

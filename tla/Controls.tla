------------------------------ MODULE Controls ------------------------------
(***************************************************************************)
(* The controls and what answers them: App's connection and Actions'       *)
(* commands, the handlers of the main process with their dialogs, and the  *)
(* companion as the session answers commands.  A press takes effect in     *)
(* the renderer, its command is answered by way of the main process, and   *)
(* the state it asked for arrives as an event, in any order with that      *)
(* answer; meanwhile connections, backends and recordings end by           *)
(* themselves.                                                             *)
(*                                                                         *)
(* The renderer's state and events are LiveView's; its scheduler and plot, *)
(* which no control reads, rest here.  The window stays open.              *)
(***************************************************************************)
EXTENDS LiveView, SequencesExt

CONSTANTS MaxCalls,  \* bound: commands the operator gives
          MaxStamps  \* bound: the stamps of the events

VARIABLES
  pending,  \* connectionPendingRef and Actions' pendingRef, by control
  drawn,    \* the pending flags as the last render had them
  reported, \* actionPending, as Actions' effect last told App
  effected, \* what the effects last saw: their dependencies, and disabled
  feedback, \* Actions' feedback
  calls,    \* tokenRef and connectionTokenRef: tokens given
  ops,      \* ipc-handlers: pending, by channel
  inbox,    \* the companion's commands
  menu,     \* application-menu: the MenuState it was last sent
  biased    \* history: the generations whose sensor was biased

renderer     == <<pending, drawn, reported, effected, feedback, calls>>
main         == <<ops, inbox, menu>>
controlsVars == <<liveVars, renderer, main, biased>>
resting      == <<scheduler, plot, past>>

Actions == {"pause", "bias", "record", "stop"}
Kinds   == {"connect", "disconnect", "pause", "resume", "bias", "record", "stop"}

\* The entry of a command, and the channel it is sent by.
Slot(kind) == CASE kind \in {"connect", "disconnect"} -> "connection"
                [] kind = "resume" -> "pause"
                [] OTHER -> kind
Channel(kind) == IF kind \in {"pause", "resume"} THEN "set_paused" ELSE kind
Channels == {Channel(kind) : kind \in Kinds}

NoEntry    == [token |-> 0]
NoOp       == [step |-> "free"]
NoFeedback == [action |-> "none"]

Streams(s) == s.backend.state = "running" /\ s.connection = "streaming"

MenuState(s, flags) ==
  [backendRunning |-> s.backend.state = "running", connection |-> s.connection,
   connectionPending |-> flags.connection, actionPending |-> flags.reported,
   paused |-> s.paused, recordingActive |-> s.recording.state \notin Idle]

\* What the effects of the controls depend on.
Dependencies(s) ==
  [scope |-> Scope(s), backend |-> s.backend.state, connection |-> s.connection,
   paused |-> s.paused, recording |-> s.recording.state]

\* No control was used yet, but the confirmation of a bias may still be open that
\* was asked for in a session that has ended.
ControlsInit(asked) ==
  /\ pending = [c \in Actions \union {"connection"} |-> NoEntry]
  /\ drawn = [connection |-> FALSE, actions |-> FALSE, reported |-> FALSE]
  /\ reported = FALSE /\ feedback = NoFeedback /\ calls = 0
  /\ effected = [now |-> Dependencies(app), disabled |-> FALSE]
  /\ ops = [c \in Channels |->
              IF c \in asked THEN [step |-> "asked", kind |-> c, callers |-> {},
                                   result |-> "none"]
              ELSE NoOp]
  /\ inbox = <<>> /\ menu = MenuState(app, drawn) /\ biased = {}

-----------------------------------------------------------------------------
(* The main process: one request of a channel at a time *)

Reply(channel, result) ==
  [type |-> "reply", channel |-> channel, callers |-> ops[channel].callers,
   result |-> result, at |-> 0]

\* supervisor.command, which throws where no backend runs.
Commands(channel, op) ==
  IF peer.backend = "running"
  THEN /\ inbox' = Append(inbox, channel)
       /\ ops' = [ops EXCEPT ![channel] = [op EXCEPT !.step = "sent"]]
       /\ UNCHANGED mail
  ELSE /\ mail' = Append(mail, [type |-> "reply", channel |-> channel, at |-> 0,
                                callers |-> op.callers, result |-> "thrown"])
       /\ ops' = [ops EXCEPT ![channel] = NoOp]
       /\ UNCHANGED inbox

\* deduplicated: a second request of a channel joins the first, whatever it asks.
Invoke(kind, token) ==
  LET channel == Channel(kind)
      op == [step |-> "asked", kind |-> kind, callers |-> {token}, result |-> "none"]
  IN IF ops[channel] # NoOp
     THEN /\ ops' = [ops EXCEPT ![channel].callers = @ \union {token}]
          /\ UNCHANGED <<inbox, mail>>
     ELSE IF kind \in {"bias", "record"}
     THEN ops' = [ops EXCEPT ![channel] = op] /\ UNCHANGED <<inbox, mail>>
     ELSE Commands(channel, op)

\* A dialog is answered: the confirmation of a bias, or the choice of a file with
\* the confirmation of its replacement.
DialogAnswered ==
  \E channel \in {"bias", "record"} :
    /\ ops[channel].step = "asked"
    /\ \/ Commands(channel, ops[channel])
       \/ \E result \in {"cancelled", "thrown"} :
            /\ channel = "bias" => result = "cancelled"
            /\ mail' = Append(mail, Reply(channel, result))
            /\ ops' = [ops EXCEPT ![channel] = NoOp]
            /\ UNCHANGED inbox
    /\ UNCHANGED <<world, app, shown, due, resting, renderer, menu, biased>>

\* The host of a connection is stored, or a warning is sent, before it is answered.
HostStored ==
  /\ ops["connect"].step = "saving"
  /\ mail' = Append(mail, Reply("connect", "ok"))
  /\ ops' = [ops EXCEPT !["connect"] = NoOp]
  /\ UNCHANGED <<world, app, shown, due, resting, renderer, inbox, menu,
                 biased>>
-----------------------------------------------------------------------------
(* The companion: the session answers one command after the other *)

Stamped(es) == [i \in DOMAIN es |-> At(clock + i, es[i])]

\* What a session may do with a command: what it is in then, what it sends, and
\* whether it answers with success.
Does(next, es, results) == {[next |-> next, events |-> es, ok |-> r] : r \in results}

RecordingEvent(state) ==
  [type |-> "recording_state", state |-> state, path |-> "", error |-> "",
   cuts |-> {}]

Disconnected ==
  Does([peer EXCEPT !.link = "disconnected", !.paused = FALSE, !.recording = "idle"],
       <<LinkEvent("disconnecting", peer.generation, FALSE)>>
         \o (IF peer.recording = "idle" THEN <<>> ELSE <<RecordingEvent("idle")>>)
         \o <<LinkEvent("disconnected", peer.generation, FALSE)>>, {TRUE})

Paused(flag) ==
  Does([peer EXCEPT !.paused = flag],
       <<LinkEvent("streaming", peer.generation, flag)>>, BOOLEAN)

Connected ==
  LET gen == peer.generation + 1
      begun == [peer EXCEPT !.link = "connecting", !.generation = gen]
  IN Does(begun, <<LinkEvent("connecting", gen, FALSE)>>, {TRUE})
     \union Does([begun EXCEPT !.link = "error"],
                 <<LinkEvent("connecting", gen, FALSE), LinkEvent("error", gen, FALSE)>>,
                 {FALSE})

Answers(kind) ==
  LET unchanged(results) == Does(peer, <<>>, results)
      live == peer.link = "streaming"
  IN CASE kind = "connect"    -> IF peer.link = "disconnected" THEN Connected
                                 ELSE unchanged({FALSE})
       [] kind = "disconnect" -> IF peer.link = "disconnected" THEN unchanged({TRUE})
                                 ELSE Disconnected
       [] kind \in {"pause", "resume"} ->
            IF ~live THEN unchanged({FALSE})
            ELSE IF peer.paused = (kind = "pause") THEN unchanged({TRUE})
            ELSE Paused(kind = "pause")
       [] kind = "bias"       -> unchanged(IF live /\ ~peer.paused THEN BOOLEAN
                                           ELSE {FALSE})
       [] kind = "record"     ->
            IF live /\ ~peer.paused /\ peer.recording = "idle"
            THEN unchanged({FALSE}) \union
                 Does([peer EXCEPT !.recording = "recording"],
                      <<RecordingEvent("recording")>>, {TRUE})
            ELSE unchanged({FALSE})
       [] OTHER               -> \* "stop"
            IF peer.recording = "idle" THEN unchanged({FALSE})
            ELSE Does([peer EXCEPT !.recording = "idle"],
                      <<RecordingEvent("idle")>>, BOOLEAN)

\* The answer of the companion reaches the main process: a request is over, or a
\* connection's host is to be stored.
Result(does) == IF does.ok THEN "ok" ELSE "failed"
Over(channel, does) ==
  [ops EXCEPT ![channel] = IF channel = "connect" /\ does.ok
                           THEN [@ EXCEPT !.step = "saving"] ELSE NoOp]
Told(channel, does) ==
  IF channel = "connect" /\ does.ok THEN <<>> ELSE <<Reply(channel, Result(does))>>

\* The responses are written before the events that wait, but an event may already
\* have been written.
Executes ==
  /\ inbox # <<>> /\ \A c \in Channels : ops[c].step # "done"
  /\ LET channel == Head(inbox) IN
     \E does \in Answers(ops[channel].kind) :
       /\ clock + Len(does.events) <= MaxEvents
       /\ clock' = clock + Len(does.events) /\ peer' = does.next
       /\ biased' = IF channel = "bias" /\ does.ok
                    THEN biased \union {peer.generation} ELSE biased
       /\ inbox' = Tail(inbox)
       /\ \/ /\ ops' = Over(channel, does)
             /\ mail' = mail \o Told(channel, does) \o Stamped(does.events)
          \/ /\ does.events # <<>>
             /\ ops' = [ops EXCEPT ![channel].step = "done",
                                   ![channel].result = Result(does)]
             /\ mail' = mail \o Stamped(does.events)
  /\ UNCHANGED <<app, shown, due, resting, renderer, menu>>

Answered ==
  \E channel \in Channels :
    /\ ops[channel].step = "done"
    /\ LET does == [ok |-> ops[channel].result = "ok"]
       IN ops' = Over(channel, does) /\ mail' = mail \o Told(channel, does)
    /\ UNCHANGED <<world, app, shown, due, resting, renderer, inbox, menu,
                   biased>>

\* Assumption on timing: a recording fails once it is shown, and
\* the command that began it, the last the mail has of any, answered.
RecordingFails ==
  /\ \A c \in Channels : ops[c].step # "done"
  /\ peer.recording = "recording" /\ shown.recording.state = "recording" /\ due = 0
  /\ \A i \in DOMAIN mail : /\ mail[i].type # "recording_state"
                            /\ mail[i].type = "reply" => mail[i].channel # "record"
  /\ peer' = [peer EXCEPT !.recording = "error"]
  /\ Sends(<<RecordingEvent("error")>>)

\* What the session and the companion come to by themselves.
Unasked ==
  /\ \/ BackendRuns \/ RecordingFails \/ \E link \in Connections : LinkChanges(link)
  /\ UNCHANGED <<renderer, main, biased>>

\* The requests the companion had are rejected; the events are there first.
CompanionDies ==
  /\ peer.backend = "running" /\ clock + 2 <= MaxEvents
  /\ peer' = [NoLink EXCEPT !.backend = "starting"] /\ clock' = clock + 2
  /\ LET lost == SetToSeq({c \in Channels : ops[c].step \in {"sent", "done"}})
     IN /\ mail' = mail \o Stamped(<<[type |-> "backend_disconnected", restart |-> TRUE,
                                      cuts |-> {}], BackendEvent("starting")>>)
                        \o [i \in DOMAIN lost |-> Reply(lost[i], "thrown")]
        /\ ops' = [c \in Channels |-> IF c \in ToSet(lost) THEN NoOp ELSE ops[c]]
  /\ inbox' = <<>> /\ UNCHANGED biased
  /\ UNCHANGED <<app, shown, due, resting, renderer, menu>>
-----------------------------------------------------------------------------
(* The renderer: commands given *)

Pending(slots) == \E c \in slots : pending[c] # NoEntry

\* What a command is given to: a backend, and for one of the measurement a stream.
Serves(kind, s) == /\ s.backend.state = "running"
                   /\ kind \notin {"connect", "disconnect"} => s.connection = "streaming"

\* run and runConnection: the entry, and the request.
Gives(kind) ==
  /\ pending[Slot(kind)] = NoEntry
  /\ calls < MaxCalls /\ calls' = calls + 1
  /\ pending' = [pending EXCEPT ![Slot(kind)] =
                   [token |-> calls', kind |-> kind, complete |-> FALSE,
                    scope |-> Scope(shown), live |-> Serves(kind, shown),
                    began |-> /\ ops[Channel(kind)] = NoOp
                              /\ kind = "stop" => ops["record"] = NoOp]]
  /\ feedback' = IF Slot(kind) = "connection" THEN feedback ELSE NoFeedback
  /\ Invoke(kind, calls')
  /\ UNCHANGED <<world, app, shown, due, resting, drawn, reported, effected, menu,
                 biased>>

\* What a command of the measurement asks for: togglePause, requestBias and
\* toggleRecording, with disabled as their closure has it.
Asks(command, disabled) ==
  IF disabled \/ Pending(Actions) THEN "nothing"
  ELSE CASE command = "toggle-recording" /\ shown.recording.state \notin Idle -> "stop"
         [] ~Streams(shown)             -> "nothing"
         [] command = "toggle-pause"    -> IF shown.paused THEN "resume" ELSE "pause"
         [] shown.paused                -> "nothing"
         [] command = "bias"            -> "bias"
         [] shown.recording.state = "error" -> "nothing"
         [] OTHER                       -> "record"

\* What a menu offers in a state: buildDesktopMenuModel.
Active == {"connecting", "streaming", "reconnecting", "disconnecting"}

Offered(m) ==
  LET free == ~m.connectionPending /\ ~m.actionPending
      live == m.backendRunning /\ m.connection = "streaming" /\ free
  IN {c \in {"connect", "disconnect"} :
        /\ m.backendRunning /\ ~m.connectionPending
        /\ (c = "disconnect") = (m.connection \in Active)}
     \union {c \in {"bias"} : live /\ ~m.paused}
     \union {c \in {"toggle-recording"} : IF m.recordingActive THEN free
                                          ELSE live /\ ~m.paused}
     \union {c \in {"toggle-pause"} : live}

\* dispatchMenuCommand: what a command asks for when it arrives.
Meant(command, disabled) ==
  IF command \in {"connect", "disconnect"} THEN command ELSE Asks(command, disabled)

\* A button, or the title bar's menu: a click first runs the effects that wait.
Click ==
  /\ due = 0
  /\ LET busy == drawn.connection
         free == ~busy /\ ~drawn.actions
         panel == {c \in {"connect", "disconnect"} :
                     /\ shown.backend.state = "running" /\ ~busy
                     /\ shown.connection # "disconnecting"
                     /\ (c = "disconnect") = (shown.connection \in Active)}
         buttons == {c \in {"toggle-pause", "bias", "toggle-recording"} :
                       \/ free
                       \/ /\ c = "toggle-recording" /\ shown.recording.state \notin Idle
                          /\ ~busy /\ pending["stop"] = NoEntry}
     IN \E kind \in {Meant(c, busy) : c \in panel \union buttons}
                    \union {Meant(c, effected.disabled) :
                              c \in Offered(MenuState(shown, drawn))} :
          kind # "nothing" /\ Gives(kind)

\* The menu of the main process offers what it was last told, which may be of an
\* earlier render; what its command means is decided when it arrives.
MenuChosen ==
  \E c \in Offered(menu) :
    LET kind == Meant(c, effected.disabled) IN kind # "nothing" /\ Gives(kind)
-----------------------------------------------------------------------------
(* The renderer: answers, events, renders and effects *)

\* expectedStateReached and completeConnectionIfAuthoritative
Reached(kind, s) ==
  CASE kind = "connect"    -> s.connection \notin {"disconnected", "error"}
    [] kind = "disconnect" -> s.connection = "disconnected"
    [] kind = "pause"      -> s.paused
    [] kind = "resume"     -> ~s.paused
    [] kind = "bias"       -> TRUE
    [] kind = "record"     -> s.recording.state \notin Idle
    [] kind = "stop"       -> s.recording.state \in Idle

\* Mutant: the answer counts whatever session is shown by then.
ActionAnswered_anySession(slot, result) ==
  LET entry == pending[slot] IN
  /\ pending' = [pending EXCEPT ![slot] =
                   IF result # "ok" \/ Reached(entry.kind, shown) THEN NoEntry
                   ELSE [entry EXCEPT !.complete = TRUE]]
  /\ feedback' = IF result = "ok"
                 THEN IF slot # "bias" THEN feedback
                      ELSE [action |-> slot, result |-> "success", scope |-> entry.scope]
                 ELSE IF result = "cancelled" THEN feedback
                 ELSE [action |-> slot, result |-> "error", scope |-> entry.scope]

\* The continuation of run.
ActionAnswered(slot, result) ==
  LET entry == pending[slot]
      live == entry.scope = Scope(shown) /\ Streams(shown)
  IN IF ~live THEN UNCHANGED <<pending, feedback>>
     ELSE /\ pending' = [pending EXCEPT ![slot] =
                           IF result # "ok" \/ Reached(entry.kind, shown) THEN NoEntry
                           ELSE [entry EXCEPT !.complete = TRUE]]
          /\ feedback' = IF result = "ok"
                         THEN IF slot # "bias" THEN feedback
                              ELSE [action |-> slot, result |-> "success",
                                    scope |-> entry.scope]
                         ELSE IF result = "cancelled" THEN feedback
                         ELSE [action |-> slot, result |-> "error", scope |-> entry.scope]

\* The continuation of runConnection.
ConnectionAnswered(result) ==
  LET entry == pending["connection"]
      stale == entry.scope # Scope(shown) \/ shown.backend.state # "running"
  IN /\ pending' = [pending EXCEPT !["connection"] =
                      IF stale \/ result # "ok" \/ Reached(entry.kind, shown)
                      THEN NoEntry ELSE [entry EXCEPT !.complete = TRUE]]
     /\ UNCHANGED feedback

\* The entry that waits for this answer, if it still does.
TakeReply(e) ==
  LET waiting == {c \in DOMAIN pending : pending[c].token \in e.callers}
  IN IF waiting = {} THEN UNCHANGED <<pending, feedback>>
     ELSE \E slot \in waiting :
            IF slot = "connection" THEN ConnectionAnswered(e.result)
            ELSE ActionAnswered(slot, e.result)

TakeMail ==
  /\ mail # <<>> /\ mail' = Tail(mail)
  /\ due <= MaxLag /\ due' = IF due = 0 THEN 0 ELSE due + 1
  /\ LET e == Head(mail)
     IN IF e.type = "reply" THEN TakeReply(e) /\ UNCHANGED app
        ELSE app' = Reduce(app, e) /\ UNCHANGED <<pending, feedback>>
  /\ UNCHANGED <<world, shown, resting, drawn, reported, effected, calls, main, biased>>

Flags == [connection |-> pending["connection"] # NoEntry,
          actions |-> Pending(Actions), reported |-> reported]

RenderControls ==
  /\ due = 0 /\ <<app, Flags>> # <<shown, drawn>>
  /\ shown' = app /\ drawn' = Flags /\ due' = 1
  /\ UNCHANGED <<world, mail, app, resting, pending, reported, effected, feedback,
                 calls, main, biased>>

\* Mutant: an action waits for a session that has ended.
AfterActions_keeps ==
  LET now == Dependencies(shown)
      done(c) == /\ pending[c].token # 0 /\ pending[c].scope = now.scope
                 /\ pending[c].complete /\ Reached(pending[c].kind, shown)
  IN IF now = effected.now THEN [pending |-> pending, feedback |-> feedback]
     ELSE [pending |-> [c \in DOMAIN pending |->
                          IF c \in Actions /\ done(c) THEN NoEntry ELSE pending[c]],
           feedback |-> feedback]

\* Actions' effect, and then App's.
AfterActions ==
  LET now == Dependencies(shown)
      over == now.scope # effected.now.scope \/ ~Streams(shown)
      done(c) == /\ pending[c].token # 0 /\ pending[c].scope = now.scope
                 /\ pending[c].complete /\ Reached(pending[c].kind, shown)
  IN IF now = effected.now THEN [pending |-> pending, feedback |-> feedback]
     ELSE [pending |-> [c \in DOMAIN pending |->
                          IF c \in Actions /\ (over \/ done(c)) THEN NoEntry
                          ELSE pending[c]],
           feedback |-> IF over THEN NoFeedback ELSE feedback]

ConnectionEnds ==
  LET now == Dependencies(shown)
      entry == pending["connection"]
      same(f) == now[f] = effected.now[f]
  IN /\ entry # NoEntry
     /\ ~(same("scope") /\ same("backend") /\ same("connection"))
     /\ \/ now.backend # "running" \/ entry.scope # now.scope
        \/ entry.complete /\ Reached(entry.kind, shown)

ControlsEffects ==
  /\ due # 0 /\ due' = 0
  /\ pending' = [AfterActions.pending EXCEPT
                   !["connection"] = IF ConnectionEnds THEN NoEntry ELSE @]
  /\ feedback' = AfterActions.feedback
  /\ reported' = drawn.actions
  /\ effected' = [now |-> Dependencies(shown), disabled |-> drawn.connection]
  /\ menu' = MenuState(shown, drawn)
  /\ UNCHANGED <<world, mail, app, shown, resting, drawn, calls, ops, inbox, biased>>

ControlsNext ==
  /\ \/ DialogAnswered \/ HostStored \/ Executes \/ Answered
     \/ Unasked \/ CompanionDies
     \/ Click \/ MenuChosen
     \/ TakeMail \/ RenderControls \/ ControlsEffects
  /\ clock' <= MaxStamps
-----------------------------------------------------------------------------
Shown == app = shown /\ due = 0

\* Nothing is left to come of what was asked.
Quiet ==
  /\ Shown /\ drawn = Flags /\ mail = <<>> /\ inbox = <<>>
  /\ \A c \in Channels : ops[c] = NoOp

\* actions.test.tsx:211 and sidebar.test.tsx:276: once everything asked has been
\* answered no control waits any more, whatever ended meanwhile.  Left out are the
\* commands of which the code does not keep this: those that joined a request of an
\* earlier press, a stop given while the record of an earlier press was under way,
\* and those given when there was nothing that could have carried them out.
ButtonsComeBack ==
  Quiet => \A c \in DOMAIN pending :
             pending[c] # NoEntry => ~pending[c].began \/ ~pending[c].live

\* actions.test.tsx:172 "clears stale pending state at a connection-generation
\* boundary": what is reported of a command is of the session that is shown, and a
\* bias reported as applied was applied to its sensor, though a request may have
\* been joined by a press of a later session and its answer may come in any state.
FeedbackIsOfThisSession ==
  Shown /\ feedback # NoFeedback =>
    /\ feedback.scope = Scope(shown) /\ Streams(shown)
    /\ feedback.result = "success" => feedback.scope.generation \in biased
=============================================================================

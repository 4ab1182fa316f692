--------------------------- MODULE SettingsStore ---------------------------
(***************************************************************************)
(* The settings of the viewer: a value in memory, updates that wait for    *)
(* each other, and a file that is replaced by way of a temporary one.  The *)
(* program may end, and the machine may lose what it has not flushed,      *)
(* between any two calls of the operating system; each of them may fail.   *)
(***************************************************************************)
EXTENDS AppState, Sequences

CONSTANTS
  Defaults,    \* DEFAULT_PREFERENCES, a function from the fields
  MaxCrashes   \* bound: how often the program ends

ASSUME StoreConstants ==
  /\ Defaults = [f \in DOMAIN Defaults |-> Defaults[f]]
  /\ {"sensorHost", "plotMode", "window", "axes"} \subseteq DOMAIN Defaults

VARIABLES
  value,     \* what update and snapshot go by
  chain,     \* writeTail: the updates that wait, the first being written
  step,      \* how far its write is
  temporary, \* the temporary file: "none", "torn", "whole"
  file,      \* what a reader of the path finds
  durable,   \* what a reader finds there after the power was lost
  answered,  \* history: the value last answered, or what the power came back to
  refused,   \* history: values put there by updates never answered, since then
  crashes    \* history

storeVars == <<value, chain, step, temporary, file, durable, answered, refused, crashes>>

Steps == {"idle", "open", "flushed", "renamed", "permitted"}

\* A settings file, or something that is none.
Content(whole, v) == [whole |-> whole, value |-> v]

\* read: anything that is not a settings file gives the defaults.
Read(content) == IF content.whole THEN content.value ELSE Defaults

StoreInit ==
  /\ value = Defaults /\ chain = <<>> /\ step = "idle" /\ temporary = "none"
  /\ file = Content(TRUE, Defaults) /\ durable = file
  /\ answered = Defaults /\ refused = {} /\ crashes = 0

\* update: the patch is applied to the value it finds when its turn comes.
Update(patch) == chain' = Append(chain, patch)

Written == Patched(value, Head(chain))

Advance(from, to) == chain # <<>> /\ step = from /\ step' = to

Opens == /\ Advance("idle", "open") /\ temporary' = "torn"
         /\ UNCHANGED <<value, chain, file, durable, answered, refused, crashes>>

\* writeFileSync and fsyncSync
Flushes == /\ Advance("open", "flushed") /\ temporary' = "whole"
           /\ UNCHANGED <<value, chain, file, durable, answered, refused, crashes>>

\* A reader of this boot finds what was written; one of the next may find either
\* file under the name, with what was flushed of it.
Renames ==
  /\ Advance("flushed", "renamed") /\ temporary' = "none"
  /\ file' = Content(TRUE, Written)
  /\ durable' \in {durable, Content(temporary = "whole", Written)}
  /\ UNCHANGED <<value, chain, answered, refused, crashes>>

\* chmodSync
Permits == /\ Advance("renamed", "permitted")
           /\ UNCHANGED <<value, chain, temporary, file, durable, answered, refused, crashes>>

\* Mutant: the directory is not flushed.
Acknowledges_unflushed ==
  /\ Advance("permitted", "idle")
  /\ value' = Written /\ chain' = Tail(chain)
  /\ answered' = Written /\ refused' = {}
  /\ UNCHANGED <<durable, temporary, file, crashes>>

\* safelyFsyncDirectory, on a system that supports it; the update is answered.
Acknowledges ==
  /\ Advance("permitted", "idle")
  /\ durable' = file
  /\ value' = Written /\ chain' = Tail(chain)
  /\ answered' = Written /\ refused' = {}
  /\ UNCHANGED <<temporary, file, crashes>>

\* The catch of write, or a patch that is none: the update is refused.
Fails ==
  /\ chain # <<>> /\ chain' = Tail(chain)
  /\ step' = "idle" /\ temporary' = "none"
  /\ refused' = IF step \in {"renamed", "permitted"} THEN refused \union {Written}
                ELSE refused
  /\ UNCHANGED <<value, file, durable, answered, crashes>>

StoreStep == Opens \/ Flushes \/ Renames \/ Permits \/ Acknowledges

\* What was put under the name and not answered.
Unanswered ==
  refused \union IF step \in {"renamed", "permitted"} THEN {Written} ELSE {}

\* The program ends and is started again: by itself it changes nothing of the files,
\* so that what was put under the name and not flushed may still be lost later; with
\* the machine, what was flushed is all there is.
Restarts ==
  /\ crashes < MaxCrashes /\ crashes' = crashes + 1
  /\ \/ file' = file /\ UNCHANGED answered /\ refused' = Unanswered
     \/ file' = durable /\ answered' = Read(durable) /\ refused' = {}
  /\ value' = Read(file') /\ UNCHANGED durable
  /\ chain' = <<>> /\ step' = "idle" /\ UNCHANGED temporary
-----------------------------------------------------------------------------
\* settings-store.test.ts: whenever the program or the machine ends, and however often,
\* the next start finds a whole settings file, and in it what was last answered, or
\* an update that was put there since and not yet, or never, answered: no answered
\* choice is lost.
StoredIsKept ==
  \A content \in {file, durable} :
    content.whole /\ content.value \in {answered} \union Unanswered
=============================================================================

------------------------------ MODULE LogStore ------------------------------
(***************************************************************************)
(* The log of the companion (app/main/log-store.ts): a file and the older  *)
(* ones it has been rotated to.  An append is one call, synchronous, of    *)
(* several steps on the disk; each of them may fail, which ends the call,  *)
(* and the process may end between any two.  An entry is its number; its   *)
(* text, and the directory's and the files' permissions, are left out.     *)
(***************************************************************************)
EXTENDS Naturals, SequencesExt

CONSTANTS RetainedFiles,  \* retainedFiles
          MaximumBytes,   \* maximumBytes, in the units of SizeOf
          MaxEntries      \* bound: calls of append

ASSUME LogAssumption ==
  RetainedFiles \in Nat \ {0, 1} /\ MaximumBytes \in Nat \ {0, 1} /\ MaxEntries \in Nat

VARIABLES
  files,        \* by index the entries; no file and an empty one are both <<>>
  currentBytes, \* as the store believes
  appending,    \* the next step of append
  moving,       \* the index rotate is at
  entries,      \* history: calls of append
  kept,         \* history: the entries that were written
  cutShort      \* history: what did not come to its end, "rotate" or "write"

logVars == <<files, currentBytes, appending, moving, entries, kept, cutShort>>

Indices == 0..(RetainedFiles - 1)   \* 0 is the log itself, else rotatedPath(index)

\* boundedEntry: an entry is cut to the most that one may have, here 2.
SizeOf(n) == 1 + (n % 2)
Bytes(file) ==
  LET upTo[n \in 0..Len(file)] == IF n = 0 THEN 0 ELSE upTo[n - 1] + SizeOf(file[n])
  IN upTo[Len(file)]

\* The log earlier runs have left, from none to one in every file; entry 1 fills a
\* file, and so does each later one with the next.
LogInit ==
  /\ entries \in 0..RetainedFiles
  /\ kept = [n \in 1..entries |-> n]
  /\ files = [i \in Indices |-> IF i < entries THEN <<entries - i>> ELSE <<>>]
  /\ currentBytes = Bytes(files[0]) /\ appending = "idle" /\ moving = 0
  /\ cutShort = {}

Progress(next) == appending' = next /\ UNCHANGED <<entries, kept, cutShort>>

\* append: whether to rotate first.
Appends ==
  /\ appending = "idle" /\ entries < MaxEntries
  /\ entries' = entries + 1
  /\ appending' = IF currentBytes + SizeOf(entries') > MaximumBytes
                  THEN "unlink" ELSE "write"
  /\ UNCHANGED <<files, currentBytes, moving, kept, cutShort>>

\* rotate: the oldest is removed.
Unlinks ==
  /\ appending = "unlink"
  /\ files' = [files EXCEPT ![RetainedFiles - 1] = <<>>]
  /\ moving' = RetainedFiles - 2
  /\ Progress("rename") /\ UNCHANGED currentBytes

\* A file that is there takes the place of the next.
Renamed(i) == IF files[i] = <<>> THEN files
              ELSE [files EXCEPT ![i] = <<>>, ![i + 1] = files[i]]

\* Mutant: the newest is renamed first.
RenamesOlder_ascending ==
  /\ appending = "rename" /\ moving >= 1
  /\ LET i == RetainedFiles - 1 - moving
     IN files' = Renamed(i)
  /\ moving' = moving - 1
  /\ Progress("rename") /\ UNCHANGED currentBytes

\* Each older one takes the next index, from the oldest on.
RenamesOlder ==
  /\ appending = "rename" /\ moving >= 1
  /\ files' = Renamed(moving)
  /\ moving' = moving - 1
  /\ Progress("rename") /\ UNCHANGED currentBytes

RenamesCurrent ==
  /\ appending = "rename" /\ moving = 0
  /\ files' = Renamed(0)
  /\ currentBytes' = 0
  /\ Progress("write") /\ UNCHANGED moving

Writes ==
  /\ appending = "write" /\ appending' = "idle"
  /\ files' = [files EXCEPT ![0] = Append(@, entries)]
  /\ currentBytes' = currentBytes + SizeOf(entries)
  /\ kept' = Append(kept, entries)
  /\ UNCHANGED <<moving, entries, cutShort>>

CutShort ==
  cutShort' = cutShort \union
                (IF appending = "idle" THEN {} ELSE IF appending = "write" THEN {"write"}
                 ELSE {"rotate"})

\* A step throws: the supervisor goes on without this entry.  A write may have
\* written some of it.
AppendFails ==
  /\ appending # "idle" /\ appending' = "idle"
  /\ CutShort
  /\ UNCHANGED <<files, currentBytes, moving, entries, kept>>

\* The process ends, in the middle of a call or not, and the viewer is started again.
LogReopened ==
  /\ entries > 0 /\ appending' = "idle"
  /\ currentBytes' = Bytes(files[0])
  /\ <<appending', currentBytes'>> # <<appending, currentBytes>>
  /\ CutShort /\ UNCHANGED <<files, moving, entries, kept>>

LogNext == \/ Appends \/ Unlinks \/ RenamesOlder \/ RenamesCurrent \/ Writes
           \/ AppendFails \/ LogReopened
-----------------------------------------------------------------------------
\* What there is to read, from the oldest file to the newest.
Retained ==
  FlattenSeq([i \in 1..RetainedFiles |-> files[RetainedFiles - i]])

\* companion-supervisor.test.ts:521 "keeps five bounded files": whichever step failed
\* or never came, what is left to read is the end of what was written, in order and
\* without a gap; no file is larger than it may be, but for what a failed write has
\* left; and where no rotation was cut short nothing is gone before every older file is used.
LogIsATail ==
  /\ IsSuffix(Retained, kept)
  /\ "write" \notin cutShort => \A i \in Indices : Bytes(files[i]) <= MaximumBytes
  /\ appending = "idle" /\ "rotate" \notin cutShort /\ Retained # kept =>
       \A i \in Indices \ {0} : files[i] # <<>>
=============================================================================

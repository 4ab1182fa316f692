------------------------------ MODULE EventSink ------------------------------
(***************************************************************************)
(* SessionEventSink and the SessionEventQueue inside it: the bounded       *)
(* hand-off between the session's threads and the one consumer that writes *)
(* events out, and the lease that says which measurements may still be     *)
(* written.  Every operation is one critical section of the sink's mutex.  *)
(* The operators only say what happens to the sink's own variables, and    *)
(* whoever extends this module (Session, Companion) makes actions of them. *)
(***************************************************************************)
EXTENDS Naturals, Sequences, SequencesExt, FiniteSetsExt, Selection

CONSTANTS Capacity,       \* SessionEventQueue::capacity (64)
          ErrorCapacity   \* SessionEventQueue::error_capacity (16)

ASSUME SinkConstants ==
  /\ Capacity \in Nat /\ ErrorCapacity \in Nat
  /\ 0 < ErrorCapacity /\ ErrorCapacity < Capacity

VARIABLES
  events,      \* events_
  dropped,     \* dropped_errors_
  epoch,       \* next_measurement_epoch, the epoch of measurement_state
  leaseValid,  \* measurement_state->valid
  finishing,   \* finishing
  closed,      \* closed
  held         \* the event the consumer has popped and not yet written

queued == <<events, dropped>>
lease  == <<epoch, leaseValid>>
ended  == <<finishing, closed>>
sink   == <<queued, lease, ended, held>>

Kinds == {"connection", "health", "sample", "plot", "recording",
          "configuration", "error"}

\* A SessionEvent: epoch is that of its measurement lease, lost is the
\* dropped_before of an error.
Event(kind, gen, body) ==
  [kind |-> kind, gen |-> gen, body |-> body, epoch |-> 0, lost |-> 0]

NoEvent == Event("none", 0, 0)

IsError(e)       == e.kind = "error"
IsMeasurement(e) == e.kind \in {"sample", "plot"}
SameSlot(e, f)   == e.gen = f.gen /\ e.kind = f.kind

\* valid_for_delivery: begin_measurements revokes the lease it replaces, so the
\* only one that can be valid is the current one.
Deliverable(e) == IsMeasurement(e) => leaseValid /\ e.epoch = epoch

Errors(q)    == {i \in DOMAIN q : IsError(q[i])}
Snapshots(q) == DOMAIN q \ Errors(q)

SinkInit == /\ events = <<>> /\ dropped = 0
            /\ epoch = 0 /\ leaseValid = FALSE
            /\ finishing = FALSE /\ closed = FALSE
            /\ held = NoEvent
-----------------------------------------------------------------------------
\* Mutant: a full queue lets its oldest entry go, whatever it is.
Push_oldest(e) ==
  LET slot   == {i \in Snapshots(events) : ~IsError(e) /\ SameSlot(events[i], e)}
      tail   == IsError(e) /\ Cardinality(Errors(events)) >= ErrorCapacity
      kept   == IF tail THEN RemoveAt(events, Min(Errors(events))) ELSE events
      full   == Len(kept) >= Capacity
      room   == IF full THEN Tail(kept) ELSE kept
      losses == Cardinality(Errors(events)) - Cardinality(Errors(room))
  IN IF slot # {}
     THEN /\ events' = [events EXCEPT ![Min(slot)] = e]
          /\ UNCHANGED dropped
     ELSE /\ dropped' = dropped + losses
          /\ events' = Append(room, IF IsError(e) /\ losses > 0
                                    THEN [e EXCEPT !.lost = dropped + losses]
                                    ELSE e)

\* SessionEventQueue::push.  A snapshot replaces the queued one of its slot; an
\* error goes to the end, where only ErrorCapacity of them are kept.  When the
\* queue is full the oldest snapshot makes room, or the oldest error.
Push(e) ==
  LET slot   == {i \in Snapshots(events) : ~IsError(e) /\ SameSlot(events[i], e)}
      tail   == IsError(e) /\ Cardinality(Errors(events)) >= ErrorCapacity
      kept   == IF tail THEN RemoveAt(events, Min(Errors(events))) ELSE events
      full   == Len(kept) >= Capacity
      victim == Min(IF Snapshots(kept) # {} THEN Snapshots(kept) ELSE Errors(kept))
      room   == IF full THEN RemoveAt(kept, victim) ELSE kept
      losses == Cardinality(Errors(events)) - Cardinality(Errors(room))
  IN IF slot # {}
     THEN /\ events' = [events EXCEPT ![Min(slot)] = e]
          /\ UNCHANGED dropped
     ELSE /\ dropped' = dropped + losses
          /\ events' = Append(room, IF IsError(e) /\ losses > 0
                                    THEN [e EXCEPT !.lost = dropped + losses]
                                    ELSE e)

\* SessionEventSink::enqueue: a measurement takes the current lease.
Enqueue(e) ==
  IF finishing \/ closed \/ (IsMeasurement(e) /\ ~leaseValid)
  THEN UNCHANGED queued
  ELSE Push(IF IsMeasurement(e) THEN [e EXCEPT !.epoch = epoch] ELSE e)

Purge(gen) ==
  /\ events' = Keep(events, {i \in DOMAIN events :
                      ~(IsMeasurement(events[i]) /\ events[i].gen = gen)})
  /\ UNCHANGED dropped

Retain(gen) ==
  /\ events' = IF finishing \/ closed THEN events
               ELSE Keep(events, {i \in DOMAIN events : events[i].gen = gen})
  /\ UNCHANGED dropped

\* Mutant: the lease is made valid again instead of replaced.
Begin_again == /\ ~finishing /\ ~closed
               /\ UNCHANGED epoch /\ leaseValid' = TRUE

\* begin_measurements, and the same when the new lease cannot be allocated.
Begin == /\ ~finishing /\ ~closed
         /\ epoch' = epoch + 1 /\ leaseValid' = TRUE

BeginFails == /\ leaseValid' = IF finishing \/ closed THEN leaseValid ELSE FALSE
              /\ UNCHANGED epoch

Revoke == leaseValid' = FALSE /\ UNCHANGED epoch

\* finish purges the measurements of generation 0 (no session has it).
Finish == /\ ~finishing /\ ~closed
          /\ finishing' = TRUE /\ UNCHANGED closed
          /\ Revoke /\ Purge(0)

CloseSink == /\ ~closed
             /\ closed' = TRUE /\ finishing' = TRUE
             /\ Revoke
             /\ events' = <<>> /\ UNCHANGED dropped
-----------------------------------------------------------------------------
(* The consumer: OutputWriter of companion.cpp *)

\* wait_for_event or try_pop returning an event.
Pop == /\ held.kind = "none" /\ ~closed /\ events # <<>>
       /\ held' = Head(events)
       /\ events' = Tail(events)
       /\ UNCHANGED <<dropped, lease, ended>>

\* serialize_event and commit: what is not deliverable any more is skipped.  The
\* check and the writing after it are one step: this thread alone writes, responses
\* included, so nothing but the order of its writes can be seen.
Write == /\ held.kind # "none"
         /\ held' = NoEvent
         /\ UNCHANGED <<queued, lease, ended>>

Delivers(e) == held = e /\ e.kind # "none" /\ held'.kind = "none" /\ Deliverable(e)
=============================================================================

------------------------------ MODULE MCClient ------------------------------
(* SensorClient for TLC: numbers modulo 8, and small plays. *)
EXTENDS SensorClient

CONSTANTS a, b

\* Callers that start and stop at every step of a worker that faults or recovers.
Lifecycle(policy) ==
  [callers |-> {a, b, "worker"}, uses |-> {"start", "stop"}, policy |-> policy,
   calls |-> 4, records |-> 1, failures |-> 1, firstFt |-> 3]

\* Streams that wrap, of a sensor that may restart, stopped and begun again.
Resuming == [Lifecycle("Reconnect") EXCEPT !.callers = {a}, !.calls = 3, !.records = 4]

\* Streams that wrap and are biased.
Biasing == [Resuming EXCEPT !.uses = {"start", "bias"}, !.calls = 2]

\* A bias, with nothing going wrong.
Healthy == [Biasing EXCEPT !.failures = 0]

AllPlays    == {Lifecycle("Reconnect"), Lifecycle("FailStop"), Resuming, Biasing}
HealthyOnly == {Healthy}
=============================================================================

--------------------------- MODULE SequenceTracker ---------------------------
(***************************************************************************)
(* RdtSequenceTracker and FtSequenceTracker of                             *)
(* core/netft/src/detail/sequence.cpp.  A tracker keeps the true number of *)
(* what it took last; the code sees, and compares, only its remainder.     *)
(***************************************************************************)
EXTENDS Integers

CONSTANTS Modulus,  \* 2^32: a number on the wire is a remainder
          LowMax    \* kRestartLowMax: up to here a sensor may have just restarted

ASSUME TrackerConstants == Modulus \in Nat \ {0} /\ LowMax \in Nat

Delta(current, previous) == (current - previous) % Modulus
IsAhead(delta) == 2 * delta < Modulus

\* has_last_, previous_, and the restart candidate, -1 for none.
NoTracker == [has |-> FALSE, previous |-> 0, candidate |-> -1]
-----------------------------------------------------------------------------
(* RDT: the number of a record in its stream *)

\* Mutant: the comparison is of the numbers, and so wrong at the wrap.
RdtIsAhead_unwrapped(t, n) == n % Modulus > t.previous % Modulus

RdtIsAhead(t, n) == LET d == Delta(n, t.previous) IN d # 0 /\ IsAhead(d)

\* First, contiguous or behind a gap; else a duplicate or out of order.
RdtTakes(t, n) == ~t.has \/ RdtIsAhead(t, n)

RdtObserve(t, n) ==
  IF RdtTakes(t, n) THEN [t EXCEPT !.has = TRUE, !.previous = n] ELSE t
-----------------------------------------------------------------------------
(* FT: the number of a sample of the sensor since it was switched on *)

\* A second record behind a high number, both low and one after the other.
FtRestarts(t, n) ==
  /\ t.previous % Modulus > LowMax
  /\ t.candidate \in 0..LowMax /\ n % Modulus <= LowMax
  /\ LET d == Delta(n, t.candidate) IN d # 0 /\ IsAhead(d)

FtKind(t, n) ==
  CASE ~t.has                            -> "First"
    [] t.has /\ Delta(n, t.previous) = 0 -> "Stall"
    [] OTHER -> IF IsAhead(Delta(n, t.previous)) THEN "Forward"
                ELSE IF FtRestarts(t, n) THEN "Restart" ELSE "Backward"

FtObserve(t, n) ==
  CASE FtKind(t, n) = "Stall"    -> [t EXCEPT !.candidate = -1]
    [] FtKind(t, n) = "Backward" -> [t EXCEPT !.candidate = n % Modulus]
    [] OTHER -> [has |-> TRUE, previous |-> n, candidate |-> -1]
=============================================================================

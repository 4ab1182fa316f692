------------------------------ MODULE Selection ------------------------------
(***************************************************************************)
(* What is left of a sequence when some of its positions are kept: what    *)
(* SelectSeq does with the positions that pass a test.  Unlike SelectSeq   *)
(* it is a recursive function of the position, which a proof can follow.   *)
(***************************************************************************)
EXTENDS Naturals, Sequences

Keep(q, kept) ==
  LET upTo[i \in 0..Len(q)] ==
        IF i = 0 THEN <<>>
        ELSE IF i \in kept THEN Append(upTo[i - 1], q[i])
        ELSE upTo[i - 1]
  IN upTo[Len(q)]
=============================================================================

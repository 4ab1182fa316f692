----------------------------- MODULE MCCompanion -----------------------------
(* Companion for TLC: a snapshot, a measurement and an error beside each other. *)
EXTENDS Companion

OneOfEach == {"recording", "sample", "error"}
=============================================================================

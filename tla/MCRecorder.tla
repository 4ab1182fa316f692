----------------------------- MODULE MCRecorder -----------------------------
(* The recorder with small bounds: see the MCRecorder_*.cfg. *)
EXTENDS RecorderRefinement, RecorderInvariant
=============================================================================

---------------------------- MODULE MCSupervisor ----------------------------
(* Supervisor with small bounds: see the MCSupervisor*.cfg. *)
EXTENDS Supervisor

\* The channels a run uses.
OneCommand == {"connect"}
=============================================================================

------------------------------ MODULE MCViewer ------------------------------
(* Viewer for TLC: a force and a torque, a narrow and a wide window. *)
EXTENDS Viewer

Factory == [sensorHost |-> "a", plotMode |-> "combined", window |-> 20,
            axes |-> {"Fx"}]
Readings == {-1, 2}
=============================================================================

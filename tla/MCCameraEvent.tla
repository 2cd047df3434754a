---------------------------- MODULE MCCameraEvent ----------------------------
(* A small instance of CameraEvent: a person and a car. *)
EXTENDS CameraEvent, TLC

CONSTANTS p1, v1

MCMixed == {p1, v1}
MCTypes == p1 :> "person" @@ v1 :> "vehicle"
=============================================================================

------------------------------ MODULE MCOnvifPush ------------------------------
(* Small instances of OnvifPush. *)
EXTENDS OnvifPush

CONSTANTS video1, u1, u2, d1, d2, bad
=============================================================================

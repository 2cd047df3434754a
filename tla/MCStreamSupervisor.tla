-------------------------- MODULE MCStreamSupervisor --------------------------
(* Small instances of StreamSupervisor. *)
EXTENDS StreamSupervisor

CONSTANTS q1, q2, q3

MCPulls == {q1, q2, q3}
=============================================================================

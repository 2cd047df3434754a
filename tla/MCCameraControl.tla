--------------------------- MODULE MCCameraControl ---------------------------
(* Small instances of CameraControl. *)
EXTENDS CameraControl, TLC

CONSTANTS p1, p2, f1

MCPeople == {p1, p2}
MCSymmetry == Permutations({p1, p2})
MCTypes == [t \in Tid |-> IF t = f1 THEN "face" ELSE "person"]

\* What decides the future and what the run's properties look at: not the history of took, named
\* and leaves, and of edge only whether an event is in progress or left.
MCView == <<dev, event, age, nextId, window,
            [e \in Event |-> IF InProgress(e) THEN "moving" ELSE edge[e]],
            poll, stop, orphan, handler, command, toLeave>>
=============================================================================

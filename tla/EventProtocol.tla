---------------------------- MODULE EventProtocol ----------------------------
(***************************************************************************)
(* What the smart-detect events of one camera promise UniFi Protect.       *)
(*                                                                         *)
(* An event is opened by its first message ("enter"; when earlier frames   *)
(* are sent back-dated the "enter" is followed at once by a "moving"), is  *)
(* updated by "moving" messages and is ended by one "leave".  A camera has *)
(* at most one event open at a time.                                       *)
(***************************************************************************)
EXTENDS Naturals

CONSTANT Event          \* event ids

VARIABLES edge,         \* edge[e]: the edgeType of the last message of event e
          leaves        \* leaves[e]: how many "leave" messages e has had

vars == <<edge, leaves>>

Edge == {"none", "enter", "moving", "leave"}

Open == {e \in Event : edge[e] \in {"enter", "moving"}}

Init == /\ edge = [e \in Event |-> "none"]
        /\ leaves = [e \in Event |-> 0]

Enter(e) == /\ Open = {}
            /\ edge[e] = "none"
            /\ \E first \in {"enter", "moving"} : edge' = [edge EXCEPT ![e] = first]
            /\ UNCHANGED leaves

Moving(e) == /\ e \in Open
             /\ edge' = [edge EXCEPT ![e] = "moving"]
             /\ UNCHANGED leaves

Leave(e) == /\ e \in Open
            /\ edge' = [edge EXCEPT ![e] = "leave"]
            /\ leaves' = [leaves EXCEPT ![e] = @ + 1]

Next == \E e \in Event : Enter(e) \/ Moving(e) \/ Leave(e)

\* An event that was entered is left.
Spec == Init /\ [][Next]_vars /\ \A e \in Event : WF_vars(Leave(e))
=============================================================================

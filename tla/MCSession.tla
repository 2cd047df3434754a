------------------------------- MODULE MCSession -------------------------------
(* The processes of an instance, its connection to Protect, the pulls of a camera and the       *)
(* pushes of an ONVIF camera: the modules whose threads must go on.  They share no variable; a  *)
(* behaviour is one of one of them, `focus`.                                                    *)
EXTENDS RunAll, Session, MCStreamSupervisor, MCOnvifPush

CONSTANTS p1, p2, p3, c1, c2

VARIABLE focus

instanceVars == <<focus, runVars, sessionVars, pullVars, pushVars>>

InstanceInit == /\ focus \in {"processes", "session", "pulls", "pushes"}
                /\ RunInit /\ SessionInit /\ PullInit /\ PushInit

\* A step of part; nothing else changes.
In(part) ==
  /\ focus = part /\ UNCHANGED focus
  /\ IF part = "processes" THEN TRUE ELSE UNCHANGED runVars
  /\ IF part = "session" THEN TRUE ELSE UNCHANGED sessionVars
  /\ IF part = "pulls" THEN TRUE ELSE UNCHANGED pullVars
  /\ IF part = "pushes" THEN TRUE ELSE UNCHANGED pushVars

InstanceNext == \/ In("processes") /\ RunNext
                \/ In("session") /\ SessionNext
                \/ In("pulls") /\ PullNext
                \/ In("pushes") /\ PushNext

\* The fairness of each module, in the behaviours that are its own.  (No thread of a pull or a
\* push runs at the start, so theirs asks nothing of the other behaviours.)
InstanceSpec == /\ InstanceInit /\ [][InstanceNext]_instanceVars
                /\ WF_instanceVars(In("processes") /\ ParentStep)
                /\ WF_instanceVars(In("session") /\ WatchStep)
                /\ WF_instanceVars(In("session") /\ (ReceiverBooks \/ ReceiverSends))
                /\ PullFairness /\ PushFairness

InstanceTypeOK == RunTypeOK /\ SessionTypeOK /\ PullTypeOK /\ PushTypeOK
===============================================================================

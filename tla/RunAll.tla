-------------------------------- MODULE RunAll --------------------------------
(***************************************************************************)
(* run_all.py: the parent of an instance's processes.  When one of them    *)
(* ends, or the parent is told to stop, it terminates all, waits for them  *)
(* a few seconds and kills what is left.                                   *)
(*                                                                         *)
(* A signal raises KeyboardInterrupt wherever the parent is: in the watch  *)
(* loop, or in the middle of the stopping that a child's end began.  A     *)
(* second one, while it handles the first, ends it on the spot.            *)
(***************************************************************************)
EXTENDS Naturals, FiniteSets

CONSTANTS Proc, MaxSignals  \* bound of the model: signals sent to a parent

ASSUME ProcAssumption == IsFiniteSet(Proc) /\ Proc # {}
ASSUME SignalsAssumption == MaxSignals \in Nat

VARIABLES
  child,    \* child[p]: "running", "asked" (has been sent TERM), "killed" or "ended"
  parent,   \* "watching", "stopping" (after a child's end), "handling" (a signal) or "gone"
  toAsk,    \* in a stop: children not looked at yet
  toWait,   \* and those not waited for yet
  signals   \* signals the parent got

runVars == <<child, parent, toAsk, toWait, signals>>

Ended(p) == child[p] = "ended"
Stopping == parent \in {"stopping", "handling"}

RunInit == /\ child = [p \in Proc |-> "running"]
           /\ parent = "watching"
           /\ toAsk = {} /\ toWait = {}
           /\ signals = 0

\* A child ends on its own, or because it was asked to; one may ignore that.
ChildEnds(p) == /\ ~Ended(p)
                /\ child' = [child EXCEPT ![p] = "ended"]
                /\ UNCHANGED <<parent, toAsk, toWait, signals>>

StopAll(as) == /\ parent' = as
               /\ toAsk' = Proc /\ toWait' = Proc

\* The poll finds a child that ended.
Notice == /\ parent = "watching" /\ \E p \in Proc : Ended(p)
          /\ StopAll("stopping")
          /\ UNCHANGED <<child, signals>>

\* Mistake: only the children that run on are waited for, one that ignores TERM is left.
AskAndForget(p) == /\ Stopping /\ p \in toAsk
                   /\ child' = [child EXCEPT ![p] = IF @ = "running" THEN "asked" ELSE @]
                   /\ toAsk' = toAsk \ {p}
                   /\ toWait' = IF toAsk = {p} THEN {} ELSE toWait
                   /\ UNCHANGED <<parent, signals>>

Ask(p) == /\ Stopping /\ p \in toAsk
          /\ child' = [child EXCEPT ![p] = IF @ = "running" THEN "asked" ELSE @]
          /\ toAsk' = toAsk \ {p}
          /\ UNCHANGED <<parent, toWait, signals>>

\* Mistake: a child is waited for, however long.
WaitForEnd(p) == /\ Stopping /\ toAsk = {} /\ p \in toWait /\ Ended(p)
                 /\ toWait' = toWait \ {p}
                 /\ UNCHANGED <<child, parent, toAsk, signals>>

\* One more has ended, or it is the deadline and it is killed.
Wait(p) == /\ Stopping /\ toAsk = {} /\ p \in toWait
           /\ child' = [child EXCEPT ![p] = IF Ended(p) THEN @ ELSE "killed"]
           /\ toWait' = toWait \ {p}
           /\ UNCHANGED <<parent, toAsk, signals>>

Leave == /\ Stopping /\ toAsk = {} /\ toWait = {}
         /\ parent' = "gone"
         /\ UNCHANGED <<child, toAsk, toWait, signals>>

Signal == /\ parent # "gone" /\ signals < MaxSignals
          /\ signals' = signals + 1
          /\ IF parent = "handling" THEN parent' = "gone" /\ toAsk' = {} /\ toWait' = {}
             ELSE StopAll("handling")
          /\ UNCHANGED child

\* systemd ends what is left of the unit's processes, and starts it again (after a failure at
\* once, else when someone asks for it).
StartAgain == /\ parent = "gone"
              /\ child' = [p \in Proc |-> "running"]
              /\ parent' = "watching" /\ signals' = 0
              /\ UNCHANGED <<toAsk, toWait>>

ParentStep == \/ Notice \/ Leave
              \/ \E p \in Proc : Ask(p) \/ Wait(p)

RunNext == ParentStep \/ Signal \/ StartAgain \/ \E p \in Proc : ChildEnds(p)

RunSpec == RunInit /\ [][RunNext]_runVars /\ WF_runVars(ParentStep)

-----------------------------------------------------------------------------
(* Properties                                                              *)

\* Every variable has its type.
RunTypeOK == /\ child \in [Proc -> {"running", "asked", "killed", "ended"}]
             /\ parent \in {"watching", "stopping", "handling", "gone"}
             /\ toAsk \subseteq Proc /\ toWait \subseteq Proc
             /\ signals \in 0..MaxSignals

\* A parent that is gone leaves no child that was not killed, if one ignored TERM ("Terminate
\* the whole stage group, then kill anything that ignored TERM"), unless a second signal came.
NoOrphans == parent = "gone" /\ signals <= 1 =>
               \A p \in Proc : child[p] \in {"killed", "ended"}

\* When one child has ended, all have, or were killed, and the parent is gone: the instance
\* never runs on in part.
AllOrNone == (\E p \in Proc : Ended(p)) ~> parent = "gone"
=============================================================================

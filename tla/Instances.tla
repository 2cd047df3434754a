------------------------------ MODULE Instances ------------------------------
(***************************************************************************)
(* instance_manager.py: the instances on one box, each a registry entry, a *)
(* systemd unit, a state directory and an interface of its own.            *)
(*                                                                         *)
(* Every operation is a process of its own, run by a thread of the web UI  *)
(* (sysinfo_server.py, which kills it after a while) or by hand.  It reads *)
(* the whole registry, changes its copy and writes that back; no lock      *)
(* keeps two operations apart.                                             *)
(***************************************************************************)
EXTENDS Naturals, FiniteSets

CONSTANTS
  Name, Process,  \* names of instances; processes that carry out operations
  Identity,       \* a MAC with its device_id: generated at random, so never one in use
  Nobody,
  MaxDisturbances \* bound of the model: operations killed, refused a disable, or begun beside
                  \* another one

ASSUME IdentityAssumption == Nobody \notin Identity
\* There is always one that is not in use for a name.
ASSUME EnoughAssumption ==
  /\ IsFiniteSet(Process) /\ IsFiniteSet(Identity) /\ Cardinality(Identity) > Cardinality(Process) + 2
  /\ Name # {}
ASSUME DisturbancesAssumption == MaxDisturbances \in Nat

Entry == [identity : Identity, physical : BOOLEAN]
Unregistered == [identity |-> Nobody, physical |-> FALSE]
Registry == [Name -> Entry \cup {Unregistered}]
Kind == {"create", "register", "destroy", "refresh"}

VARIABLES
  registry,  \* the file: registry[n] is the entry of instance n
  unit,      \* unit[n]: the identity in n's unit file
  enabled,   \* instances whose unit is enabled: it runs, also after a failure or a reboot
  kept,      \* instances whose state directory exists
  job,        \* job[p]: what process p does: operation, step, name, its copy of the registry,
             \* and whether it had the box to itself, and its way, so far
  failed,    \* history: names whose last creation systemd refused
  disturbed  \* history: how often an operation was killed, refused, or begun beside another one

instVars == <<registry, unit, enabled, kept, job, failed, disturbed>>

NoOp == [kind |-> "create", step |-> "idle", name |-> CHOOSE n \in Name : TRUE,
         copy |-> [n \in Name |-> Unregistered], alone |-> TRUE]
Busy == {p \in Process : job[p].step # "idle"}
Registered(reg, n) == reg[n] # Unregistered

InstInit == /\ registry = NoOp.copy
            /\ unit = [n \in Name |-> Nobody]
            /\ enabled = {} /\ kept = {} /\ failed = {}
            /\ job = [p \in Process |-> NoOp]
            /\ disturbed = 0

-----------------------------------------------------------------------------
\* The registry is read.  create and register_physical_instance refuse a name that is in it,
\* the others one that is not; a physical instance is not destroyed.
Accepts(kind, n) ==
  IF kind \in {"create", "register"} THEN ~Registered(registry, n)
  ELSE Registered(registry, n) /\ (kind = "destroy" => ~registry[n].physical)

FirstStep(kind) == CASE kind \in {"create", "register"} -> "save"
                     [] kind = "refresh" -> "write"
                     [] kind = "destroy" -> "disable"

Begin(p, kind, n) ==
  /\ job[p].step = "idle" /\ Accepts(kind, n)
  /\ job' = [q \in Process |->
             IF q = p THEN [kind |-> kind, step |-> FirstStep(kind), name |-> n,
                            copy |-> registry, alone |-> Busy = {}]
             ELSE IF q \in Busy THEN [job[q] EXCEPT !.alone = FALSE] ELSE job[q]]
  /\ disturbed' = disturbed + (IF Busy = {} THEN 0 ELSE 1)
  /\ disturbed' <= MaxDisturbances
  /\ UNCHANGED <<registry, unit, enabled, kept, failed>>

Done(p) == job' = [job EXCEPT ![p] = NoOp]
Without(p) == [job[p].copy EXCEPT ![job[p].name] = Unregistered]

\* Where q may be writing the registry: all write to the one file that then replaces it.
Saving(q) == \/ job[q].step \in {"save", "unregister"}
             \/ job[q].step = "enable" /\ job[q].kind # "refresh"
\* The registry becomes reg; of two that write at once it may become what neither can read,
\* which is read as no registry at all.
Replaced(p, reg) ==
  \/ registry' = reg
  \/ registry' = NoOp.copy /\ \E q \in Process \ {p} : Saving(q)

\* Identities of different names are never compared: it is enough that n has not had it.
Fresh(n) == CHOOSE i \in Identity :
              /\ i \notin {registry[n].identity, unit[n]}
              /\ \A p \in Process : i # job[p].copy[n].identity

\* The state directory is made, and the new entry saved with the rest as it was read.
Save(p) ==
  /\ job[p].step = "save"
  /\ LET new == [identity |-> Fresh(job[p].name), physical |-> job[p].kind = "register"]
         copy == [job[p].copy EXCEPT ![job[p].name] = new]
     IN Replaced(p, copy) /\ job' = [job EXCEPT ![p].copy = copy, ![p].step = "write"]
  /\ kept' = kept \cup {job[p].name}
  /\ UNCHANGED <<unit, enabled, failed, disturbed>>

\* The unit file is written from the entry at hand.
WriteUnit(p) ==
  /\ job[p].step = "write"
  /\ unit' = [unit EXCEPT ![job[p].name] = job[p].copy[job[p].name].identity]
  /\ job' = [job EXCEPT ![p].step = "enable"]
  /\ UNCHANGED <<registry, enabled, kept, failed, disturbed>>

\* enable --now.  Whether an address comes up afterwards only decides the answer.
Enable(p) == /\ job[p].step = "enable" /\ unit[job[p].name] # Nobody
             /\ enabled' = enabled \cup {job[p].name}
             /\ failed' = failed \ {job[p].name}
             /\ Done(p)
             /\ UNCHANGED <<registry, unit, kept, disturbed>>

\* Mistake: the entry of an instance that was not started is kept.
EnableFailsKeeping(p) ==
  /\ job[p].step = "enable"
  /\ enabled' \in {enabled, enabled \cup {job[p].name}}
  /\ failed' = IF job[p].kind = "refresh" THEN failed ELSE failed \cup {job[p].name}
  /\ Done(p)
  /\ UNCHANGED <<registry, unit, kept, disturbed>>

\* systemd refuses to enable or to start the unit: a new entry is taken out of the copy and
\* that is saved.  The unit file and the state directory stay.
EnableFails(p) ==
  /\ job[p].step = "enable"
  /\ enabled' \in {enabled, enabled \cup ({job[p].name} \cap {n \in Name : unit[n] # Nobody})}
  /\ IF job[p].kind = "refresh" THEN UNCHANGED <<registry, failed>>
     ELSE Replaced(p, Without(p)) /\ failed' = failed \cup {job[p].name}
  /\ Done(p)
  /\ UNCHANGED <<unit, kept, disturbed>>

Disable(p) == /\ job[p].step = "disable"
              /\ enabled' = enabled \ {job[p].name}
              /\ job' = [job EXCEPT ![p].step = "remove"]
              /\ UNCHANGED <<registry, unit, kept, failed, disturbed>>

\* systemd refuses to disable the unit, or to stop it: nobody looks at what it returned.
DisableFails(p) ==
  /\ job[p].step = "disable" /\ disturbed < MaxDisturbances
  /\ job' = [job EXCEPT ![p].step = "remove", ![p].alone = FALSE]
  /\ disturbed' = disturbed + 1
  /\ UNCHANGED <<registry, unit, enabled, kept, failed>>

\* Mistake: the directories are left when there was no unit file to remove.
RemoveUnitTogether(p) ==
  /\ job[p].step = "remove"
  /\ unit' = [unit EXCEPT ![job[p].name] = Nobody]
  /\ kept' = IF unit[job[p].name] = Nobody THEN kept ELSE kept \ {job[p].name}
  /\ job' = [job EXCEPT ![p].step = "unregister"]
  /\ UNCHANGED <<registry, enabled, failed, disturbed>>

\* The unit file, the state directory and the directory of pictures are removed.
RemoveUnit(p) == /\ job[p].step = "remove"
             /\ unit' = [unit EXCEPT ![job[p].name] = Nobody]
             /\ kept' = kept \ {job[p].name}
             /\ job' = [job EXCEPT ![p].step = "unregister"]
             /\ UNCHANGED <<registry, enabled, failed, disturbed>>

Unregister(p) == /\ job[p].step = "unregister"
                 /\ Replaced(p, Without(p))
                 /\ failed' = failed \ {job[p].name}
                 /\ Done(p)
                 /\ UNCHANGED <<unit, enabled, kept, disturbed>>

\* The web UI's patience is over, or the process dies on its own.
Kill(p) == /\ job[p].step # "idle" /\ disturbed < MaxDisturbances
           /\ Done(p)
           /\ disturbed' = disturbed + 1
           /\ UNCHANGED <<registry, unit, enabled, kept, failed>>

InstNext == \E p \in Process :
              \/ \E kind \in Kind, n \in Name : Begin(p, kind, n)
              \/ Save(p) \/ WriteUnit(p) \/ Enable(p) \/ EnableFails(p)
              \/ Disable(p) \/ DisableFails(p) \/ RemoveUnit(p) \/ Unregister(p) \/ Kill(p)

InstSpec == InstInit /\ [][InstNext]_instVars

-----------------------------------------------------------------------------
(* Properties                                                              *)

\* Every variable has its type.
InstTypeOK ==
  /\ registry \in Registry
  /\ unit \in [Name -> Identity \cup {Nobody}]
  /\ enabled \subseteq Name /\ kept \subseteq Name /\ failed \subseteq Name
  /\ job \in [Process -> [kind : Kind, name : Name, copy : Registry, alone : BOOLEAN,
                         step : {"idle", "save", "write", "enable", "disable", "remove",
                                 "unregister"}]]
  /\ disturbed \in 0..MaxDisturbances

\* Between operations the registry and systemd agree: what is registered has a unit with its
\* identity, enabled, and its state; what is not has nothing, or what a refused creation left
\* ("`running` cross-checks the real systemd unit state rather than trusting the registry").
\* Two operations at once, or one that is killed, may break that: nothing locks the registry.
AgreeAtRest ==
  Busy = {} /\ disturbed = 0 =>
    \A n \in Name :
      IF Registered(registry, n)
      THEN unit[n] = registry[n].identity /\ n \in enabled /\ n \in kept
      ELSE n \notin failed => unit[n] = Nobody /\ n \notin enabled /\ n \notin kept

\* An instance destroyed by an operation that had the box to itself, and whose disable systemd
\* carried out, is gone for good, whatever was killed or overlapped before ("Destroy is a real
\* teardown"): nothing of it runs or is started by a reboot, and its adoption is not there for a
\* later one of that name.
DestroyedIsGone ==
  [][\A p \in Process :
       job[p].step = "unregister" /\ job[p].alone /\ job'[p].step = "idle" /\ disturbed' = disturbed
         => LET n == job[p].name IN
            ~Registered(registry', n) /\ n \notin enabled' /\ unit'[n] = Nobody /\ n \notin kept'
    ]_instVars
=============================================================================

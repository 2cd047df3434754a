------------------------ MODULE StreamSupervisorProofs ------------------------
(***************************************************************************)
(* Proofs about StreamSupervisor.                                          *)
(*                                                                         *)
(* As long as no command has crossed a restart, the camera has at most one *)
(* party that is about to pull it: the receiver thread in a start, one     *)
(* reader thread in a restart, or the registered pull itself (OneParty).   *)
(* From that follow that one pull runs at most, and that none does once    *)
(* the stream is stopped.                                                  *)
(***************************************************************************)
EXTENDS StreamSupervisor, TLAPS

Unregistered == {"waiting", "stopping", "probing"}
Restarting == {"noticed"} \cup Unregistered

OneParty ==
  /\ \A p \in Pull : Alive(p) => active = p
  /\ \A p, q \in Pull : reader[p] \in Restarting /\ reader[q] \in Restarting => p = q
  /\ \A p \in Pull : reader[p] \in Unregistered => active = NoPull
  /\ \A p \in Pull : reader[p] = "noticed" => active \in {p, NoPull} /\ ~Alive(p)
  /\ receiver = "probing" =>
       active = NoPull /\ \A p \in Pull : reader[p] \notin Restarting
  /\ receiver = "idle" /\ ~points =>
       active = NoPull /\ \A p \in Pull : reader[p] \notin {"stopping", "probing"}

PullInv == PullTypeOK /\ Supervised /\ (crossing \/ OneParty)

LEMMA PullInitInv == PullInit => PullInv
PROOF
<1> SUFFICES ASSUME PullInit PROVE PullInv OBVIOUS
<1>1. PullTypeOK
  <2>1. seen \in [Pull -> BOOLEAN] BY Zenon DEF PullInit
  <2>2. 0 \in 0..MaxCount BY CountAssumption
  <2>3. QED BY <2>1, <2>2 DEF PullInit, PullTypeOK
<1>2. Supervised BY DEF PullInit, Supervised
<1>3. OneParty BY DEF PullInit, OneParty, Alive, Restarting, Unregistered
<1>4. QED BY <1>1, <1>2, <1>3 DEF PullInv

LEMMA PullNextInv == PullInv /\ [PullNext]_pullVars => PullInv'
PROOF
<1> SUFFICES ASSUME PullInv, [PullNext]_pullVars PROVE PullInv' OBVIOUS
<1> USE PullAssumption, CountAssumption, OnvifAssumption DEF PullInv
<1>1. CASE StartCommand
  <2>1. PullTypeOK' BY <1>1 DEF StartCommand, Crosses, StopStream, PullTypeOK
  <2>2. Supervised' BY <1>1 DEF StartCommand, StopStream, Supervised
  <2>3. ASSUME ~crossing' PROVE OneParty'
    <3>1. ~crossing /\ \A p \in Pull : reader[p] \notin Restarting
      BY <1>1, <2>3 DEF StartCommand, Crosses, Restarting, Unregistered, PullTypeOK
    <3>2. QED
      BY <1>1, <3>1 DEF StartCommand, StopStream, PullTypeOK, OneParty, Alive, Restarting, Unregistered
  <2>4. QED BY <2>1, <2>2, <2>3
<1>2. CASE StartLaunch
  BY <1>2 DEF StartLaunch, Launch, Free, PullTypeOK, Supervised, OneParty, Alive, Restarting,
              Unregistered
<1>3. CASE StartFails
  BY <1>3 DEF StartFails, PullTypeOK, Supervised, OneParty, Alive, Restarting, Unregistered
<1>4. CASE StartDone
  BY <1>4 DEF StartDone, PullTypeOK, Supervised, OneParty, Alive, Restarting, Unregistered
<1>5. CASE StopCommand
  BY <1>5 DEF StopCommand, Crosses, StopStream, PullTypeOK, Supervised, OneParty, Alive, Restarting,
              Unregistered
<1>6. CASE ResetCommand
  BY <1>6 DEF ResetCommand, Crosses, StopStream, PullTypeOK, Supervised, OneParty, Alive, Restarting,
              Unregistered
<1>7. ASSUME NEW p \in Pull, Frame(p) PROVE PullInv'
  BY <1>7 DEF Frame, PullTypeOK, Supervised, OneParty, Alive, Restarting, Unregistered
<1>8. ASSUME NEW p \in Pull, Die(p) PROVE PullInv'
  BY <1>8 DEF Die, PullTypeOK, Supervised, OneParty, Alive, Restarting, Unregistered
<1>9. ASSUME NEW p \in Pull, Hang(p) PROVE PullInv'
  BY <1>9 DEF Hang, PullTypeOK, Supervised, OneParty, Alive, Restarting, Unregistered
<1>10. ASSUME NEW p \in Pull, StallKill(p) PROVE PullInv'
  BY <1>10 DEF StallKill, PullTypeOK, Supervised, OneParty, Alive, Restarting, Unregistered
<1>11. ASSUME NEW p \in Pull, ReaderStep(p) PROVE PullInv'
  <2>1. CASE Exit(p)
    BY <2>1 DEF Exit, PullTypeOK, Supervised, OneParty, Alive, Restarting, Unregistered
  <2>2. CASE Unregister(p)
    <3>1. PullTypeOK'
      <4>1. count' \in 0..MaxCount BY <2>2 DEF Unregister, PullTypeOK
      <4>2. QED BY <2>2, <4>1 DEF Unregister, PullTypeOK
    <3>2. Supervised' BY <2>2 DEF Unregister, Supervised
    <3>3. ASSUME ~crossing PROVE OneParty'
      <4>1. active \in {p, NoPull} /\ ~Alive(p)
        BY <2>2, <3>3 DEF Unregister, OneParty
      <4>2. QED
        BY <2>2, <3>3, <4>1 DEF Unregister, PullTypeOK, OneParty, Alive, Restarting, Unregistered
    <3>4. QED BY <2>2, <3>1, <3>2, <3>3 DEF Unregister
  <2>3. CASE Wake(p)
    BY <2>3 DEF Wake, PullTypeOK, Supervised, OneParty, Alive, Restarting, Unregistered
  <2>4. CASE RestartStop(p)
    BY <2>4 DEF RestartStop, StopStream, PullTypeOK, Supervised, OneParty, Alive, Restarting,
                Unregistered
  <2>5. CASE RestartLaunch(p)
    BY <2>5 DEF RestartLaunch, Launch, Free, PullTypeOK, Supervised, OneParty, Alive, Restarting,
                Unregistered
  <2>6. CASE RestartFails(p)
    BY <2>6 DEF RestartFails, PullTypeOK, Supervised, OneParty, Alive, Restarting, Unregistered
  <2>7. QED BY <1>11, <2>1, <2>2, <2>3, <2>4, <2>5, <2>6 DEF ReaderStep
<1>12. CASE UNCHANGED pullVars
  BY <1>12 DEF pullVars, PullTypeOK, Supervised, OneParty, Alive, Restarting, Unregistered
<1>13. QED
  BY <1>1, <1>2, <1>3, <1>4, <1>5, <1>6, <1>7, <1>8, <1>9, <1>10, <1>11, <1>12 DEF PullNext

\* The invariant holds for any set of pulls.
THEOREM PullInvariance == PullSpec => []PullInv
PROOF BY PullInitInv, PullNextInv, PTL DEF PullSpec

\* The registered pull always has a thread that will notice its end, whatever crosses.
THEOREM PullsAreSupervised == PullSpec => []Supervised
PROOF
<1>1. PullInv => Supervised BY DEF PullInv
<1>2. QED BY <1>1, PullInvariance, PTL

\* Without a command in the middle of a restart, one pull runs at most.
THEOREM PullsAreSingle == PullSpec => []OnePullUncrossed
PROOF
<1>1. PullInv => OnePullUncrossed BY DEF PullInv, OneParty, OnePullUncrossed, OnePull
<1>2. QED BY <1>1, PullInvariance, PTL

\* Without a command in the middle of a restart, a stopped camera is not pulled.
THEOREM StopsAreFinal == PullSpec => []StoppedStaysUncrossed
PROOF
<1>1. PullInv => StoppedStaysUncrossed
  BY PullAssumption DEF PullInv, OneParty, StoppedStaysUncrossed, StoppedStays
<1>2. QED BY <1>1, PullInvariance, PTL

\* Every variable keeps its type.
THEOREM PullTypeCorrect == PullSpec => []PullTypeOK
PROOF
<1>1. PullInv => PullTypeOK BY DEF PullInv
<1>2. QED BY <1>1, PullInvariance, PTL

\* The backoff starts again only for a new session or after frames: of all that happens to a
\* pull, only a start command and the reader's own count of a pull that delivered lower it.
THEOREM BackoffIsKept == PullSpec => BackoffGrows
PROOF
<1> DEFINE Step == count' < count => \/ receiver = "idle" /\ receiver' = "probing"
                                    \/ \E p \in Pull : reader[p] = "noticed" /\ seen[p]
<1>1. PullInv /\ PullNext => Step
  <2> SUFFICES ASSUME PullInv, PullNext, count' < count PROVE Step OBVIOUS
  <2>1. count \in Nat BY DEF PullInv, PullTypeOK
  <2>2. count' # count BY <2>1
  <2>3. CASE StartCommand BY <2>3 DEF StartCommand
  <2>4. ASSUME NEW p \in Pull, Unregister(p) PROVE Step
    <3>1. seen[p] BY <2>1, <2>4 DEF Unregister
    <3>2. QED BY <2>4, <3>1 DEF Unregister
  <2>5. StartCommand \/ \E p \in Pull : Unregister(p)
    BY <2>2 DEF PullNext, StartLaunch, StartFails, StartDone, StopCommand, ResetCommand, Frame,
                Die, Hang, StallKill, ReaderStep, Exit, Wake, RestartStop, RestartLaunch,
                RestartFails
  <2>6. QED BY <2>3, <2>4, <2>5
<1>2. QED BY <1>1, PullInvariance, PTL DEF PullSpec, BackoffGrows
=============================================================================

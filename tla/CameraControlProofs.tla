------------------------- MODULE CameraControlProofs -------------------------
(***************************************************************************)
(* Proofs about CameraControl.                                             *)
(*                                                                         *)
(* A stop takes the tracks and sends their leaves afterwards, while ticks  *)
(* go on over fresh state.  That no event begins in between rests on what  *)
(* such ticks can see: a stopped pull brings no frame, and the one frame   *)
(* that was being analysed falls into a new startup window, whose tracks   *)
(* are parked.  Quiet says so; Shown says which events are in progress.    *)
(***************************************************************************)
EXTENDS CameraControl, CameraEventProofs

\* Where the threads can be.
Stages ==
  /\ handler \in {"discarding", "leaving"} => command = "stop" /\ orphan = "none"
  /\ handler = "stopping" => command # "stop"
  /\ command = "stop" /\ handler = "joining" => orphan = "none"
  /\ command = "stop" /\ handler = "idle" => poll = "off"
  /\ toLeave # {} => handler = "leaving"

\* The state that a stop left behind: no event, nobody who could begin one.
Stopped == command = "stop" /\ handler # "discarding"
Quiet ==
  Stopped =>
    /\ event = NoEvent /\ dev.live \subseteq dev.parked
    /\ poll = "frame" \/ orphan = "frame" => dev = EmptyDev /\ window > 0

\* Events are numbered upwards; the open one, and those whose leave is due, are in progress.
Numbered ==
  /\ \A e \in Event : e >= nextId => edge[e] = "none"
  /\ \A t \in Tid : dev.ev[t] < nextId
  /\ \A e \in toLeave : e < nextId
Shown ==
  /\ event # NoEvent => InProgress(event)
  /\ \A e \in Event : InProgress(e) => e = event \/ e \in toLeave

ControlInv ==
  /\ ControlTypeOK /\ Inv /\ Stages /\ Quiet /\ Numbered /\ Shown /\ OneInProgress

LEMMA ControlInitInv == ControlInit => ControlInv
PROOF
<1> SUFFICES ASSUME ControlInit PROVE ControlInv OBVIOUS
<1> USE BoundsAssumption DEF NoEvent
<1>1. Inv BY InitInv DEF ControlInit
<1>2. ControlTypeOK BY <1>1 DEF ControlInit, ControlTypeOK, Inv
<1>3. /\ event = 0 /\ nextId = 1 /\ dev = EmptyDev /\ toLeave = {}
      /\ \A e \in Event : edge[e] = "none"
  BY DEF ControlInit, Init
<1>4. Stages /\ Quiet BY <1>3 DEF ControlInit, Stages, Quiet, Stopped, EmptyDev
<1>5. Numbered /\ Shown /\ OneInProgress
  BY <1>3 DEF Numbered, Shown, OneInProgress, InProgress, EmptyDev
<1>6. QED BY <1>1, <1>2, <1>4, <1>5 DEF ControlInv

-----------------------------------------------------------------------------
(* A tick                                                                  *)

LEMMA TickShows ==
  ASSUME ControlInv, NEW frame, MotionTick(frame), UNCHANGED toLeave,
         Stopped => (frame => dev = EmptyDev /\ window > 0)
  PROVE  /\ Inv' /\ Numbered' /\ Shown' /\ OneInProgress'
         /\ Stopped => event' = NoEvent /\ dev'.live \subseteq dev'.parked
         /\ \A e \in Event : edge[e] = "leave" => edge'[e] = "leave"
PROOF
<1> USE BoundsAssumption DEF NoEvent
<1>1. Inv /\ TypeOK /\ EventInv BY DEF ControlInv, Inv
<1>2. window' \in 0..StartupWindow BY <1>1, TickReachesLifecycle
<1>3. PICK d, Z : /\ Z \subseteq Tid /\ Held(d, Z) /\ Lifecycle(d, Z)
                  /\ KeepsEvents(d) /\ StaysParked(d, frame)
  BY <1>1, TickReachesLifecycle
<1>4. Inv' BY <1>1, <1>2, <1>3, LifecycleInv
<1>5. /\ d \in Dev /\ Took(d) BY <1>3 DEF Held, Filed
<1>6. /\ edge \in [Event -> {"none", "enter", "moving", "leave"}]
      /\ nextId \in Nat /\ nextId >= 1 /\ Event \subseteq Nat /\ event \in Event \cup {0}
  BY <1>1 DEF TypeOK, Event
<1>7. \A t \in Tid : d.ev[t] \in Nat /\ d.ev[t] < nextId
  <2>1. \A t \in Tid : d.ev[t] \in Event \cup {0} BY <1>5 DEF Dev
  <2>2. \A t \in Tid : d.ev[t] = dev.ev[t] \/ d.ev[t] = 0 BY <1>3 DEF KeepsEvents
  <2>3. \A t \in Tid : dev.ev[t] < nextId BY DEF ControlInv, Numbered
  <2>4. SUFFICES ASSUME NEW t \in Tid PROVE d.ev[t] \in Nat /\ d.ev[t] < nextId OBVIOUS
  <2>5. PICK n : n = d.ev[t] OBVIOUS
  <2>6. PICK m : m = dev.ev[t] OBVIOUS
  <2>7. n \in Nat BY <2>1, <2>5, BoundsAssumption DEF Event
  <2>8. n = m \/ n = 0 BY <2>2, <2>5, <2>6
  <2>9. m < nextId BY <2>3, <2>6
  <2>10. n < nextId BY <1>6, <2>8, <2>9
  <2>11. QED BY <2>5, <2>7, <2>10
<1>8. Stopped => event = NoEvent /\ d.live \subseteq d.parked
  BY <1>3 DEF StaysParked, ControlInv, Quiet
<1>9. toLeave # {} => Stopped BY DEF ControlInv, Stages, Stopped
<1>10. CASE OpenEvent(d, Z)
  <2>1. /\ event = NoEvent /\ event' = nextId /\ nextId' = nextId + 1 /\ Active(d) # {}
        /\ nextId \in Event
        /\ dev' = [d EXCEPT !.ev = Put(d.ev, Active(d), nextId)]
    BY <1>6, <1>10 DEF OpenEvent, Event
  <2>2. ~Stopped /\ toLeave = {} BY <1>8, <1>9, <2>1 DEF Active
  <2>3. PICK first \in {"enter", "moving"} : edge' = [edge EXCEPT ![nextId] = first]
    BY <1>10 DEF OpenEvent
  <2>4. \A e \in Event : ~InProgress(e)
    BY <1>6, <2>1, <2>2 DEF ControlInv, Shown, Event
  <2>5. edge[nextId] = "none" BY <1>6, <2>1 DEF ControlInv, Numbered
  <2>6. \A t \in Tid : dev'.ev[t] < nextId'
    BY <1>5, <1>6, <1>7, <2>1 DEF Dev, Put
  <2>7. Numbered' BY <1>6, <2>1, <2>2, <2>3, <2>6 DEF ControlInv, Numbered
  <2>8. Shown' /\ OneInProgress'
    BY <1>6, <2>1, <2>2, <2>3, <2>4 DEF Shown, OneInProgress, InProgress
  <2>9. QED BY <1>4, <1>6, <2>2, <2>3, <2>5, <2>7, <2>8
<1>11. CASE NoEventYet(d, Z)
  <2>1. dev' = d /\ event = NoEvent /\ UNCHANGED <<event, nextId, edge>>
    BY <1>11 DEF NoEventYet
  <2>2. Numbered' /\ Shown' /\ OneInProgress'
    BY <1>7, <2>1 DEF ControlInv, Numbered, Shown, OneInProgress, InProgress
  <2>3. QED BY <1>4, <1>8, <2>1, <2>2
<1>12. CASE CloseEvent(d, Z)
  <2>1. event # NoEvent /\ event \in Event /\ ~Stopped /\ toLeave = {}
    BY <1>6, <1>8, <1>9, <1>12 DEF CloseEvent
  <2>2. edge' = [edge EXCEPT ![event] = "leave"]
    BY <1>1, <1>5, <1>12, <2>1, EventHasMembers DEF CloseEvent
  <2>3. event' = NoEvent /\ nextId' = nextId /\ event < nextId
    BY <1>1, <1>12, <2>1 DEF CloseEvent, EventInv
  <2>4. dev'.ev = Put(d.ev, Z, event)
    BY <1>5, <1>12 DEF CloseEvent, Dev
  <2>5. \A t \in Tid : dev'.ev[t] < nextId'
    BY <1>7, <2>3, <2>4 DEF Put
  <2>6. Numbered' BY <1>6, <2>1, <2>2, <2>3, <2>5 DEF ControlInv, Numbered
  <2>7. Shown' /\ OneInProgress'
    BY <1>6, <2>1, <2>2, <2>3 DEF ControlInv, Shown, OneInProgress, InProgress
  <2>8. QED BY <1>4, <1>6, <2>1, <2>2, <2>6, <2>7
<1>13. CASE ContinueEvent(d, Z)
  <2>1. event # NoEvent /\ event \in Event /\ ~Stopped /\ toLeave = {}
    BY <1>6, <1>8, <1>9, <1>13 DEF ContinueEvent
  <2>2. edge' = edge \/ edge' = [edge EXCEPT ![event] = "moving"]
    BY <1>13 DEF ContinueEvent
  <2>3. event' = event /\ nextId' = nextId /\ event < nextId
    BY <1>1, <1>13, <2>1 DEF ContinueEvent, EventInv
  <2>4. dev'.ev = Put(d.ev, Z, event)
    BY <1>5, <1>13 DEF ContinueEvent, Dev
  <2>5. \A t \in Tid : dev'.ev[t] < nextId'
    BY <1>7, <2>3, <2>4 DEF Put
  <2>6. InProgress(event) BY <2>1 DEF ControlInv, Shown
  <2>7. Numbered' BY <1>6, <2>1, <2>2, <2>3, <2>5 DEF ControlInv, Numbered
  <2>8. Shown' /\ OneInProgress'
    BY <1>6, <2>1, <2>2, <2>3, <2>6 DEF ControlInv, Shown, OneInProgress, InProgress
  <2>9. QED BY <1>4, <1>6, <2>1, <2>2, <2>6, <2>7, <2>8 DEF InProgress
<1>14. QED BY <1>3, <1>10, <1>11, <1>12, <1>13 DEF Lifecycle

-----------------------------------------------------------------------------
(* The other steps                                                         *)

\* The invariant of the tick says nothing of what was sent, but its types.
LEMMA InvKept ==
  ASSUME Inv, UNCHANGED <<dev, event, age, nextId, took, named>>, window' \in 0..StartupWindow,
         edge' \in [Event -> {"none", "enter", "moving", "leave"}], leaves' \in [Event -> Nat]
  PROVE  Inv'
PROOF
<1>1. TypeOK' BY DEF Inv, TypeOK
<1>2. QED
  BY <1>1 DEF Inv, EventFollowsActive, Waits, EventInv, Filed, Present, Reportable,
              ListedOnce, Took, Active

\* The state is empty after it was taken; nothing of it is in the state that follows.
LEMMA TakeTracksInv ==
  ASSUME ControlInv, TakeTracks
  PROVE  ControlInv'
PROOF
<1> USE BoundsAssumption, ToleranceAssumption DEF NoEvent
<1>1. /\ ControlTypeOK /\ TypeOK /\ EventFollowsActive /\ dev \in Dev
      /\ handler = "discarding" /\ command = "stop" /\ orphan = "none" /\ toLeave = {}
  BY DEF ControlInv, Inv, ControlTypeOK, TypeOK, TakeTracks, Stages
<1>2. /\ dev' = EmptyDev /\ event' = 0 /\ age' = 0 /\ window' = StartupWindow
      /\ toLeave' = {dev.ev[t] : t \in dev.live} \ {0} /\ took' = {} /\ named' = {}
      /\ handler' = "leaving" /\ UNCHANGED <<nextId, edge, leaves, poll, stop, orphan, command>>
  BY DEF TakeTracks
<1>3. EmptyDev \in Dev BY DEF EmptyDev, Dev
<1>4. TypeOK' BY <1>1, <1>2, <1>3 DEF TypeOK
<1>5. Active(EmptyDev) = {} /\ Reportable(EmptyDev) = {}
  BY DEF EmptyDev, Active, Reportable
<1>6. EventFollowsActive' /\ Waits' /\ EventInv' /\ Took(dev)'
  BY <1>2, <1>5 DEF EventFollowsActive, Waits, EventInv, Took
<1>7. Filed(dev)' /\ ListedOnce(dev)'
  BY <1>2, <1>3 DEF Filed, ListedOnce, EmptyDev
<1>8. Inv' BY <1>4, <1>6, <1>7 DEF Inv
<1>9. toLeave' \subseteq Event BY <1>1, <1>2 DEF Dev
<1>10. ControlTypeOK' BY <1>1, <1>2, <1>4, <1>9 DEF ControlTypeOK
<1>11. Stages' /\ Quiet'
  BY <1>1, <1>2 DEF Stages, Quiet, Stopped, EmptyDev
<1>12. Numbered'
  <2>1. \A t \in Tid : dev.ev[t] < nextId BY DEF ControlInv, Numbered
  <2>2. \A e \in toLeave' : e < nextId BY <1>1, <1>2, <2>1 DEF Dev
  <2>3. \A t \in Tid : EmptyDev.ev[t] = 0 BY DEF EmptyDev
  <2>4. nextId \in Nat /\ nextId > 0 BY <1>1 DEF TypeOK
  <2>5. QED BY <1>2, <2>2, <2>3, <2>4 DEF ControlInv, Numbered
<1>13. event # 0 => event \in toLeave'
  <2>1. SUFFICES ASSUME event # 0 PROVE event \in toLeave' OBVIOUS
  <2>2. PICK t \in Active(dev) : dev.ev[t] = event BY <1>1, <2>1 DEF EventFollowsActive
  <2>3. t \in dev.live BY <2>2 DEF Active
  <2>4. QED BY <1>2, <2>1, <2>2, <2>3
<1>14. Shown' /\ OneInProgress'
  BY <1>1, <1>2, <1>13 DEF ControlInv, Shown, OneInProgress, InProgress
<1>15. QED BY <1>8, <1>10, <1>11, <1>12, <1>14 DEF ControlInv

LEMMA SendLeaveInv ==
  ASSUME ControlInv, NEW e \in Event, SendLeave(e)
  PROVE  ControlInv'
PROOF
<1> USE DEF NoEvent
<1>1. /\ ControlTypeOK /\ TypeOK /\ Inv /\ handler = "leaving" /\ command = "stop"
      /\ event = 0 /\ e \in toLeave /\ e < nextId
  BY DEF ControlInv, Inv, ControlTypeOK, SendLeave, Stages, Quiet, Stopped, Numbered
<1>2. /\ toLeave' = toLeave \ {e} /\ edge' = [edge EXCEPT ![e] = "leave"]
      /\ leaves' = [leaves EXCEPT ![e] = @ + 1]
      /\ UNCHANGED <<dev, event, age, nextId, window, took, named,
                     poll, stop, orphan, handler, command>>
  BY DEF SendLeave
<1>3. /\ edge \in [Event -> {"none", "enter", "moving", "leave"}] /\ leaves \in [Event -> Nat]
      /\ window \in 0..StartupWindow /\ nextId \in Nat
  BY <1>1 DEF TypeOK
<1>4. Inv' BY <1>1, <1>2, <1>3, InvKept
<1>5. ControlTypeOK' BY <1>1, <1>2, <1>4 DEF ControlTypeOK, Inv
<1>6. Stages' /\ Quiet' BY <1>1, <1>2 DEF ControlInv, Stages, Quiet, Stopped
<1>7. Numbered'
  <2>1. \A f \in Event : f >= nextId => f # e BY <1>1, <1>3 DEF Event
  <2>2. \A f \in Event : f >= nextId => edge'[f] = "none"
    BY <1>2, <1>3, <2>1 DEF ControlInv, Numbered
  <2>3. QED BY <1>2, <2>2 DEF ControlInv, Numbered
<1>8. Shown' /\ OneInProgress'
  BY <1>1, <1>2, <1>3 DEF ControlInv, Shown, OneInProgress, InProgress
<1>9. QED BY <1>4, <1>5, <1>6, <1>7, <1>8 DEF ControlInv

LEMMA ControlNextInv == ControlInv /\ [ControlNext]_allVars => ControlInv'
PROOF
<1> SUFFICES ASSUME ControlInv, [ControlNext]_allVars PROVE ControlInv' OBVIOUS
<1> USE DEF NoEvent
<1>1. ControlTypeOK /\ TypeOK /\ Inv /\ Stages /\ Quiet BY DEF ControlInv, ControlTypeOK
<1>2. CASE PollTick
  <2>1. /\ poll \in InTick /\ poll' = "waiting" /\ MotionTick(poll = "frame")
        /\ UNCHANGED <<stop, orphan, handler, command, toLeave>>
    BY <1>2 DEF PollTick
  <2>2. Stopped => (poll = "frame" => dev = EmptyDev /\ window > 0) BY <1>1 DEF Quiet
  <2>3. /\ Inv' /\ Numbered' /\ Shown' /\ OneInProgress'
        /\ Stopped => event' = NoEvent /\ dev'.live \subseteq dev'.parked
    BY <2>1, <2>2, TickShows
  <2>4. Stopped => orphan = "none"
    BY <1>1, <2>1 DEF Stopped, Stages, ControlTypeOK, InTick
  <2>5. ControlTypeOK' BY <1>1, <2>1, <2>3 DEF ControlTypeOK, Inv
  <2>6. Stages' /\ Quiet'
    BY <1>1, <2>1, <2>3, <2>4 DEF Stages, Quiet, Stopped, ControlTypeOK, InTick
  <2>7. QED BY <2>3, <2>5, <2>6 DEF ControlInv
<1>3. CASE OrphanTick
  <2>1. /\ orphan \in InTick /\ orphan' = "none" /\ MotionTick(orphan = "frame")
        /\ UNCHANGED <<poll, stop, handler, command, toLeave>>
    BY <1>3 DEF OrphanTick
  <2>2. Stopped => (orphan = "frame" => dev = EmptyDev /\ window > 0) BY <1>1 DEF Quiet
  <2>3. /\ Inv' /\ Numbered' /\ Shown' /\ OneInProgress'
        /\ Stopped => event' = NoEvent /\ dev'.live \subseteq dev'.parked
    BY <2>1, <2>2, TickShows
  <2>4. Stopped => poll = "off"
    BY <1>1, <2>1 DEF Stopped, Stages, ControlTypeOK, InTick
  <2>5. ControlTypeOK' BY <1>1, <2>1, <2>3 DEF ControlTypeOK, Inv
  <2>6. Stages' /\ Quiet'
    BY <1>1, <2>1, <2>3, <2>4 DEF Stages, Quiet, Stopped, ControlTypeOK, InTick
  <2>7. QED BY <2>3, <2>5, <2>6 DEF ControlInv
<1>4. CASE TakeTracks BY <1>4, TakeTracksInv
<1>5. ASSUME NEW e \in Event, SendLeave(e) PROVE ControlInv' BY <1>5, SendLeaveInv
\* The steps that change nothing of the tracks and of what was sent.
<1>6. ASSUME UNCHANGED <<dev, event, age, nextId, edge, leaves, took, named, toLeave>>,
             window' \in 0..StartupWindow, ControlTypeOK', Stages', Quiet'
      PROVE  ControlInv'
  <2>1. Inv' BY <1>1, <1>6, InvKept DEF TypeOK
  <2>2. Numbered' /\ Shown' /\ OneInProgress'
    BY <1>6 DEF ControlInv, Numbered, Shown, OneInProgress, InProgress
  <2>3. QED BY <1>6, <2>1, <2>2 DEF ControlInv
<1>7. window \in 0..StartupWindow BY <1>1 DEF TypeOK
<1>8. StartupWindow \in 0..StartupWindow /\ StartupWindow > 0 BY BoundsAssumption
<1>9. ASSUME StreamRestart
      PROVE  /\ UNCHANGED <<dev, event, age, nextId, edge, leaves, took, named>>
             /\ window' = StartupWindow /\ TypeOK'
  BY <1>1, <1>8, <1>9 DEF StreamRestart, TypeOK
<1>10. ASSUME UNCHANGED vars
       PROVE  /\ UNCHANGED <<dev, event, age, nextId, edge, leaves, took, named, window>>
              /\ TypeOK'
  BY <1>1, <1>10 DEF vars, TypeOK
<1>11. CASE Wake
  <2>1. ControlTypeOK' /\ Stages' /\ Quiet'
    BY <1>1, <1>10, <1>11 DEF Wake, ControlTypeOK, Stages, Quiet, Stopped, InTick
  <2>2. QED BY <1>6, <1>7, <1>10, <1>11, <2>1 DEF Wake
<1>12. CASE PollExit
  <2>1. ControlTypeOK' /\ Stages' /\ Quiet'
    BY <1>1, <1>10, <1>12 DEF PollExit, ControlTypeOK, Stages, Quiet, Stopped, InTick
  <2>2. QED BY <1>6, <1>7, <1>10, <1>12, <2>1 DEF PollExit
<1>13. CASE StartCommand
  <2>1. ControlTypeOK' /\ Stages' /\ Quiet'
    BY <1>1, <1>9, <1>13 DEF StartCommand, ControlTypeOK, Stages, Quiet, Stopped, InTick
  <2>2. QED BY <1>6, <1>8, <1>9, <1>13, <2>1 DEF StartCommand
<1>14. CASE StartFails
  <2>1. ControlTypeOK' /\ Stages' /\ Quiet'
    BY <1>1, <1>10, <1>14 DEF StartFails, ControlTypeOK, Stages, Quiet, Stopped, InTick
  <2>2. QED BY <1>6, <1>7, <1>10, <1>14, <2>1 DEF StartFails
<1>15. CASE ResetCommand
  <2>1. ControlTypeOK' /\ Stages' /\ Quiet'
    BY <1>1, <1>9, <1>15 DEF ResetCommand, ControlTypeOK, Stages, Quiet, Stopped, InTick
  <2>2. QED BY <1>6, <1>8, <1>9, <1>15, <2>1 DEF ResetCommand
<1>16. CASE StopCommand
  <2>1. ControlTypeOK' /\ Stages' /\ Quiet'
    BY <1>1, <1>9, <1>16 DEF StopCommand, ControlTypeOK, Stages, Quiet, Stopped, InTick
  <2>2. QED BY <1>6, <1>8, <1>9, <1>16, <2>1 DEF StopCommand
<1>17. CASE SetStop
  <2>1. ControlTypeOK' /\ Stages' /\ Quiet'
    BY <1>1, <1>10, <1>17 DEF SetStop, ControlTypeOK, Stages, Quiet, Stopped, InTick
  <2>2. QED BY <1>6, <1>7, <1>10, <1>17, <2>1 DEF SetStop
<1>18. CASE Joined
  <2>1. ControlTypeOK' /\ Stages' /\ Quiet'
    BY <1>1, <1>10, <1>18 DEF Joined, NewLoop, ControlTypeOK, Stages, Quiet, Stopped, InTick
  <2>2. QED BY <1>6, <1>7, <1>10, <1>18, <2>1 DEF Joined
<1>19. CASE JoinTimeout
  <2>1. ControlTypeOK' /\ Stages' /\ Quiet'
    BY <1>1, <1>10, <1>19 DEF JoinTimeout, NewLoop, ControlTypeOK, Stages, Quiet, Stopped, InTick
  <2>2. QED BY <1>6, <1>7, <1>10, <1>19, <2>1 DEF JoinTimeout
<1>20. CASE PullRestart
  <2>1. ControlTypeOK' /\ Stages' /\ Quiet'
    BY <1>1, <1>9, <1>20 DEF PullRestart, controlVars, ControlTypeOK, Stages, Quiet, Stopped
  <2>2. QED BY <1>6, <1>8, <1>9, <1>20, <2>1 DEF PullRestart, controlVars
<1>21. CASE UNCHANGED allVars
  <2>1. UNCHANGED vars BY <1>21 DEF allVars, vars
  <2>2. ControlTypeOK' /\ Stages' /\ Quiet'
    BY <1>1, <1>10, <1>21, <2>1 DEF allVars, ControlTypeOK, Stages, Quiet, Stopped
  <2>3. QED BY <1>6, <1>7, <1>10, <1>21, <2>1, <2>2 DEF allVars
<1>22. QED
  BY <1>2, <1>3, <1>4, <1>5, <1>11, <1>12, <1>13, <1>14, <1>15, <1>16, <1>17, <1>18, <1>19,
     <1>20, <1>21 DEF ControlNext

-----------------------------------------------------------------------------

\* ControlInv holds whatever the threads do.
THEOREM ControlInvariance == ControlSpec => []ControlInv
PROOF BY ControlInitInv, ControlNextInv, PTL DEF ControlSpec

\* Every variable of the threads has its type.
THEOREM ControlTypeCorrect == ControlSpec => []ControlTypeOK
PROOF
<1>1. ControlInv => ControlTypeOK BY DEF ControlInv
<1>2. QED BY <1>1, ControlInvariance, PTL

\* After a stop no event is left open or in progress, whatever ticks ran while its leaves were
\* sent and its loop was joined, or given up on.
THEOREM StopsLeaveNothing == ControlSpec => []StoppedIsLeft
PROOF
<1>1. ControlInv => StoppedIsLeft
  BY DEF ControlInv, StoppedIsLeft, Stages, Quiet, Stopped, Shown, ControlTypeOK, TypeOK, Event, NoEvent
<1>2. QED BY <1>1, ControlInvariance, PTL

\* A camera has one event in progress at a time, over commands and threads as well.
THEOREM OneEventAtATime == ControlSpec => []OneInProgress
PROOF
<1>1. ControlInv => OneInProgress BY DEF ControlInv
<1>2. QED BY <1>1, ControlInvariance, PTL

\* After its leave nothing but leaves is sent of an event, by whatever thread.
THEOREM LeftStaysLeft == ControlSpec => QuietAfterLeave
PROOF
<1>1. ControlInv /\ [ControlNext]_allVars
        => [\A e \in Event : edge[e] = "leave" => edge'[e] = "leave"]_allVars
  <2> SUFFICES ASSUME ControlInv, [ControlNext]_allVars
               PROVE  \A e \in Event : edge[e] = "leave" => edge'[e] = "leave"
    OBVIOUS
  <2>1. CASE PollTick BY <2>1, TickShows DEF PollTick, ControlInv, Quiet
  <2>2. CASE OrphanTick BY <2>2, TickShows DEF OrphanTick, ControlInv, Quiet
  <2>3. ASSUME NEW e \in Event, SendLeave(e)
        PROVE  \A f \in Event : edge[f] = "leave" => edge'[f] = "leave"
    BY <2>3 DEF SendLeave, ControlInv, ControlTypeOK, TypeOK
  <2>4. CASE ~(PollTick \/ OrphanTick \/ \E e \in Event : SendLeave(e))
    <3>1. UNCHANGED edge
      BY <2>4 DEF ControlNext, allVars, vars, controlVars, Wake, PollExit, StartCommand, StartFails,
                  ResetCommand, StopCommand, TakeTracks, SetStop, Joined, JoinTimeout,
                  PullRestart, StreamRestart
    <3>2. QED BY <3>1
  <2>5. QED BY <2>1, <2>2, <2>3, <2>4
<1>2. QED BY <1>1, ControlInvariance, PTL DEF ControlSpec, QuietAfterLeave
=============================================================================

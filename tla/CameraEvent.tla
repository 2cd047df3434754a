----------------------------- MODULE CameraEvent -----------------------------
(***************************************************************************)
(* The motion tick of one camera (avclient.py, _motion_tick): its tracks   *)
(* and the camera event they take part in.                                 *)
(*                                                                         *)
(* A tick runs under _motion_lock and is one action.  What the detector,   *)
(* the matcher, the scores, the zones and the clock find in a frame is an  *)
(* observation: a record of sets of tracker ids (which tracks a detection  *)
(* matched, which parked ones moved off their spot, ...), chosen freely    *)
(* among the ones the code could compute.  What the tick does with it --   *)
(* every guard, every update and their order -- is the code's: one         *)
(* operator for each of the numbered stages of _motion_tick.               *)
(*                                                                         *)
(* Tracker ids are abstract: an id stands for a new object again once      *)
(* nothing refers to it, where the code counts upwards for ever.           *)
(***************************************************************************)
EXTENDS Naturals, FiniteSets

CONSTANTS
  Tid,             \* tracker ids
  ObjectType,      \* ObjectType[t]: what the detector takes t to be
  MissTolerance,   \* MOTION_MISS_TOLERANCE_TICKS
  ParkedTolerance, \* PARKED_MISS_TOLERANCE_TICKS
  StartupWindow,   \* STARTUP_WINDOW_MS, in ticks
  EventMax,        \* an event's time limit (_event_max_ms), in ticks
  MaxEvents        \* bound of the model: how many events are opened

ASSUME TypesAssumption ==
  ObjectType \in [Tid -> {"person", "vehicle", "face", "licensePlate"}]
ASSUME ToleranceAssumption == /\ MissTolerance \in Nat \ {0}
                              /\ ParkedTolerance \in Nat
                              /\ ParkedTolerance >= MissTolerance
ASSUME BoundsAssumption == /\ StartupWindow \in Nat \ {0}
                           /\ EventMax \in Nat \ {0}
                           /\ MaxEvents \in Nat

VARIABLES
  dev,      \* _motion_state[device_id]: the tracks (see Dev)
  event,    \* the id of dev["event"]; NoEvent when it is None
  age,      \* now_ms - event["started_ms"], in ticks
  nextId,   \* _event_id_counter
  window,   \* ticks left of the startup window (0: not `starting`)
  edge,     \* edge[e]: the last edgeType sent for event e
  leaves,   \* leaves[e]: how many leaves were sent for event e
  took,     \* history: the tracks active in the event at the end of one of its ticks
  named     \* history: the tracks its leave names (both until the tick after the leave)

vars == <<dev, event, age, nextId, window, edge, leaves, took, named>>

Event == 1..MaxEvents
NoEvent == 0

\* What the tracks' dictionaries hold, reduced to what decides their events.
Dev == [live      : SUBSET Tid,   \* dev["tracks"]
        recent    : SUBSET Tid,   \* dev["recent"]
        confirmed : SUBSET Tid,
        ready     : SUBSET Tid,   \* true_positive for eventStartMSec; of a face: nameable
        zoned     : SUBSET Tid,
        awaiting  : SUBSET Tid,   \* awaiting_zone
        parked    : SUBSET Tid,   \* have a stationary_coord
        left      : SUBSET Tid,   \* left_first_box
        moved     : SUBSET Tid,   \* (which implies left_first_box)
        still     : SUBSET Tid,
        miss      : [Tid -> 0..ParkedTolerance],
        ev        : [Tid -> Event \cup {NoEvent}],   \* event_id
        finished  : [Tid -> 0..2]]  \* how often event["finished"] holds the track

EmptyDev == [live |-> {}, recent |-> {}, confirmed |-> {}, ready |-> {}, zoned |-> {},
             awaiting |-> {}, parked |-> {}, left |-> {}, moved |-> {}, still |-> {},
             miss |-> [t \in Tid |-> 0], ev |-> [t \in Tid |-> NoEvent],
             finished |-> [t \in Tid |-> 0]]

Cars == {t \in Tid : ObjectType[t] = "vehicle"}                      \* PARK_WHEN_STILL
Parented == {t \in Tid : ObjectType[t] \in {"face", "licensePlate"}}  \* CONFIRM_WITH
Parent(t) == IF ObjectType[t] = "face" THEN "person" ELSE "vehicle"
Starting == window > 0
Unseen == {t \in Tid \ (dev.live \cup dev.recent) : dev.finished[t] = 0}

\* The function f with the tracks of S set to v.
Put(f, S, v) == [t \in Tid |-> IF t \in S THEN v ELSE f[t]]
Count(f, S) == [t \in Tid |-> IF t \in S THEN f[t] + 1 ELSE f[t]]

\* d without what it knows of the tracks of S (the finished list keeps its own references).
Forget(d, S) ==
  [live |-> d.live \ S, recent |-> d.recent \ S, confirmed |-> d.confirmed \ S,
   ready |-> d.ready \ S, zoned |-> d.zoned \ S, awaiting |-> d.awaiting \ S,
   parked |-> d.parked \ S, left |-> d.left \ S, moved |-> d.moved \ S,
   still |-> d.still \ S, miss |-> Put(d.miss, S, 0), ev |-> Put(d.ev, S, NoEvent),
   finished |-> d.finished]

Active(d) == (d.live \cap d.confirmed \cap d.zoned) \ d.parked

-----------------------------------------------------------------------------
(* Stage 1.  Every track is matched (o.hit) or missed.  Of the matched     *)
(* ones, parked tracks that moved off their spot (o.off) take part again.  *)
(* Of the missed ones, those out of tolerance are dropped without trace    *)
(* when unconfirmed; else they close, unless held (o.held), and stand in   *)
(* the open event's finished list.                                         *)

Late(o) == {t \in dev.live \ o.hit :
              dev.miss[t] + 1 >= IF t \in dev.parked THEN ParkedTolerance ELSE MissTolerance}
Dropped(o) == Late(o) \ dev.confirmed
Closed(o) == (Late(o) \cap dev.confirmed) \ o.held

Follow(o) ==
  LET closed == Closed(o)
      missed == dev.live \ o.hit
      d == [dev EXCEPT
        !.live = @ \ closed,
        !.recent = @ \cup closed,
        !.ready = @ \cup o.ready,
        !.zoned = @ \cup (o.zone \cap dev.live),
        !.left = @ \cup o.left \cup o.moved,
        !.moved = @ \cup o.moved,
        !.still = ((@ \ o.hit) \cup (o.still \cap o.hit)) \ o.off,
        !.parked = @ \ o.off,
        !.miss = [t \in Tid |-> IF t \in o.hit THEN 0
                                ELSE IF t \in missed /\ @[t] < ParkedTolerance THEN @[t] + 1
                                ELSE @[t]],
        !.finished = IF event = NoEvent THEN @
                     ELSE Count(Put(@, o.off, 0), closed \ dev.parked)]
  IN Forget(d, Dropped(o) \cup o.expired)

-----------------------------------------------------------------------------
(* Stage 2.  An unclaimed detection resumes a recently closed track        *)
(* (o.back) or starts one (o.new).                                         *)

\* A track of its open event goes on in it; a parked one, or a car that never moved, parks.
InItsEvent(d) == {t \in d.recent \ d.parked : event # NoEvent /\ d.ev[t] = event}
Resumable(d) == InItsEvent(d) \cup (d.recent \cap d.parked) \cup ((d.recent \cap Cars) \ d.moved)

\* Mistake: a track that resumes in its event stays in the finished list too.
ReappearTwice(d, o) ==
  LET present == o.back \cup o.new
      parks == (o.back \ InItsEvent(d)) \cup (IF Starting THEN o.new ELSE {})
  IN [d EXCEPT !.live = @ \cup present, !.recent = @ \ o.back, !.parked = @ \cup parks,
               !.confirmed = IF Starting THEN @ \cup o.new ELSE @,
               !.zoned = @ \cup (o.zone \cap present), !.miss = Put(@, present, 0)]

\* After one hit no track is a true positive (MIN_HITS), so only the startup window
\* confirms a track at once, and that one parks.
Reappear(d, o) ==
  LET present == o.back \cup o.new
      parks == (o.back \ InItsEvent(d)) \cup (IF Starting THEN o.new ELSE {})
  IN [d EXCEPT
       !.live = @ \cup present,
       !.recent = @ \ o.back,
       !.confirmed = IF Starting THEN @ \cup o.new ELSE @,
       !.zoned = @ \cup (o.zone \cap present),
       !.still = (@ \ o.back) \cup (o.still \cap o.back),
       !.parked = @ \cup parks,
       !.miss = Put(@, present, 0),
       !.finished = Put(@, o.back \cap InItsEvent(d), 0)]

-----------------------------------------------------------------------------
(* Stages 2b, 3 and 3b.  Confirm; park stopped cars; confirm faces and     *)
(* plates with their parent.                                               *)

ToConfirm(d) == {t \in ((d.live \cap d.ready) \ d.confirmed) \ Parented :
                   t \in Cars => t \in d.left}
Confirm(d) == [d EXCEPT !.confirmed = @ \cup ToConfirm(d)]

\* A car that is still parks when confirmed; one that never left its first box needs no more
\* than a true positive.
ToPark(d) == (d.live \cap Cars \cap d.still \cap
              (d.confirmed \cup (d.ready \ d.left))) \ d.parked

\* Mistake: a car that parks during the event is left out of its leave.
ParkUnlisted(d) == [d EXCEPT !.confirmed = @ \cup ToPark(d), !.parked = @ \cup ToPark(d)]

Park(d) ==
  [d EXCEPT
    !.confirmed = @ \cup ToPark(d),
    !.parked = @ \cup ToPark(d),
    !.finished = Count(@, {t \in ToPark(d) : event # NoEvent /\ d.ev[t] = event})]

ToConfirmWithParent(d) ==
  {t \in (d.live \cap Parented) \ d.confirmed :
     /\ d.miss[t] = 0
     /\ ObjectType[t] = "face" => t \in d.ready
     /\ \E p \in (d.live \cap d.confirmed) \ d.parked : ObjectType[p] = Parent(t)}
ConfirmWithParent(d) == [d EXCEPT !.confirmed = @ \cup ToConfirmWithParent(d)]

-----------------------------------------------------------------------------
(* Stage 3c.  A confirmed track joins only once it has been in a zone that *)
(* lists its type; until then it waits.                                    *)

Entered(d) == d.live \cap d.awaiting \cap d.zoned \cap d.confirmed

\* Mistake: nobody remembers that a confirmed track still waits for its zone.
HoldForNothing(d, joining) == [d EXCEPT !.awaiting = @ \ Entered(d)]

HoldForZones(d, joining) ==
  [d EXCEPT !.awaiting = (@ \ Entered(d)) \cup (joining \ d.zoned)]
Zoned(d, joining) == Entered(d) \cup (joining \cap d.zoned)

-----------------------------------------------------------------------------
(* Stage 4.  The camera event.  d: the tracks; joining: those that start   *)
(* taking part in this tick.                                               *)

\* Mistake: the limit is one tick late.
TimedOutLate == age > EventMax

TimedOut == age >= EventMax

OpenEvent(d, joining) ==
  /\ event = NoEvent /\ joining # {} /\ Active(d) # {}
  /\ nextId <= MaxEvents
  /\ event' = nextId
  /\ nextId' = nextId + 1
  /\ age' = 0
  /\ dev' = [d EXCEPT !.ev = Put(@, Active(d), nextId)]
  /\ \E first \in {"enter", "moving"} : edge' = [edge EXCEPT ![nextId] = first]
  /\ took' = Active(d)
  /\ named' = {}
  /\ UNCHANGED leaves

NoEventYet(d, joining) ==
  /\ event = NoEvent /\ (joining = {} \/ Active(d) = {})
  /\ dev' = d
  /\ took' = {} /\ named' = {}
  /\ UNCHANGED <<event, age, nextId, edge, leaves>>

\* Mistake: the leave's members are the active tracks only, so an event whose tracks are all
\* gone closes without a leave.
CloseEventOfActive(d, joining) ==
  LET active == Active(d) IN
  /\ event # NoEvent /\ (active = {} \/ TimedOut)
  /\ dev' = [d EXCEPT !.ev = Put(@, joining, event), !.parked = @ \cup active,
                      !.finished = Put(@, Tid, 0)]
  /\ event' = NoEvent /\ age' = 0
  /\ edge' = IF active = {} THEN edge ELSE [edge EXCEPT ![event] = "leave"]
  /\ leaves' = IF active = {} THEN leaves ELSE [leaves EXCEPT ![event] = @ + 1]
  /\ took' = took \cup active
  /\ named' = active
  /\ UNCHANGED nextId

\* All gone, or the time limit: a leave naming the finished and the active tracks; the
\* ones in view park.  An event with no member ("shouldn't happen") is closed without one.
CloseEvent(d, joining) ==
  LET active == Active(d)
      members == {t \in Tid : d.finished[t] > 0} \cup active
  IN
  /\ event # NoEvent /\ (active = {} \/ TimedOut)
  /\ dev' = [d EXCEPT !.ev = Put(@, joining, event),
                      !.parked = @ \cup active,
                      !.finished = Put(@, Tid, 0)]
  /\ event' = NoEvent
  /\ age' = 0
  /\ edge' = IF members = {} THEN edge ELSE [edge EXCEPT ![event] = "leave"]
  /\ leaves' = IF members = {} THEN leaves ELSE [leaves EXCEPT ![event] = @ + 1]
  /\ took' = took \cup active
  /\ named' = members
  /\ UNCHANGED nextId

\* The event goes on; a "moving" is sent once per report interval.
ContinueEvent(d, joining) ==
  /\ event # NoEvent /\ Active(d) # {} /\ ~TimedOut
  /\ dev' = [d EXCEPT !.ev = Put(@, joining, event)]
  /\ age' = age + 1
  /\ edge' \in {edge, [edge EXCEPT ![event] = "moving"]}
  /\ took' = took \cup Active(d)
  /\ UNCHANGED <<event, nextId, leaves, named>>

Lifecycle(d, joining) == \/ OpenEvent(d, joining) \/ NoEventYet(d, joining)
                         \/ CloseEvent(d, joining) \/ ContinueEvent(d, joining)

-----------------------------------------------------------------------------
(* The tick                                                                *)

\* Mistake: a track that confirms with its parent is not among those that join.
TickAlone(o) ==
  LET d1 == Follow(o)
      d2 == Reappear(d1, o)
      d5 == ConfirmWithParent(Park(Confirm(d2)))
      joining == o.off \cup (o.back \cap InItsEvent(d1)) \cup ToConfirm(d2)
  IN /\ o.back \subseteq Resumable(d1)
     /\ Lifecycle(HoldForZones(d5, joining), Zoned(d5, joining))
     /\ window' = IF Starting THEN window - 1 ELSE 0

Tick(o) ==
  LET d1 == Follow(o)
      d2 == Reappear(d1, o)
      d3 == Confirm(d2)
      d4 == Park(d3)
      d5 == ConfirmWithParent(d4)
      joining == o.off \cup (o.back \cap InItsEvent(d1)) \cup ToConfirm(d2)
                   \cup ToConfirmWithParent(d4)
  IN /\ o.back \subseteq Resumable(d1)
     /\ Lifecycle(HoldForZones(d5, joining), Zoned(d5, joining))
     /\ window' = IF Starting THEN window - 1 ELSE 0

\* A car is held for its model answer, a face while its person is tracked and not parked.  The
\* loop may have seen the person before the face: one that just moved off its spot holds it too.
LinkedPerson(off) == \E p \in dev.live \ (dev.parked \ off) : ObjectType[p] = "person"
MayBeHeld(t, off) == t \in Cars \/ (ObjectType[t] = "face" /\ LinkedPerson(off))

\* A car or person needs more than its first frame; a new face may be nameable from its first
\* read, and then confirms with its person in that very tick.
MayGetReady(new) == (dev.live \ (dev.confirmed \cup dev.ready))
                      \cup {t \in new : ObjectType[t] = "face"}

\* A tick over any observation the code could make of the tracks there are (what a parked
\* track's `still` says decides nothing: it is reset when the track moves again).  Without a
\* frame nothing is detected.
MotionTick(frame) ==
  \E hit \in SUBSET (IF frame THEN dev.live ELSE {}),
     new \in SUBSET (IF frame THEN Unseen ELSE {}),
     expired \in SUBSET dev.recent :
  \E off \in SUBSET (hit \cap dev.parked),
     ready \in SUBSET MayGetReady(new),
     moved \in SUBSET ((hit \cap Cars) \ dev.moved),
     back \in SUBSET (IF frame THEN (dev.recent \ expired) \cup (dev.live \ hit) ELSE {}) :
  \E left \in SUBSET ((hit \cap Cars) \ (dev.left \cup moved)),
     held \in SUBSET {t \in dev.live \ hit : MayBeHeld(t, off)},
     still \in SUBSET (((hit \cup back) \cap Cars) \ dev.parked),
     zone \in SUBSET ((hit \cup back \cup new \cup {f \in dev.live : ObjectType[f] = "face"})
                        \ dev.zoned) :
    Tick([hit |-> hit, new |-> new, expired |-> expired, off |-> off, ready |-> ready,
          moved |-> moved, left |-> left, held |-> held, back |-> back, still |-> still,
          zone |-> zone])

\* The pull was started again (_stop_stream): the startup window is whole until its first
\* frame is analysed, however many ticks that takes.
StreamRestart ==
  /\ window' = StartupWindow
  /\ UNCHANGED <<dev, event, age, nextId, edge, leaves, took, named>>

Init ==
  /\ dev = EmptyDev
  /\ event = NoEvent /\ age = 0 /\ nextId = 1
  /\ window = StartupWindow
  /\ edge = [e \in Event |-> "none"]
  /\ leaves = [e \in Event |-> 0]
  /\ took = {} /\ named = {}

Next == MotionTick(TRUE) \/ StreamRestart

\* While an event is open the poll loop goes on ticking: on every frame, and every
\* DETECT_INTERVAL_S when there is none (the last frame of a pull that ended or hangs counts
\* as one until the pull is started again).  This is what a tick does to event and age; when
\* it is enabled MotionTick is.
TickOn == /\ event # NoEvent
          /\ \/ event' = event /\ age' = age + 1
             \/ event' = NoEvent /\ age' = 0

Spec == Init /\ [][Next]_vars /\ WF_<<event, age>>(TickOn)

-----------------------------------------------------------------------------
(* Properties                                                              *)

\* Every variable has its type.
TypeOK ==
  /\ dev \in Dev
  /\ event \in Event \cup {NoEvent}
  /\ age \in 0..EventMax
  /\ nextId \in 1..(MaxEvents + 1)
  /\ window \in 0..StartupWindow
  /\ edge \in [Event -> {"none", "enter", "moving", "leave"}]
  /\ leaves \in [Event -> Nat]
  /\ took \subseteq Tid
  /\ named \subseteq Tid

\* Between ticks an open event has a track in view that takes part in it, and every
\* track in view that may be reported takes part in the open event: no object is shown to
\* nobody, and no event outlives its objects (step 4 of _motion_tick, whatever the ways
\* a track becomes reportable).
EventFollowsActive ==
  /\ (event = NoEvent) <=> (Active(dev) = {})
  /\ \A t \in Active(dev) : dev.ev[t] = event

\* A leave names no track twice: the finished list holds a track at most once, and no track
\* that is in view as a participant (the leave's members are finished + active).
MembersOnce ==
  \A t \in Tid : /\ dev.finished[t] <= 1
                 /\ t \in Active(dev) => dev.finished[t] = 0

\* Every track that took part in an event at the end of some tick, however it then parked,
\* was lost, resumed or was forgotten, is a member of the event's leave ("its snapshot goes
\* in the leave", "its snapshot stays in the leave").
EveryParticipantIsNamed ==
  IF event = NoEvent THEN took \subseteq named
  ELSE \A t \in took : dev.finished[t] = 1 \/ t \in Active(dev)

\* Both: a leave names each participant of its event, and names it once.
LeavesNameEach == MembersOnce /\ EveryParticipantIsNamed

\* To Protect the ticks' messages follow the protocol of events: one enter, reports while
\* the event is open, one leave, one event of a camera at a time.  In particular an event
\* never ends without its leave: the branch that closes it quietly "shouldn't happen", and
\* doesn't.
Protocol == INSTANCE EventProtocol WITH Event <- Event, edge <- edge, leaves <- leaves
ImplementsProtocol == Protocol!Spec

\* "Unconfirmed (or not yet zoned) tracks aren't part of it": the leave's finished members
\* have been in a zone for their type.
FinishedWereZoned == \A t \in dev.live \cup dev.recent : dev.finished[t] > 0 => t \in dev.zoned
=============================================================================

-------------------------- MODULE CameraEventProofs --------------------------
(***************************************************************************)
(* Proofs about CameraEvent.                                               *)
(*                                                                         *)
(* The argument follows the tick.  Ok(d, J) says what the tracks d satisfy *)
(* in the middle of a tick, J being the tracks that have started to take   *)
(* part in it so far.  Between ticks Ok(dev, {}) holds; each stage of the  *)
(* tick preserves Ok, adding to J whom it lets join; and stage 4 restores  *)
(* the invariant of the camera event from it.                              *)
(***************************************************************************)
EXTENDS CameraEvent, TLAPS

Present(d) == d.live \cup d.recent
Reportable(d) == (d.live \cap d.confirmed) \ d.parked

\* The tracks' own bookkeeping.
Filed(d) ==
  /\ d \in Dev
  /\ d.live \cap d.recent = {}
  /\ d.recent \subseteq d.confirmed
  /\ d.parked \subseteq d.confirmed
  /\ d.confirmed \subseteq Present(d)

\* Who may be reported has just started to take part, waits for its zone, or is in the event.
LetJoin(d, J) ==
  \A t \in Reportable(d) :
    t \in J \/ t \in d.awaiting \/ (event # NoEvent /\ t \in d.zoned /\ d.ev[t] = event)

\* The finished list.
ListedOnce(d) ==
  \A t \in Tid : /\ d.finished[t] \in {0, 1}
                 /\ event = NoEvent => d.finished[t] = 0
                 /\ t \in d.live \ d.parked => d.finished[t] = 0

\* The participants of the open event.
Took(d) ==
  event # NoEvent =>
    \A t \in took : /\ t \in Tid
                    /\ d.finished[t] = 1 \/ t \in Active(d)
                    /\ t \in Present(d) => t \in d.zoned /\ d.ev[t] = event

Ok(d, J) == Filed(d) /\ LetJoin(d, J) /\ ListedOnce(d) /\ Took(d)

\* Between ticks.
Waits == \A t \in Reportable(dev) : t \in dev.zoned \/ t \in dev.awaiting
EventInv ==
  IF event = NoEvent THEN took \subseteq named
  ELSE took # {} /\ event < nextId

Inv == /\ TypeOK /\ EventFollowsActive /\ Waits /\ EventInv
       /\ Filed(dev) /\ ListedOnce(dev) /\ Took(dev)

\* What MotionTick gives the stages.
Observation(o) ==
  /\ o.hit \subseteq dev.live
  /\ o.off \subseteq o.hit \cap dev.parked
  /\ o.new \subseteq Unseen
  /\ o.expired \subseteq dev.recent
  /\ o.ready \subseteq Tid /\ o.zone \subseteq Tid /\ o.moved \subseteq Tid
  /\ o.left \subseteq Tid /\ o.still \subseteq Tid /\ o.back \subseteq Tid

-----------------------------------------------------------------------------
(* The stages, field by field                                              *)

\* Stage 1: what Follow leaves of each field the invariant reads.
LEMMA FollowFields ==
  ASSUME Filed(dev), TypeOK, NEW o, Observation(o)
  PROVE  LET d == Follow(o)
             gone == Dropped(o) \cup o.expired
         IN /\ d \in [live : SUBSET Tid, recent : SUBSET Tid, confirmed : SUBSET Tid,
                      ready : SUBSET Tid, zoned : SUBSET Tid, awaiting : SUBSET Tid,
                      parked : SUBSET Tid, left : SUBSET Tid, moved : SUBSET Tid,
                      still : SUBSET Tid, miss : [Tid -> 0..ParkedTolerance],
                      ev : [Tid -> Event \cup {NoEvent}], finished : [Tid -> Nat]]
            /\ d.live = (dev.live \ Closed(o)) \ gone
            /\ d.recent = (dev.recent \cup Closed(o)) \ gone
            /\ d.confirmed = dev.confirmed \ gone
            /\ d.zoned = (dev.zoned \cup (o.zone \cap dev.live)) \ gone
            /\ d.awaiting = dev.awaiting \ gone
            /\ d.parked = (dev.parked \ o.off) \ gone
            /\ \A t \in Tid : d.ev[t] = IF t \in gone THEN NoEvent ELSE dev.ev[t]
            /\ \A t \in Tid : d.finished[t] =
                 IF event = NoEvent THEN dev.finished[t]
                 ELSE (IF t \in o.off THEN 0 ELSE dev.finished[t])
                       + (IF t \in Closed(o) \ dev.parked THEN 1 ELSE 0)
PROOF
<1> USE ToleranceAssumption, BoundsAssumption
<1> DEFINE closed == Closed(o)
           missed == dev.live \ o.hit
           m == [t \in Tid |-> IF t \in o.hit THEN 0
                               ELSE IF t \in missed /\ dev.miss[t] < ParkedTolerance
                                    THEN dev.miss[t] + 1 ELSE dev.miss[t]]
           f == IF event = NoEvent THEN dev.finished
                ELSE Count(Put(dev.finished, o.off, 0), closed \ dev.parked)
           gone == Dropped(o) \cup o.expired
           e == Put(dev.ev, gone, NoEvent)
           mm == Put(m, gone, 0)
<1>1. dev \in Dev BY DEF TypeOK
<1>2. m \in [Tid -> 0..ParkedTolerance] BY <1>1 DEF Dev
<1>3. mm \in [Tid -> 0..ParkedTolerance] BY <1>2 DEF Put
<1>4. f \in [Tid -> Nat] BY <1>1 DEF Dev, Count, Put
<1>5. e \in [Tid -> Event \cup {NoEvent}] BY <1>1 DEF Dev, Put
<1>6. \A t \in Tid : f[t] = IF event = NoEvent THEN dev.finished[t]
                            ELSE (IF t \in o.off THEN 0 ELSE dev.finished[t])
                                 + (IF t \in closed \ dev.parked THEN 1 ELSE 0)
  BY <1>1 DEF Dev, Count, Put
<1>7. \A t \in Tid : e[t] = IF t \in gone THEN NoEvent ELSE dev.ev[t] BY DEF Put
<1>8. closed \subseteq Tid BY <1>1 DEF Dev, Closed, Late
<1>9. Follow(o) =
        [live |-> (dev.live \ closed) \ gone,
         recent |-> (dev.recent \cup closed) \ gone,
         confirmed |-> dev.confirmed \ gone,
         ready |-> (dev.ready \cup o.ready) \ gone,
         zoned |-> (dev.zoned \cup (o.zone \cap dev.live)) \ gone,
         awaiting |-> dev.awaiting \ gone,
         parked |-> (dev.parked \ o.off) \ gone,
         left |-> (dev.left \cup o.left \cup o.moved) \ gone,
         moved |-> (dev.moved \cup o.moved) \ gone,
         still |-> (((dev.still \ o.hit) \cup (o.still \cap o.hit)) \ o.off) \ gone,
         miss |-> mm, ev |-> e, finished |-> f]
  BY <1>1 DEF Follow, Forget, Dev
<1> HIDE DEF f, e, m, mm, gone, closed
<1>10. QED
  BY <1>1, <1>3, <1>4, <1>5, <1>6, <1>7, <1>8, <1>9 DEF Dev, Observation, gone, closed

\* Stage 2.
LEMMA ReappearFields ==
  ASSUME NEW d \in Dev, NEW o, Observation(o)
  PROVE  LET r == Reappear(d, o)
             parks == (o.back \ InItsEvent(d)) \cup (IF Starting THEN o.new ELSE {})
         IN /\ r \in Dev
            /\ r.live = d.live \cup o.back \cup o.new
            /\ r.recent = d.recent \ o.back
            /\ r.confirmed = IF Starting THEN d.confirmed \cup o.new ELSE d.confirmed
            /\ d.zoned \subseteq r.zoned
            /\ r.awaiting = d.awaiting
            /\ r.parked = d.parked \cup parks
            /\ r.ev = d.ev
            /\ \A t \in Tid :
                 r.finished[t] = IF t \in o.back \cap InItsEvent(d) THEN 0 ELSE d.finished[t]
PROOF
<1> USE ToleranceAssumption
<1> DEFINE p == o.back \cup o.new
<1>1. o.new \subseteq Tid /\ o.back \subseteq Tid BY DEF Observation, Unseen
<1>2. Put(d.miss, p, 0) \in [Tid -> 0..ParkedTolerance] BY DEF Dev, Put
<1>3. Put(d.finished, o.back \cap InItsEvent(d), 0) \in [Tid -> 0..2] BY DEF Dev, Put
<1>4. \A t \in Tid : Put(d.finished, o.back \cap InItsEvent(d), 0)[t] =
                       IF t \in o.back \cap InItsEvent(d) THEN 0 ELSE d.finished[t]
  BY DEF Put
<1> DEFINE pk == (o.back \ InItsEvent(d)) \cup (IF Starting THEN o.new ELSE {})
           cf == IF Starting THEN d.confirmed \cup o.new ELSE d.confirmed
           ms == Put(d.miss, p, 0)
           fs == Put(d.finished, o.back \cap InItsEvent(d), 0)
<1>5. pk \subseteq Tid /\ cf \subseteq Tid BY <1>1 DEF Dev
<1>6. Reappear(d, o) =
        [d EXCEPT !.live = d.live \cup p, !.recent = d.recent \ o.back, !.confirmed = cf,
                  !.zoned = d.zoned \cup (o.zone \cap p),
                  !.still = (d.still \ o.back) \cup (o.still \cap o.back),
                  !.parked = d.parked \cup pk, !.miss = ms, !.finished = fs]
  BY Zenon DEF Reappear
<1>7. p \subseteq Tid BY <1>1
<1> HIDE DEF ms, fs, cf, pk, p
<1>8. /\ Reappear(d, o) \in Dev
      /\ Reappear(d, o).live = d.live \cup p
      /\ Reappear(d, o).recent = d.recent \ o.back
      /\ Reappear(d, o).confirmed = cf
      /\ d.zoned \subseteq Reappear(d, o).zoned
      /\ Reappear(d, o).awaiting = d.awaiting
      /\ Reappear(d, o).parked = d.parked \cup pk
      /\ Reappear(d, o).ev = d.ev
      /\ Reappear(d, o).finished = fs
  <2>1. ms \in [Tid -> 0..ParkedTolerance] /\ fs \in [Tid -> 0..2] BY <1>2, <1>3 DEF ms, fs
  <2>2. d \in Dev OBVIOUS
  <2>3. o.zone \cap p \subseteq Tid /\ o.still \cap o.back \subseteq Tid BY <1>1, <1>7
  <2> DEFINE z == d.zoned \cup (o.zone \cap p)
             st == (d.still \ o.back) \cup (o.still \cap o.back)
  <2>4. z \subseteq Tid /\ st \subseteq Tid BY <2>2, <2>3 DEF Dev
  <2>5. Reappear(d, o) =
        [d EXCEPT !.live = d.live \cup p, !.recent = d.recent \ o.back, !.confirmed = cf,
                  !.zoned = z, !.still = st,
                  !.parked = d.parked \cup pk, !.miss = ms, !.finished = fs]
    BY <1>6
  <2>6. d.zoned \subseteq z OBVIOUS
  <2> HIDE DEF z, st
  <2>7. Reappear(d, o) =
        [live |-> d.live \cup p, recent |-> d.recent \ o.back, confirmed |-> cf,
         ready |-> d.ready, zoned |-> z, awaiting |-> d.awaiting, parked |-> d.parked \cup pk,
         left |-> d.left, moved |-> d.moved, still |-> st, miss |-> ms, ev |-> d.ev,
         finished |-> fs]
    BY <2>2, <2>5 DEF Dev
  <2>8. QED BY <1>5, <1>7, <2>1, <2>2, <2>4, <2>6, <2>7 DEF Dev
<1>9. QED BY <1>4, <1>8 DEF p, cf, pk, fs

\* Stage 3.
LEMMA ParkFields ==
  ASSUME NEW d \in Dev, ListedOnce(d)
  PROVE  LET p == Park(d)
         IN /\ p \in Dev
            /\ p.live = d.live /\ p.recent = d.recent /\ p.zoned = d.zoned
            /\ p.awaiting = d.awaiting /\ p.ev = d.ev
            /\ p.confirmed = d.confirmed \cup ToPark(d)
            /\ p.parked = d.parked \cup ToPark(d)
            /\ \A t \in Tid :
                 p.finished[t] = IF t \in ToPark(d) /\ event # NoEvent /\ d.ev[t] = event
                                 THEN d.finished[t] + 1 ELSE d.finished[t]
PROOF
<1> DEFINE S == {t \in ToPark(d) : event # NoEvent /\ d.ev[t] = event}
<1>1. ToPark(d) \subseteq Tid BY DEF ToPark, Dev
<1>2. Count(d.finished, S) \in [Tid -> 0..2] BY DEF Count, Dev, ListedOnce
<1>3. \A t \in Tid : Count(d.finished, S)[t] = IF t \in S THEN d.finished[t] + 1
                                                ELSE d.finished[t]
  BY DEF Count
<1>4. QED BY <1>1, <1>2, <1>3 DEF Park, Dev

-----------------------------------------------------------------------------
(* Each stage preserves Ok                                                 *)

LEMMA FollowOk ==
  ASSUME Inv, NEW o, Observation(o)
  PROVE  /\ Ok(Follow(o), o.off)
         /\ Present(Follow(o)) \subseteq Present(dev)
         /\ \A t \in Unseen : Follow(o).finished[t] = 0
PROOF
<1> DEFINE d == Follow(o)
           gone == Dropped(o) \cup o.expired
<1>1. /\ Filed(dev) /\ TypeOK /\ ListedOnce(dev) /\ Took(dev)
      /\ EventFollowsActive /\ Waits
  BY DEF Inv
<1>2. /\ d.live = (dev.live \ Closed(o)) \ gone
      /\ d.recent = (dev.recent \cup Closed(o)) \ gone
      /\ d.confirmed = dev.confirmed \ gone
      /\ d.zoned = (dev.zoned \cup (o.zone \cap dev.live)) \ gone
      /\ d.awaiting = dev.awaiting \ gone
      /\ d.parked = (dev.parked \ o.off) \ gone
  BY <1>1, FollowFields
<1>3. \A t \in Tid \ gone : d.ev[t] = dev.ev[t]
  BY <1>1, FollowFields
<1>4. \A t \in Tid : d.finished[t] =
        IF event = NoEvent THEN dev.finished[t]
        ELSE (IF t \in o.off THEN 0 ELSE dev.finished[t])
              + (IF t \in Closed(o) \ dev.parked THEN 1 ELSE 0)
  BY <1>1, FollowFields
<1>5. /\ dev.live \subseteq Tid /\ dev.recent \subseteq Tid /\ dev.confirmed \subseteq Tid
      /\ dev.parked \subseteq Tid
  BY <1>1 DEF Filed, Dev
<1>6. /\ Closed(o) \subseteq (dev.live \cap dev.confirmed) \ o.hit
      /\ Dropped(o) \subseteq dev.live \ (dev.confirmed \cup o.hit)
  BY DEF Closed, Dropped, Late
<1>7. \A t \in Tid : d.finished[t] \in {0, 1}
  BY <1>1, <1>4, <1>6 DEF ListedOnce, Observation
<1>8. Filed(d)
  <2>1. d \in Dev
    <3>1. d \in [live : SUBSET Tid, recent : SUBSET Tid, confirmed : SUBSET Tid,
                 ready : SUBSET Tid, zoned : SUBSET Tid, awaiting : SUBSET Tid,
                 parked : SUBSET Tid, left : SUBSET Tid, moved : SUBSET Tid,
                 still : SUBSET Tid, miss : [Tid -> 0..ParkedTolerance],
                 ev : [Tid -> Event \cup {NoEvent}], finished : [Tid -> Nat]]
      BY <1>1, FollowFields
    <3>2. d.finished \in [Tid -> 0..2] BY <1>7, <3>1
    <3> HIDE DEF d
    <3>3. QED BY <3>1, <3>2 DEF Dev
  <2>2. QED BY <1>1, <1>2, <1>6, <2>1 DEF Filed, Present, Observation
<1>9. LetJoin(d, o.off)
  BY <1>1, <1>2, <1>3, <1>5, <1>6
     DEF LetJoin, Reportable, Waits, EventFollowsActive, Active, Filed, Present, Observation
<1>10. ListedOnce(d)
  BY <1>1, <1>2, <1>4, <1>6, <1>7 DEF ListedOnce, Observation
<1>11. Took(d)
  BY <1>1, <1>2, <1>3, <1>4, <1>5, <1>6
     DEF Took, Active, Present, ListedOnce, Filed, Observation, TypeOK
<1>12. Present(d) \subseteq Present(dev)
  BY <1>2, <1>6 DEF Present
<1>13. \A t \in Unseen : d.finished[t] = 0
  BY <1>1, <1>4, <1>5, <1>6 DEF Unseen, Observation
<1>14. QED BY <1>8, <1>9, <1>10, <1>11, <1>12, <1>13 DEF Ok

LEMMA ReappearOk ==
  ASSUME NEW d, NEW J, Ok(d, J), NEW o, Observation(o),
         o.back \subseteq Resumable(d),
         o.new \cap Present(d) = {},
         \A t \in o.new : d.finished[t] = 0
  PROVE  Ok(Reappear(d, o), J \cup (o.back \cap InItsEvent(d)))
PROOF
<1> DEFINE r == Reappear(d, o)
           parks == (o.back \ InItsEvent(d)) \cup (IF Starting THEN o.new ELSE {})
<1>1. Filed(d) /\ LetJoin(d, J) /\ ListedOnce(d) /\ Took(d) /\ d \in Dev BY DEF Ok, Filed
<1>2. /\ r \in Dev
      /\ r.live = d.live \cup o.back \cup o.new
      /\ r.recent = d.recent \ o.back
      /\ r.confirmed = IF Starting THEN d.confirmed \cup o.new ELSE d.confirmed
      /\ d.zoned \subseteq r.zoned
      /\ r.awaiting = d.awaiting
      /\ r.parked = d.parked \cup parks
      /\ r.ev = d.ev
  BY <1>1, ReappearFields
<1>3. \A t \in Tid : r.finished[t] = IF t \in o.back \cap InItsEvent(d) THEN 0 ELSE d.finished[t]
  BY <1>1, ReappearFields
<1>4. o.back \subseteq d.recent BY DEF Resumable, InItsEvent
<1>5. InItsEvent(d) \cap d.parked = {} BY DEF InItsEvent
<1>6. /\ d.live \subseteq Tid /\ d.recent \subseteq Tid /\ o.new \subseteq Tid
  BY <1>1 DEF Dev, Observation, Unseen
<1>7. Filed(r)
  BY <1>1, <1>2, <1>4 DEF Filed, Present
<1>8. LetJoin(r, J \cup (o.back \cap InItsEvent(d)))
  BY <1>1, <1>2, <1>4 DEF LetJoin, Reportable, Filed, Present
<1>9. ListedOnce(r)
  BY <1>1, <1>2, <1>3, <1>6 DEF ListedOnce
<1>10. Took(r)
  <2> SUFFICES ASSUME event # NoEvent, NEW t \in took
               PROVE  /\ t \in Tid
                      /\ r.finished[t] = 1 \/ t \in Active(r)
                      /\ t \in Present(r) => t \in r.zoned /\ r.ev[t] = event
    BY DEF Took
  <2>1. /\ t \in Tid
        /\ d.finished[t] = 1 \/ t \in Active(d)
        /\ t \in Present(d) => t \in d.zoned /\ d.ev[t] = event
    BY <1>1 DEF Took
  <2>2. t \notin o.new BY <2>1 DEF Active, Present
  <2>3. t \in Present(r) => t \in r.zoned /\ r.ev[t] = event
    BY <1>2, <1>4, <2>1, <2>2 DEF Present
  <2>4. CASE t \in o.back \cap InItsEvent(d)
    <3>1. t \in r.live /\ t \in r.confirmed BY <1>1, <1>2, <1>4, <2>4 DEF Filed
    <3>2. t \in r.zoned BY <2>3, <3>1 DEF Present
    <3>3. t \notin r.parked BY <1>2, <1>5, <2>2, <2>4
    <3>4. QED BY <2>1, <2>3, <3>1, <3>2, <3>3 DEF Active
  <2>5. CASE t \notin o.back \cap InItsEvent(d)
    <3>1. CASE t \in Active(d)
      <4>1. t \notin o.back BY <1>1, <1>4, <3>1 DEF Active, Filed
      <4>2. QED BY <1>2, <2>1, <2>2, <2>3, <3>1, <4>1 DEF Active
    <3>2. CASE d.finished[t] = 1
      BY <1>3, <2>1, <2>3, <2>5, <3>2
    <3>3. QED BY <2>1, <3>1, <3>2
  <2>6. QED BY <2>4, <2>5
<1>11. QED BY <1>7, <1>8, <1>9, <1>10 DEF Ok

LEMMA ConfirmOk ==
  ASSUME NEW d, NEW J, Ok(d, J)
  PROVE  Ok(Confirm(d), J \cup ToConfirm(d))
PROOF
<1>1. d \in Dev /\ ToConfirm(d) \subseteq d.live BY DEF Ok, Filed, ToConfirm
<1>2. Confirm(d) \in Dev
  BY <1>1 DEF Confirm, Dev
<1>3. /\ Confirm(d).live = d.live /\ Confirm(d).recent = d.recent
      /\ Confirm(d).confirmed = d.confirmed \cup ToConfirm(d)
      /\ Confirm(d).zoned = d.zoned /\ Confirm(d).awaiting = d.awaiting
      /\ Confirm(d).parked = d.parked /\ Confirm(d).ev = d.ev
      /\ Confirm(d).finished = d.finished
  BY <1>1 DEF Confirm, Dev
<1>4. QED
  BY <1>1, <1>2, <1>3 DEF Ok, Filed, LetJoin, Reportable, ListedOnce, Took, Active, Present

LEMMA ParkOk ==
  ASSUME NEW d, NEW J, Ok(d, J)
  PROVE  Ok(Park(d), J)
PROOF
<1> DEFINE p == Park(d)
<1>1. Filed(d) /\ LetJoin(d, J) /\ ListedOnce(d) /\ Took(d) /\ d \in Dev BY DEF Ok, Filed
<1>2. /\ p \in Dev
      /\ p.live = d.live /\ p.recent = d.recent /\ p.zoned = d.zoned
      /\ p.awaiting = d.awaiting /\ p.ev = d.ev
      /\ p.confirmed = d.confirmed \cup ToPark(d)
      /\ p.parked = d.parked \cup ToPark(d)
  BY <1>1, ParkFields
<1>3. \A t \in Tid : p.finished[t] = IF t \in ToPark(d) /\ event # NoEvent /\ d.ev[t] = event
                                      THEN d.finished[t] + 1 ELSE d.finished[t]
  BY <1>1, ParkFields
<1>4. ToPark(d) \subseteq d.live \ d.parked BY DEF ToPark
<1>5. Filed(p) BY <1>1, <1>2, <1>4 DEF Filed, Present
<1>6. LetJoin(p, J) BY <1>1, <1>2 DEF LetJoin, Reportable
<1>7. ListedOnce(p) BY <1>1, <1>2, <1>3, <1>4 DEF ListedOnce
<1>8. Took(p)
  <2> SUFFICES ASSUME event # NoEvent, NEW t \in took
               PROVE  /\ t \in Tid
                      /\ p.finished[t] = 1 \/ t \in Active(p)
                      /\ t \in Present(p) => t \in p.zoned /\ p.ev[t] = event
    BY DEF Took
  <2>1. /\ t \in Tid
        /\ d.finished[t] = 1 \/ t \in Active(d)
        /\ t \in Present(d) => t \in d.zoned /\ d.ev[t] = event
    BY <1>1 DEF Took
  <2>2. t \in Present(p) => t \in p.zoned /\ p.ev[t] = event
    BY <1>2, <2>1 DEF Present
  <2>3. CASE t \in ToPark(d)
    <3>1. t \in Tid /\ t \in d.live \ d.parked BY <1>1, <1>4, <2>3 DEF Dev
    <3>2. d.finished[t] = 0 BY <1>1, <3>1 DEF ListedOnce
    <3>3. d.ev[t] = event BY <2>1, <3>1 DEF Present
    <3>4. p.finished[t] = 1 BY <1>3, <2>3, <3>1, <3>2, <3>3
    <3>5. QED BY <2>1, <2>2, <3>4
  <2>4. CASE t \notin ToPark(d)
    <3>1. CASE t \in Active(d) BY <1>2, <2>1, <2>2, <2>4, <3>1 DEF Active
    <3>2. CASE d.finished[t] = 1 BY <1>3, <2>1, <2>2, <2>4, <3>2
    <3>3. QED BY <2>1, <3>1, <3>2
  <2>5. QED BY <2>3, <2>4
<1>9. QED BY <1>5, <1>6, <1>7, <1>8 DEF Ok

LEMMA ConfirmWithParentOk ==
  ASSUME NEW d, NEW J, Ok(d, J)
  PROVE  Ok(ConfirmWithParent(d), J \cup ToConfirmWithParent(d))
PROOF
<1> DEFINE c == ConfirmWithParent(d)
<1>1. d \in Dev /\ ToConfirmWithParent(d) \subseteq d.live
  BY DEF Ok, Filed, ToConfirmWithParent
<1>2. c \in Dev BY <1>1 DEF ConfirmWithParent, Dev
<1>3. /\ c.live = d.live /\ c.recent = d.recent
      /\ c.confirmed = d.confirmed \cup ToConfirmWithParent(d)
      /\ c.zoned = d.zoned /\ c.awaiting = d.awaiting
      /\ c.parked = d.parked /\ c.ev = d.ev /\ c.finished = d.finished
  BY <1>1 DEF ConfirmWithParent, Dev
<1>4. QED
  BY <1>1, <1>2, <1>3 DEF Ok, Filed, LetJoin, Reportable, ListedOnce, Took, Active, Present

\* Stage 3c: a confirmed track is reported from its zone on, in the event or from this tick.
Held(d, Z) ==
  /\ Filed(d) /\ ListedOnce(d) /\ Took(d)
  /\ \A t \in Reportable(d) :
       IF t \in d.zoned THEN t \in Z \/ (event # NoEvent /\ d.ev[t] = event)
       ELSE t \in d.awaiting

LEMMA HoldForZonesOk ==
  ASSUME NEW d, NEW J, Ok(d, J), J \subseteq Tid
  PROVE  Held(HoldForZones(d, J), Zoned(d, J))
PROOF
<1> DEFINE h == HoldForZones(d, J)
<1>1. d \in Dev BY DEF Ok, Filed
<1>2. /\ h \in Dev
      /\ h.live = d.live /\ h.recent = d.recent /\ h.confirmed = d.confirmed
      /\ h.zoned = d.zoned /\ h.parked = d.parked /\ h.ev = d.ev
      /\ h.finished = d.finished
      /\ h.awaiting = (d.awaiting \ Entered(d)) \cup (J \ d.zoned)
  BY <1>1 DEF HoldForZones, Dev
<1>3. Filed(h) /\ ListedOnce(h) /\ Took(h)
  BY <1>2 DEF Ok, Filed, ListedOnce, Took, Active, Present
<1>4. ASSUME NEW t \in Reportable(h)
      PROVE  IF t \in h.zoned THEN t \in Zoned(d, J) \/ (event # NoEvent /\ h.ev[t] = event)
             ELSE t \in h.awaiting
  BY <1>2, <1>4 DEF Ok, LetJoin, Reportable, Zoned, Entered
<1>5. QED BY <1>3, <1>4 DEF Held

-----------------------------------------------------------------------------
(* Stage 4 restores the invariant                                          *)

\* An event that is open when stage 4 is reached has members to name.
LEMMA EventHasMembers ==
  ASSUME Inv, NEW d, Took(d), event # NoEvent
  PROVE  {t \in Tid : d.finished[t] > 0} \cup Active(d) # {}
PROOF
<1>1. PICK t \in took : t \in Tid /\ (d.finished[t] = 1 \/ t \in Active(d))
  BY DEF Inv, EventInv, Took
<1>2. QED BY <1>1

LEMMA LifecycleInv ==
  ASSUME Inv, NEW d, NEW Z, Z \subseteq Tid, Held(d, Z), Lifecycle(d, Z),
         window' \in 0..StartupWindow
  PROVE  Inv'
PROOF
<1> USE BoundsAssumption DEF NoEvent
<1>1. /\ d \in Dev /\ TypeOK /\ EventInv
      /\ Filed(d) /\ ListedOnce(d) /\ Took(d)
  BY DEF Inv, Held, Filed
<1>2. /\ d.live \subseteq Tid /\ d.confirmed \subseteq Tid /\ d.parked \subseteq Tid
      /\ d.ev \in [Tid -> Event \cup {NoEvent}] /\ d.finished \in [Tid -> 0..2]
  BY <1>1 DEF Dev
<1>3. Active(d) \subseteq Tid BY <1>2 DEF Active
<1>4. CASE OpenEvent(d, Z)
  <2> DEFINE e == Put(d.ev, Active(d), nextId)
  <2>1. /\ event = NoEvent /\ Active(d) # {} /\ nextId <= MaxEvents
        /\ event' = nextId /\ nextId' = nextId + 1 /\ age' = 0
        /\ took' = Active(d) /\ named' = {} /\ leaves' = leaves
        /\ \E first \in {"enter", "moving"} : edge' = [edge EXCEPT ![nextId] = first]
    BY <1>4 DEF OpenEvent
  <2>2. nextId \in Event /\ nextId # 0 BY <1>1, <2>1 DEF TypeOK, Event
  <2>3. e \in [Tid -> Event \cup {NoEvent}] BY <1>2, <2>2 DEF Put
  <2>4. dev' = [d EXCEPT !.ev = e] BY <1>4 DEF OpenEvent
  <2>5. /\ dev' \in Dev
        /\ dev'.live = d.live /\ dev'.recent = d.recent /\ dev'.confirmed = d.confirmed
        /\ dev'.zoned = d.zoned /\ dev'.parked = d.parked /\ dev'.awaiting = d.awaiting
        /\ dev'.finished = d.finished /\ dev'.ev = e
    <3> HIDE DEF e
    <3>1. QED BY <1>1, <2>3, <2>4 DEF Dev
  <2>6. \A t \in Active(d) : e[t] = nextId BY <1>3 DEF Put
  <2>7. TypeOK'
    BY <1>1, <1>3, <2>1, <2>2, <2>5 DEF TypeOK, Event
  <2>8. Active(dev)' = Active(d) BY <2>5 DEF Active
  <2>9. EventFollowsActive' BY <2>1, <2>2, <2>5, <2>6, <2>8 DEF EventFollowsActive
  <2>10. Waits' BY <2>5 DEF Held, Waits, Reportable
  <2>11. EventInv' BY <1>1, <2>1, <2>2 DEF EventInv, TypeOK
  <2>12. Filed(dev)' BY <1>1, <2>5 DEF Filed, Present
  <2>13. ListedOnce(dev)' BY <1>1, <2>1, <2>5 DEF ListedOnce
  <2>14. Took(dev)' BY <1>3, <2>1, <2>5, <2>6, <2>8 DEF Took, Active, Present
  <2>15. QED BY <2>7, <2>9, <2>10, <2>11, <2>12, <2>13, <2>14 DEF Inv
<1>5. CASE NoEventYet(d, Z)
  <2>1. /\ event = NoEvent /\ event' = NoEvent /\ dev' = d /\ took' = {} /\ named' = {}
        /\ UNCHANGED <<age, nextId, edge, leaves>>
    BY <1>5 DEF NoEventYet
  <2>2. Active(d) = {} BY <1>5, <2>1 DEF NoEventYet, Held, Reportable, Active
  <2>3. TypeOK' BY <1>1, <2>1 DEF TypeOK
  <2>4. EventFollowsActive' BY <2>1, <2>2 DEF EventFollowsActive
  <2>5. Waits' BY <2>1 DEF Held, Waits, Reportable
  <2>6. Filed(dev)' /\ ListedOnce(dev)' /\ Took(dev)' /\ EventInv'
    BY <1>1, <2>1 DEF Filed, Present, ListedOnce, Took, EventInv
  <2>7. QED BY <2>3, <2>4, <2>5, <2>6 DEF Inv
<1>6. CASE CloseEvent(d, Z)
  <2> DEFINE e == Put(d.ev, Z, event)
             f == Put(d.finished, Tid, 0)
             members == {t \in Tid : d.finished[t] > 0} \cup Active(d)
  <2>1. /\ event # NoEvent /\ event' = NoEvent /\ age' = 0 /\ nextId' = nextId
        /\ took' = took \cup Active(d) /\ named' = members
    BY <1>6 DEF CloseEvent
  <2>2. members # {} BY <1>1, <2>1, EventHasMembers
  <2>3. /\ edge' = [edge EXCEPT ![event] = "leave"]
        /\ leaves' = [leaves EXCEPT ![event] = @ + 1]
    BY <1>6, <2>2 DEF CloseEvent
  <2>4. e \in [Tid -> Event \cup {NoEvent}] BY <1>1, <1>2 DEF Put, TypeOK
  <2>5. f \in [Tid -> 0..2] /\ \A t \in Tid : f[t] = 0 BY DEF Put
  <2>6. dev' = [d EXCEPT !.ev = e, !.parked = d.parked \cup Active(d), !.finished = f]
    BY <1>6 DEF CloseEvent
  <2>7. /\ dev' \in Dev
        /\ dev'.live = d.live /\ dev'.recent = d.recent /\ dev'.confirmed = d.confirmed
        /\ dev'.zoned = d.zoned /\ dev'.awaiting = d.awaiting
        /\ dev'.parked = d.parked \cup Active(d)
        /\ dev'.finished = f
    <3> HIDE DEF e, f
    <3>1. QED BY <1>1, <1>3, <2>4, <2>5, <2>6 DEF Dev
  <2>8. TypeOK'
    <3>1. leaves' \in [Event -> Nat]
      <4>1. event \in Event /\ leaves \in [Event -> Nat] BY <1>1, <2>1 DEF TypeOK
      <4>2. leaves[event] + 1 \in Nat BY <4>1
      <4>3. QED BY <2>3, <4>1, <4>2
    <3>2. took \subseteq Tid /\ members \subseteq Tid BY <1>1, <1>3 DEF TypeOK
    <3>3. edge' \in [Event -> {"none", "enter", "moving", "leave"}] BY <1>1, <2>3 DEF TypeOK
    <3> HIDE DEF members
    <3>4. QED BY <1>1, <1>3, <2>1, <2>7, <3>1, <3>2, <3>3 DEF TypeOK
  <2>9. Active(dev)' = {} BY <2>7 DEF Active
  <2>10. EventFollowsActive' BY <2>1, <2>9 DEF EventFollowsActive
  <2>11. Waits' BY <2>7 DEF Held, Waits, Reportable
  <2>12. EventInv'
    <3>1. took \subseteq members BY <1>1, <2>1 DEF Took
    <3>2. QED BY <2>1, <3>1 DEF EventInv
  <2>13. Filed(dev)' BY <1>1, <2>7 DEF Filed, Present, Active
  <2>14. ListedOnce(dev)' BY <2>1, <2>5, <2>7 DEF ListedOnce
  <2>15. Took(dev)' BY <2>1 DEF Took
  <2>16. QED BY <2>8, <2>10, <2>11, <2>12, <2>13, <2>14, <2>15 DEF Inv
<1>7. CASE ContinueEvent(d, Z)
  <2> DEFINE e == Put(d.ev, Z, event)
  <2>1. /\ event # NoEvent /\ Active(d) # {} /\ age < EventMax
        /\ event' = event /\ age' = age + 1 /\ nextId' = nextId
        /\ took' = took \cup Active(d) /\ named' = named /\ leaves' = leaves
        /\ edge' \in {edge, [edge EXCEPT ![event] = "moving"]}
    BY <1>1, <1>7 DEF ContinueEvent, TimedOut, TypeOK
  <2>2. e \in [Tid -> Event \cup {NoEvent}] BY <1>1, <1>2 DEF Put, TypeOK
  <2>3. \A t \in Tid : e[t] = IF t \in Z THEN event ELSE d.ev[t] BY DEF Put
  <2>4. dev' = [d EXCEPT !.ev = e] BY <1>7 DEF ContinueEvent
  <2>5. /\ dev' \in Dev
        /\ dev'.live = d.live /\ dev'.recent = d.recent /\ dev'.confirmed = d.confirmed
        /\ dev'.zoned = d.zoned /\ dev'.parked = d.parked /\ dev'.awaiting = d.awaiting
        /\ dev'.finished = d.finished /\ dev'.ev = e
    <3> HIDE DEF e
    <3>1. QED BY <1>1, <2>2, <2>4 DEF Dev
  <2>6. \A t \in Active(d) : e[t] = event
    BY <1>3, <2>3 DEF Held, Reportable, Active
  <2>7. Active(dev)' = Active(d) BY <2>5 DEF Active
  <2>8. TypeOK' BY <1>1, <1>3, <2>1, <2>5 DEF TypeOK
  <2>9. EventFollowsActive' BY <2>1, <2>5, <2>6, <2>7 DEF EventFollowsActive
  <2>10. Waits' BY <2>5 DEF Held, Waits, Reportable
  <2>11. EventInv' BY <1>1, <2>1 DEF EventInv
  <2>12. Filed(dev)' BY <1>1, <2>5 DEF Filed, Present
  <2>13. ListedOnce(dev)' BY <1>1, <2>1, <2>5 DEF ListedOnce
  <2>14. Took(dev)'
    <3> HIDE DEF e
    <3> SUFFICES ASSUME NEW t \in took \cup Active(d)
                 PROVE  /\ t \in Tid
                        /\ d.finished[t] = 1 \/ t \in Active(d)
                        /\ t \in Present(d) => t \in d.zoned /\ e[t] = event
      BY <2>1, <2>5, <2>7 DEF Took, Present
    <3>1. CASE t \in Active(d) BY <1>3, <2>6, <3>1 DEF Active
    <3>2. CASE t \in took BY <1>1, <2>1, <2>3, <3>2 DEF Took
    <3>3. QED BY <3>1, <3>2
  <2>15. QED BY <2>8, <2>9, <2>10, <2>11, <2>12, <2>13, <2>14 DEF Inv
<1>8. QED BY <1>4, <1>5, <1>6, <1>7 DEF Lifecycle

-----------------------------------------------------------------------------
(* The whole tick                                                          *)

\* A tick is one over an observation; without a frame nothing is detected.
LEMMA TickObserves ==
  ASSUME TypeOK, NEW frame, MotionTick(frame)
  PROVE  \E o : /\ Tick(o) /\ Observation(o)
                /\ ~frame => o.hit = {} /\ o.new = {} /\ o.back = {}
                /\ o.back \subseteq dev.recent \cup dev.live
PROOF
<1>1. dev \in Dev BY DEF TypeOK
<1>2. dev.live \subseteq Tid /\ dev.recent \subseteq Tid BY <1>1 DEF Dev
<1>3. PICK hit \in SUBSET (IF frame THEN dev.live ELSE {}),
           new \in SUBSET (IF frame THEN Unseen ELSE {}),
           expired \in SUBSET dev.recent :
      \E off \in SUBSET (hit \cap dev.parked),
         ready \in SUBSET MayGetReady(new),
         moved \in SUBSET ((hit \cap Cars) \ dev.moved),
         back \in SUBSET (IF frame THEN (dev.recent \ expired) \cup (dev.live \ hit) ELSE {}) :
      \E left \in SUBSET ((hit \cap Cars) \ (dev.left \cup moved)),
         held \in SUBSET {t \in dev.live \ hit : MayBeHeld(t, off)},
         still \in SUBSET (((hit \cup back) \cap Cars) \ dev.parked),
         zone \in SUBSET ((hit \cup back \cup new \cup {f \in dev.live : ObjectType[f] = "face"})
                            \ dev.zoned) :
        Tick([hit |-> hit, new |-> new, expired |-> expired, off |-> off, ready |-> ready,
              moved |-> moved, left |-> left, held |-> held, back |-> back, still |-> still,
              zone |-> zone])
  BY Zenon DEF MotionTick
<1>4. PICK off \in SUBSET (hit \cap dev.parked),
           ready \in SUBSET MayGetReady(new),
           moved \in SUBSET ((hit \cap Cars) \ dev.moved),
           back \in SUBSET (IF frame THEN (dev.recent \ expired) \cup (dev.live \ hit) ELSE {}) :
      \E left \in SUBSET ((hit \cap Cars) \ (dev.left \cup moved)),
         held \in SUBSET {t \in dev.live \ hit : MayBeHeld(t, off)},
         still \in SUBSET (((hit \cup back) \cap Cars) \ dev.parked),
         zone \in SUBSET ((hit \cup back \cup new \cup {f \in dev.live : ObjectType[f] = "face"})
                            \ dev.zoned) :
        Tick([hit |-> hit, new |-> new, expired |-> expired, off |-> off, ready |-> ready,
              moved |-> moved, left |-> left, held |-> held, back |-> back, still |-> still,
              zone |-> zone])
  BY <1>3, Zenon
<1>5. PICK left \in SUBSET ((hit \cap Cars) \ (dev.left \cup moved)),
           held \in SUBSET {t \in dev.live \ hit : MayBeHeld(t, off)},
           still \in SUBSET (((hit \cup back) \cap Cars) \ dev.parked),
           zone \in SUBSET ((hit \cup back \cup new \cup {f \in dev.live : ObjectType[f] = "face"})
                              \ dev.zoned) :
        Tick([hit |-> hit, new |-> new, expired |-> expired, off |-> off, ready |-> ready,
              moved |-> moved, left |-> left, held |-> held, back |-> back, still |-> still,
              zone |-> zone])
  BY <1>4, Zenon
<1> DEFINE rec == [hit |-> hit, new |-> new, expired |-> expired, off |-> off, ready |-> ready,
                   moved |-> moved, left |-> left, held |-> held, back |-> back, still |-> still,
                   zone |-> zone]
<1>6. /\ hit \subseteq dev.live /\ new \subseteq Unseen /\ back \subseteq Tid
  BY <1>2, <1>3, <1>4
<1>7. /\ ready \subseteq Tid /\ moved \subseteq Tid /\ left \subseteq Tid
      /\ still \subseteq Tid /\ zone \subseteq Tid
  BY <1>2, <1>4, <1>5, <1>6 DEF Unseen, MayGetReady
<1>8. PICK o : o = rec OBVIOUS
<1>9. Tick(o) BY <1>5, <1>8
<1>10. Observation(o)
  BY <1>3, <1>4, <1>5, <1>6, <1>7, <1>8 DEF Observation
<1>11. ~frame => o.hit = {} /\ o.new = {} /\ o.back = {} BY <1>3, <1>4, <1>8
<1>12. o.back \subseteq dev.recent \cup dev.live BY <1>4, <1>8
<1>13. QED BY <1>9, <1>10, <1>11, <1>12

\* What else a tick leaves alone before stage 4: events are only forgotten, and where no parked
\* track can move and none but parked ones begin, all stay parked.
KeepsEvents(d) == \A t \in Tid : d.ev[t] \in {dev.ev[t], NoEvent}
StaysParked(d, frame) ==
  dev.live \subseteq dev.parked /\ (frame => dev = EmptyDev /\ window > 0) => d.live \subseteq d.parked

\* What a tick does, as the stages' lemmas give it: stage 4 is reached in good order.
LEMMA TickReachesLifecycle ==
  ASSUME Inv, NEW frame, MotionTick(frame)
  PROVE  /\ window' \in 0..StartupWindow
         /\ \E d, Z : /\ Z \subseteq Tid /\ Held(d, Z) /\ Lifecycle(d, Z)
                      /\ KeepsEvents(d) /\ StaysParked(d, frame)
PROOF
<1>1. TypeOK /\ dev \in Dev /\ Filed(dev) BY DEF Inv, TypeOK
<1>2. dev.live \subseteq Tid /\ dev.recent \subseteq Tid BY <1>1 DEF Dev
<1>3. PICK o : /\ Tick(o) /\ Observation(o)
               /\ ~frame => o.hit = {} /\ o.new = {} /\ o.back = {}
               /\ o.back \subseteq dev.recent \cup dev.live
  BY <1>1, TickObserves
<1>4. Observation(o) BY <1>3
<1> DEFINE d1 == Follow(o)
           d2 == Reappear(d1, o)
           d3 == Confirm(d2)
           d4 == Park(d3)
           d5 == ConfirmWithParent(d4)
           joining == o.off \cup (o.back \cap InItsEvent(d1)) \cup ToConfirm(d2)
                        \cup ToConfirmWithParent(d4)
<1>5. /\ o.back \subseteq Resumable(d1)
       /\ Lifecycle(HoldForZones(d5, joining), Zoned(d5, joining))
       /\ window' = IF Starting THEN window - 1 ELSE 0
  BY <1>3 DEF Tick
<1>6. window' \in 0..StartupWindow
  BY <1>1, <1>5, BoundsAssumption DEF TypeOK, Starting
<1>7. /\ Ok(d1, o.off)
       /\ Present(d1) \subseteq Present(dev)
       /\ \A t \in Unseen : d1.finished[t] = 0
  BY <1>4, FollowOk
<1>8. o.new \cap Present(d1) = {} /\ \A t \in o.new : d1.finished[t] = 0
  BY <1>4, <1>7 DEF Observation, Present, Unseen
<1>9. KeepsEvents(d1)
  BY <1>1, <1>4, FollowFields DEF KeepsEvents
<1>10. /\ d1.live = (dev.live \ Closed(o)) \ (Dropped(o) \cup o.expired)
      /\ d1.parked = (dev.parked \ o.off) \ (Dropped(o) \cup o.expired)
  BY <1>1, <1>4, FollowFields
<1>11. StaysParked(d1, frame)
  BY <1>3, <1>4, <1>10 DEF StaysParked, Observation, EmptyDev
<1> HIDE DEF d1
<1>12. d2.ev = d1.ev /\ KeepsEvents(d2)
  BY <1>4, <1>7, <1>9, ReappearFields DEF KeepsEvents, Ok, Filed
<1>13. StaysParked(d2, frame)
  <2>1. /\ d2.live = d1.live \cup o.back \cup o.new
        /\ d2.parked = d1.parked \cup ((o.back \ InItsEvent(d1))
                                       \cup (IF Starting THEN o.new ELSE {}))
    BY <1>4, <1>7, ReappearFields DEF Ok, Filed
  <2>2. SUFFICES ASSUME dev.live \subseteq dev.parked, frame => dev = EmptyDev /\ window > 0
                 PROVE  d2.live \subseteq d2.parked
    BY DEF StaysParked
  <2>3. d1.live \subseteq d1.parked BY <1>11, <2>2 DEF StaysParked
  <2>4. CASE frame
    <3>1. o.back = {} /\ Starting BY <1>3, <2>2, <2>4 DEF EmptyDev, Starting
    <3>2. QED BY <2>1, <2>3, <3>1
  <2>5. CASE ~frame BY <1>3, <2>1, <2>3, <2>5
  <2>6. QED BY <2>4, <2>5
<1>14. Ok(d2, o.off \cup (o.back \cap InItsEvent(d1)))
  BY <1>4, <1>5, <1>7, <1>8, ReappearOk
<1> HIDE DEF d2
<1>15. d3.ev = d2.ev /\ d3.live = d2.live /\ d3.parked = d2.parked
  BY <1>14 DEF Confirm, Ok, Filed, Dev
<1>16. Ok(d3, o.off \cup (o.back \cap InItsEvent(d1)) \cup ToConfirm(d2))
  BY <1>14, ConfirmOk
<1> HIDE DEF d3
<1>17. d4.ev = d3.ev /\ d4.live = d3.live /\ d3.parked \subseteq d4.parked
  BY <1>16, ParkFields DEF Ok, Filed
<1>18. Ok(d4, o.off \cup (o.back \cap InItsEvent(d1)) \cup ToConfirm(d2))
  BY <1>16, ParkOk
<1> HIDE DEF d4
<1>19. d5.ev = d4.ev /\ d5.live = d4.live /\ d5.parked = d4.parked
  BY <1>18 DEF ConfirmWithParent, Ok, Filed, Dev
<1>20. Ok(d5, joining) BY <1>18, ConfirmWithParentOk
<1> HIDE DEF d5
<1>21. joining \subseteq Tid
  <2>1. o.off \subseteq Tid BY <1>2, <1>4 DEF Observation
  <2>2. InItsEvent(d1) \subseteq Tid BY <1>7 DEF InItsEvent, Ok, Filed, Dev
  <2>3. ToConfirm(d2) \subseteq Tid BY <1>14 DEF ToConfirm, Ok, Filed, Dev
  <2>4. ToConfirmWithParent(d4) \subseteq Tid
    BY <1>18 DEF ToConfirmWithParent, Ok, Filed, Dev
  <2>5. QED BY <2>1, <2>2, <2>3, <2>4
<1> HIDE DEF joining
<1>22. Held(HoldForZones(d5, joining), Zoned(d5, joining))
  BY <1>20, <1>21, HoldForZonesOk
<1>23. Zoned(d5, joining) \subseteq Tid
  BY <1>20, <1>21 DEF Zoned, Entered, Ok, Filed, Dev
<1> DEFINE h == HoldForZones(d5, joining)
<1>24. h.ev = d5.ev /\ h.live = d5.live /\ h.parked = d5.parked
  BY <1>20 DEF HoldForZones, Ok, Filed, Dev
<1>25. KeepsEvents(h) BY <1>12, <1>15, <1>17, <1>19, <1>24 DEF KeepsEvents
<1>26. StaysParked(h, frame) BY <1>13, <1>15, <1>17, <1>19, <1>24 DEF StaysParked
<1>27. QED BY <1>5, <1>6, <1>22, <1>23, <1>25, <1>26

LEMMA InitInv == Init => Inv
PROOF
<1> SUFFICES ASSUME Init PROVE Inv OBVIOUS
<1> USE ToleranceAssumption, BoundsAssumption DEF NoEvent
<1>1. dev = EmptyDev /\ event = 0 BY DEF Init
<1>2. EmptyDev \in Dev BY DEF EmptyDev, Dev
<1>3. TypeOK BY <1>1, <1>2 DEF Init, TypeOK, Event
<1>4. Active(dev) = {} /\ Reportable(dev) = {} BY <1>1 DEF EmptyDev, Active, Reportable
<1>5. EventFollowsActive /\ Waits BY <1>1, <1>4 DEF EventFollowsActive, Waits
<1>6. EventInv /\ Took(dev) BY <1>1 DEF Init, EventInv, Took
<1>7. Filed(dev) BY <1>1, <1>2 DEF Filed, EmptyDev
<1>8. ListedOnce(dev) BY <1>1 DEF ListedOnce, EmptyDev
<1>9. QED BY <1>3, <1>5, <1>6, <1>7, <1>8 DEF Inv

LEMMA NextInv == Inv /\ [Next]_vars => Inv'
PROOF
<1> SUFFICES ASSUME Inv, [Next]_vars PROVE Inv' OBVIOUS
<1>1. CASE MotionTick(TRUE)
  <2>1. PICK d, Z : Z \subseteq Tid /\ Held(d, Z) /\ Lifecycle(d, Z)
    BY <1>1, TickReachesLifecycle
  <2>2. window' \in 0..StartupWindow BY <1>1, TickReachesLifecycle
  <2>3. QED BY <2>1, <2>2, LifecycleInv
<1>2. CASE StreamRestart
  <2>1. window' = StartupWindow /\ UNCHANGED <<dev, event, age, nextId, edge, leaves, took, named>>
    BY <1>2 DEF StreamRestart
  <2>2. TypeOK' BY <2>1, BoundsAssumption DEF Inv, TypeOK
  <2>3. QED
    BY <2>1, <2>2 DEF Inv, EventFollowsActive, Waits, EventInv, Filed, Present, Reportable,
                      ListedOnce, Took, Active
<1>3. CASE UNCHANGED vars
  BY <1>3 DEF vars, Inv, TypeOK, EventFollowsActive, Waits, EventInv, Filed, Present, Reportable,
              ListedOnce, Took, Active
<1>4. QED BY <1>1, <1>2, <1>3 DEF Next

-----------------------------------------------------------------------------
(* Theorems                                                                *)

LEMMA InvFacts == Inv => TypeOK /\ EventFollowsActive /\ LeavesNameEach
PROOF
<1>1. Inv => TypeOK /\ EventFollowsActive BY DEF Inv
<1>2. Inv => MembersOnce
  BY DEF Inv, ListedOnce, MembersOnce, Active
<1>3. Inv => EveryParticipantIsNamed
  BY DEF Inv, EventInv, Took, EveryParticipantIsNamed
<1>4. QED BY <1>1, <1>2, <1>3 DEF LeavesNameEach

\* The invariant holds, for any objects, tolerances, windows and limits; also where the ticks may
\* stop.
THEOREM StepsKeepInv == Init /\ [][Next]_vars => []Inv
PROOF BY InitInv, NextInv, PTL

LEMMA Invariance == Spec => []Inv
PROOF BY StepsKeepInv, PTL DEF Spec

\* Every variable of the motion tick has its type.
THEOREM TypeCorrect == Spec => []TypeOK
PROOF BY Invariance, InvFacts, PTL

\* Between ticks an event is open exactly while a track takes part in it.
THEOREM EventsFollowObjects == Spec => []EventFollowsActive
PROOF BY Invariance, InvFacts, PTL

\* A leave names every track that took part, each once.
THEOREM LeavesAreComplete == Spec => []LeavesNameEach
PROOF BY Invariance, InvFacts, PTL

-----------------------------------------------------------------------------
(* Refinement: the messages of the ticks follow EventProtocol              *)

\* The events up to now are left, but for the open one.
EdgesInv ==
  \A e \in Event : edge[e] \in IF e >= nextId THEN {"none"}
                              ELSE IF e = event THEN {"enter", "moving"} ELSE {"leave"}

LEMMA LifecycleFollowsProtocol ==
  ASSUME Inv, EdgesInv, NEW d, NEW Z, Held(d, Z), Lifecycle(d, Z)
  PROVE  EdgesInv' /\ (Protocol!Next \/ UNCHANGED <<edge, leaves>>)
PROOF
<1> USE BoundsAssumption DEF NoEvent
<1>1. /\ TypeOK /\ EventInv /\ Took(d) BY DEF Inv, Held
<1>2. /\ edge \in [Event -> {"none", "enter", "moving", "leave"}]
      /\ leaves \in [Event -> Nat] /\ nextId \in Nat /\ Event \subseteq Nat
  BY <1>1 DEF TypeOK, Event
<1>3. CASE OpenEvent(d, Z)
  <2>1. /\ event = NoEvent /\ nextId <= MaxEvents
        /\ event' = nextId /\ nextId' = nextId + 1 /\ leaves' = leaves
    BY <1>3 DEF OpenEvent
  <2>2. PICK first \in {"enter", "moving"} : edge' = [edge EXCEPT ![nextId] = first]
    BY <1>3 DEF OpenEvent
  <2>3. nextId \in Event BY <1>1, <2>1 DEF TypeOK, Event
  <2>4. EdgesInv' BY <1>2, <2>1, <2>2, <2>3 DEF EdgesInv, Event
  <2>5. Protocol!Open = {} /\ edge[nextId] = "none"
    BY <1>2, <2>1, <2>3 DEF EdgesInv, Protocol!Open, Event
  <2>6. Protocol!Enter(nextId) BY <2>1, <2>2, <2>5 DEF Protocol!Enter
  <2>7. QED BY <2>3, <2>4, <2>6 DEF Protocol!Next
<1>4. CASE NoEventYet(d, Z)
  BY <1>4 DEF NoEventYet, EdgesInv
<1>5. CASE CloseEvent(d, Z)
  <2>1. /\ event # NoEvent /\ event' = NoEvent /\ nextId' = nextId
    BY <1>5 DEF CloseEvent
  <2>2. {t \in Tid : d.finished[t] > 0} \cup Active(d) # {} BY <1>1, <2>1, EventHasMembers
  <2>3. /\ edge' = [edge EXCEPT ![event] = "leave"]
        /\ leaves' = [leaves EXCEPT ![event] = @ + 1]
    BY <1>5, <2>2 DEF CloseEvent
  <2>4. event \in Event /\ event < nextId BY <1>1, <2>1 DEF TypeOK, EventInv
  <2>5. EdgesInv' BY <1>2, <2>1, <2>3, <2>4 DEF EdgesInv, Event
  <2>6. event \in Protocol!Open BY <1>2, <2>4 DEF EdgesInv, Protocol!Open
  <2>7. Protocol!Leave(event) BY <2>3, <2>6 DEF Protocol!Leave
  <2>8. QED BY <2>4, <2>5, <2>7 DEF Protocol!Next
<1>6. CASE ContinueEvent(d, Z)
  <2>1. /\ event # NoEvent /\ event' = event /\ nextId' = nextId /\ leaves' = leaves
        /\ edge' \in {edge, [edge EXCEPT ![event] = "moving"]}
    BY <1>6 DEF ContinueEvent
  <2>2. event \in Event /\ event < nextId BY <1>1, <2>1 DEF TypeOK, EventInv
  <2>3. EdgesInv' BY <1>2, <2>1, <2>2 DEF EdgesInv
  <2>4. event \in Protocol!Open BY <1>2, <2>2 DEF EdgesInv, Protocol!Open
  <2>5. Protocol!Moving(event) \/ UNCHANGED <<edge, leaves>>
    BY <2>1, <2>4 DEF Protocol!Moving
  <2>6. QED BY <2>2, <2>3, <2>5 DEF Protocol!Next
<1>7. QED BY <1>3, <1>4, <1>5, <1>6 DEF Lifecycle

\* The messages of the motion ticks are a behaviour of EventProtocol, its liveness aside:
\* initial states map to initial states, and each tick to a step of it or to none.
THEOREM FollowsProtocol == Spec => Protocol!Init /\ [][Protocol!Next]_(Protocol!vars)
PROOF
<1>1. Init => EdgesInv BY DEF Init, EdgesInv, NoEvent, Event
<1>2. Inv /\ EdgesInv /\ [Next]_vars => EdgesInv' /\ [Protocol!Next]_(Protocol!vars)
  <2> SUFFICES ASSUME Inv, EdgesInv, [Next]_vars
               PROVE  EdgesInv' /\ [Protocol!Next]_(Protocol!vars)
    OBVIOUS
  <2>1. CASE MotionTick(TRUE)
    <3>1. PICK d, Z : Z \subseteq Tid /\ Held(d, Z) /\ Lifecycle(d, Z)
      BY <2>1, TickReachesLifecycle
    <3>2. EdgesInv' /\ (Protocol!Next \/ UNCHANGED <<edge, leaves>>)
      BY <3>1, LifecycleFollowsProtocol
    <3>3. QED BY <3>2 DEF Protocol!vars
  <2>2. CASE StreamRestart
    BY <2>2 DEF StreamRestart, EdgesInv, Protocol!vars
  <2>3. CASE UNCHANGED vars
    BY <2>3 DEF vars, EdgesInv, Protocol!vars
  <2>4. QED BY <2>1, <2>2, <2>3 DEF Next
<1>3. Init => Protocol!Init BY DEF Init, Protocol!Init
<1>4. QED BY <1>1, <1>2, <1>3, Invariance, PTL DEF Spec
=============================================================================

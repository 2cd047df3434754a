------------------------------- MODULE Parking -------------------------------
(***************************************************************************)
(* Whether a parked vehicle really moved (avclient.py, stationary.py).     *)
(* Its boxes jitter; when they suggest that it left its spot, the picture  *)
(* of the spot is compared with one taken before, the anchor, and only a   *)
(* spot that looks different lets the vehicle take part in events again.   *)
(*                                                                         *)
(* One track, of a vehicle, confirmed.  A box counts by how it lies to the *)
(* spot, a comparison by what the code tells apart of its two numbers.     *)
(***************************************************************************)
EXTENDS Integers, Sequences, SequencesExt

CONSTANTS
  StillTicks,  \* STILL_TICKS
  ResumeTicks, \* STATIONARY_RESUME_TICKS
  Sights       \* bound of the model: what comparisons may find

ASSUME ParkingAssumption == {StillTicks, ResumeTicks} \subseteq Nat \ {0}

\* A comparison: how well the pictures agree (0.90 and up, 0.85 and up, below), and by how much
\* they are shifted, in hundredths of the crop.
Same == [ncc |-> "high", shift |-> 0]
ASSUME SightsAssumption == Same \in Sights /\ Sights \subseteq [ncc : {"high", "middle", "low"}, shift : Nat]

\* Boxes, as they lie to the spot: on it, of its size but off its center (overlapping it by 0.7
\* or more, or by 0.3), over a part of it, or away; "seeded" is the spot itself, not detected.
Box == {"on", "near", "beside", "part", "away", "seeded"}
OnTheSpot(box) == box \in {"on", "near"}
Shifted(box) == box \in {"near", "beside"}

VARIABLES
  vehicle,    \* the track: "here", "recent" when it was closed
  parked,     \* it has a stationary_coord
  stillTicks, \* still_ticks of a track that is not parked
  movedTicks, \* moved_ticks of one that is
  pixel,      \* pixel_anchor, NoAnchor without one: its "changed", the comparisons its "shifts"
              \* are of, and whether it is older than PARKED_RECHECK_S
  former,     \* history: the anchor is of a spot the track had before
  unchanged,  \* history: the spot looks as it did when the vehicle parked, and did all the time
  rejoined    \* history: how the track came to rejoin, in the step that did

parkingVars == <<vehicle, parked, stillTicks, movedTicks, pixel, former, unchanged, rejoined>>

NoAnchor == [changed |-> -1, looks |-> <<>>, old |-> FALSE]
NewAnchor == [changed |-> 0, looks |-> <<>>, old |-> FALSE]
NotYet == [how |-> "", looks |-> <<>>, unchanged |-> FALSE, former |-> FALSE]

ParkingInit ==
  /\ vehicle = "here" /\ parked = FALSE
  /\ stillTicks = 0 /\ movedTicks = 0 /\ pixel = NoAnchor
  /\ former = FALSE /\ unchanged = FALSE /\ rejoined = NotYet

-----------------------------------------------------------------------------
(* The comparison (still_there)                                            *)

LastFive(looks) == IF Len(looks) > 5 THEN Tail(looks) ELSE looks
Drift(looks) == FoldLeft(LAMBDA n, k : n + k.shift, 0, looks)

Keeps(look) == look.ncc = "high" /\ look.shift < 2
LooksChanged(look, drift) == look.ncc = "low" \/ look.shift >= 4 \/ drift >= 12

\* Mistake: a look that only wavers does not end a row of changed ones.
AfterLookWavering(px, look) ==
  LET looks == LastFive(Append(px.looks, look))
      drift == Drift(looks)
  IN IF Keeps(look) THEN [px EXCEPT !.looks = looks, !.changed = 0]
     ELSE IF LooksChanged(look, drift) THEN [px EXCEPT !.looks = looks, !.changed = @ + 1]
     ELSE [px EXCEPT !.looks = looks]

\* The anchor's record after a look.
AfterLook(px, look) ==
  LET looks == LastFive(Append(px.looks, look)) IN
  [px EXCEPT !.looks = looks,
             !.changed = IF ~Keeps(look) /\ LooksChanged(look, Drift(looks)) THEN @ + 1 ELSE 0]

\* Two changed looks in a row, or a large drift, unless the last look is as it was.
StillThere(px) == px.changed = 0 \/ ~(px.changed >= 2 \/ Drift(px.looks) >= 12)

-----------------------------------------------------------------------------
(* The tick                                                                *)

\* Step 5: a parked track without an anchor gets one, if there is a frame.
Anchored(px, frame) == IF px = NoAnchor /\ frame THEN NewAnchor ELSE px

\* A track parks where it is; an anchor it may still have is kept, of whatever spot.
Parks(frame) ==
  /\ parked' = TRUE /\ movedTicks' = 0 /\ stillTicks' = 0
  /\ pixel' = Anchored(pixel, frame)
  /\ former' = (pixel # NoAnchor)
  /\ unchanged' = TRUE

Rejoin(how, looks) ==
  /\ parked' = FALSE /\ movedTicks' = 0 /\ stillTicks' = 0
  /\ pixel' = NoAnchor /\ former' = FALSE /\ unchanged' = FALSE
  /\ rejoined' = [how |-> how, looks |-> looks, unchanged |-> unchanged, former |-> former]

\* Detected on its spot some time after the anchor was taken, it is to get a new one.
AnchorNow(box) == IF OnTheSpot(box) /\ pixel.old THEN NoAnchor ELSE pixel

MovedTicks(box) == IF box = "away" THEN movedTicks ELSE IF Shifted(box) THEN movedTicks + 1 ELSE 0

MovedSince(box) == box = "away" \/ MovedTicks(box) >= ResumeTicks

\* A parked track is matched to a box.
Matched(box, frame) ==
  /\ vehicle = "here" /\ parked
  /\ LET px == AnchorNow(box) IN
     IF ~MovedSince(box)
     THEN /\ movedTicks' = MovedTicks(box) /\ pixel' = Anchored(px, frame)
          /\ former' = (former /\ px # NoAnchor)
          /\ rejoined' = NotYet
          /\ UNCHANGED <<parked, stillTicks, unchanged>>
     ELSE IF px = NoAnchor THEN Rejoin(IF pixel = NoAnchor THEN "no anchor" ELSE "dropped", <<>>)
     ELSE IF ~frame THEN Rejoin("no frame", <<>>)
     ELSE \E look \in IF unchanged /\ ~former THEN {Same} ELSE Sights :
            LET after == AfterLook(px, look) IN
            IF StillThere(after)
            THEN /\ movedTicks' = 0 /\ pixel' = after /\ rejoined' = NotYet
                 /\ UNCHANGED <<parked, stillTicks, former, unchanged>>
            ELSE Rejoin("compared", after.looks)
  /\ UNCHANGED vehicle

\* One that is not parked is, once it has stayed with one box for long enough; or its
\* event's time is over, or the stream's first seconds are not.
Still(frame) ==
  /\ vehicle = "here" /\ ~parked
  /\ \/ stillTicks' \in {0, stillTicks + 1} /\ stillTicks' < StillTicks
        /\ UNCHANGED <<parked, movedTicks, pixel, former, unchanged>>
     \/ stillTicks + 1 >= StillTicks /\ Parks(frame)
  /\ rejoined' = NotYet
  /\ UNCHANGED vehicle

TimesOut(frame) == /\ vehicle = "here" /\ ~parked
                   /\ Parks(frame) /\ rejoined' = NotYet
                   /\ UNCHANGED vehicle

\* A parked track is missed for too long; seen again near its place it is parked there.
ClosesParked == /\ vehicle = "here" /\ parked /\ vehicle' = "recent"
          /\ UNCHANGED <<parked, stillTicks, movedTicks, pixel, former, unchanged, rejoined>>

Resumes(frame) == /\ vehicle = "recent" /\ vehicle' = "here"
                  /\ Parks(frame) /\ rejoined' = NotYet

\* Not resumed in time, or discarded with the stream: another vehicle is another track.
Replaced ==
  /\ vehicle' = "here" /\ parked' = FALSE
  /\ stillTicks' = 0 /\ movedTicks' = 0 /\ pixel' = NoAnchor
  /\ former' = FALSE /\ unchanged' = FALSE /\ rejoined' = NotYet

\* The spot comes to look different; time passes.
SpotChanges == /\ unchanged /\ unchanged' = FALSE
               /\ UNCHANGED <<vehicle, parked, stillTicks, movedTicks, pixel, former, rejoined>>

AnchorAges == /\ pixel # NoAnchor /\ ~pixel.old /\ pixel' = [pixel EXCEPT !.old = TRUE]
              /\ UNCHANGED <<vehicle, parked, stillTicks, movedTicks, former, unchanged, rejoined>>

ParkingNext ==
  \/ \E frame \in BOOLEAN : \/ Still(frame) \/ TimesOut(frame) \/ Resumes(frame)
                            \/ \E box \in Box : Matched(box, frame)
  \/ ClosesParked \/ Replaced \/ SpotChanges \/ AnchorAges

ParkingSpec == ParkingInit /\ [][ParkingNext]_parkingVars

-----------------------------------------------------------------------------
(* Properties                                                              *)

ParkingTypeOK ==
  /\ vehicle \in {"here", "recent"} /\ {parked, former, unchanged} \subseteq BOOLEAN
  /\ stillTicks \in 0..(StillTicks - 1) /\ movedTicks \in 0..(ResumeTicks - 1)
  /\ pixel.changed \in -1..1 /\ Len(pixel.looks) <= 5
  /\ pixel = NoAnchor <=> pixel.changed = -1

\* "Did a parked object really move? Compare its spot's pixels, not its boxes" (stationary.py): a
\* vehicle that rejoins after a comparison was really seen at another place: its spot no longer
\* looks the same, and the last two looks both found it changed, or the last five add up to a
\* drift.  Without a comparison it rejoins only when there was nothing to compare.
Different(look) == look.ncc = "low" \/ look.shift >= 4
RejoinsOnEvidence ==
  IF rejoined.how = "compared"
  THEN LET looks == rejoined.looks n == Len(looks) IN
       /\ ~rejoined.unchanged \/ rejoined.former
       /\ ~Keeps(looks[n])
       /\ \/ Drift(looks) >= 12
          \/ n > 1 /\ Different(looks[n]) /\ Different(looks[n - 1])
  ELSE rejoined.how \in {"", "no anchor", "no frame", "dropped"}

\* "Its boxes moved but its pixels didn't (jitter, a partial box, someone walking past): it stays
\* where it parked" (avclient.py:2811): a vehicle whose spot always looked the same and that
\* had an anchor does not rejoin while there are frames.
SameSpotStays == rejoined.unchanged => rejoined.how \in {"", "no anchor", "no frame", "compared"}
=============================================================================

------------------------------- MODULE Matching -------------------------------
(***************************************************************************)
(* Which detection belongs to which track (avclient.py, norfair_match.py). *)
(* Norfair, a library, associates detections with objects of its own; the  *)
(* camera keeps which track each object is (norfair_ids).  A match keeps   *)
(* to that binding where it may, then parked tracks take what overlaps     *)
(* their spot, and moving tracks what is near where they are headed.       *)
(* Without Norfair the built-in matcher goes by overlap and nearness only. *)
(*                                                                         *)
(* Boxes have one dimension: <<left, width>>.  What Norfair associates and *)
(* how near a box is to a track's predicted place are left open; that a    *)
(* track's reference size is the median of its last boxes becomes: a width *)
(* it has had.                                                             *)
(***************************************************************************)
EXTENDS Integers, Sequences, SequencesExt, Functions

CONSTANTS
  Scenes,      \* bound of the model: sets of what may be detected in a behaviour, [type, box]
  NorfairType, \* Norfair's objects and their types (a tracker per type, ids of all trackers apart)
  MaxTracks,   \* bound of the model: tracks of the camera
  MaxSeen      \* bound of the model: detections of a frame

ASSUME MatchingAssumption ==
  /\ \A k \in UNION Scenes : k.box \in Int \X (Nat \ {0})
  /\ 0 \notin DOMAIN NorfairType /\ MaxTracks \in Nat /\ MaxSeen \in Nat

TrackId == 1..MaxTracks
Object == DOMAIN NorfairType

VARIABLES
  tracker,    \* TRACKER: "norfair" or "builtin"
  scene,      \* what may be detected
  tracks,     \* the tracks: those "here" are tracked, the "recent" ones closed
  norfairIds, \* norfair_ids: the track of each object, 0 without one
  detections, \* the frame's detections, between its match and the update of its tracks
  associated, \* the object each was associated with, 0 for none
  matches,    \* which track got which
  onOffer     \* pending_ids: the objects of unclaimed detections

matchVars == <<tracker, scene, tracks, norfairIds, detections, associated, matches, onOffer>>

NoMatch == [t \in {} |-> 0]
\* The spot of a parked track, where it was when it was parked; its last box may differ.
NoSpot == <<0, 0>>
NoTrack == [at |-> "no", type |-> "", box |-> <<0, 1>>, size |-> 1, spot |-> NoSpot]

MatchInit ==
  /\ tracker \in {"norfair", "builtin"} /\ scene \in Scenes
  /\ tracks = [t \in TrackId |-> NoTrack]
  /\ norfairIds = [g \in Object |-> 0]
  /\ detections = <<>> /\ associated = <<>> /\ matches = NoMatch /\ onOffer = NoMatch

Here == {t \in TrackId : tracks[t].at = "here"}
Parked == {t \in Here : tracks[t].spot # NoSpot}
Moving == Here \ Parked

-----------------------------------------------------------------------------
(* Boxes                                                                   *)

Least(a, b) == IF a < b THEN a ELSE b
Most(a, b) == IF a > b THEN a ELSE b

Shared(a, b) == Most(0, Least(a[1] + a[2], b[1] + b[2]) - Most(a[1], b[1]))

\* IoU as a fraction, compared in tenths.
Union(a, b) == a[2] + b[2] - Shared(a, b)
IoUAtLeast(a, b, tenths) == 10 * Shared(a, b) >= tenths * Union(a, b)
CloserThan(a, b, spot) == Shared(a, spot) * Union(b, spot) > Shared(b, spot) * Union(a, spot)

OnSpot(spot, box) == IoUAtLeast(spot, box, 3)

\* Another size, unless the smaller box lies inside the larger (NN_SIZE_RATIO_MAX, SIZE_JUMP_INSIDE).
SizeJump(a, b) ==
  /\ 10 * Shared(a, b) < 8 * Least(a[2], b[2])
  /\ Most(a[2], b[2]) > 2 * Least(a[2], b[2])

\* The last box, resized to the reference size.
SizeRef(t) == LET b == tracks[t].box IN <<b[1] + (b[2] - tracks[t].size) \div 2, tracks[t].size>>

-----------------------------------------------------------------------------
(* The match                                                               *)

\* A frame's detections, after _dedupe_detections: no two of a type overlap much.  A parked
\* track's spot may be repeated as its detection (seeded).
Looks ==
  LET fresh == {[type |-> k.type, box |-> k.box, seeded |-> 0] : k \in scene}
      repeated == {[type |-> tracks[t].type, box |-> tracks[t].spot, seeded |-> t] : t \in Parked}
      Apart(f) == \A i, j \in DOMAIN f :
                    i # j /\ f[i].type = f[j].type => ~IoUAtLeast(f[i].box, f[j].box, 4)
  IN {f \in UNION {[1..n -> fresh \cup repeated] : n \in 0..MaxSeen} : Apart(f)}

\* Norfair gives a detection an object of its type, and no two the same.
Associations(dets) ==
  {a \in [DOMAIN dets -> Object \cup {0}] :
     \A i \in DOMAIN a : a[i] # 0 => /\ NorfairType[a[i]] = dets[i].type
                                     /\ \A j \in DOMAIN a : a[j] = a[i] => i = j}

Give(m, t, i) == [s \in DOMAIN m \cup {t} |-> IF s = t THEN i ELSE m[s]]

\* A parked object's repeated box is its own, and so is the object Norfair saw in it.
Seeded(dets) ==
  [t \in {dets[i].seeded : i \in DOMAIN dets} \ {0} |-> CHOOSE i \in DOMAIN dets : dets[i].seeded = t]

\* Mistake: a parked track goes where its object goes.
RefusesSizeOnly(t, box) == t \notin Parked /\ SizeJump(SizeRef(t), box)

\* Mistake: a moving track is held to its last box as a parked one is to its spot.
RefusesAway(t, box) ==
  \/ ~OnSpot(tracks[t].box, box)
  \/ t \notin Parked /\ SizeJump(SizeRef(t), box)

\* The track an object is bound to does not take its box: it is parked elsewhere, or the box is
\* of another size.
Refuses(t, box) ==
  IF t \in Parked THEN ~OnSpot(tracks[t].spot, box) ELSE SizeJump(SizeRef(t), box)

\* The functions that take one of sets[t] at each t.
OneOfEach(sets) == {f \in [DOMAIN sets -> UNION Range(sets)] : \A t \in DOMAIN sets : f[t] \in sets[t]}

\* What Norfair's objects bring, in whichever order they are gone through: a track bound to them
\* takes the box of one it does not refuse, and lets go of those that it refused before.
Followed(dets, assoc, first, ids) ==
  LET due == {i \in DOMAIN dets \ Range(first) : assoc[i] # 0 /\ ids[assoc[i]] \in Here \ DOMAIN first}
      Bound(t) == {i \in due : ids[assoc[i]] = t}
      refused == {i \in due : Refuses(ids[assoc[i]], dets[i].box)}
      taking == {ids[assoc[i]] : i \in due \ refused}
  IN {[m |-> [t \in DOMAIN first \cup taking |-> IF t \in taking THEN took[t] ELSE first[t]],
       ids |-> [g \in Object |-> IF \E i \in letGo : assoc[i] = g THEN 0 ELSE ids[g]]] :
        took \in OneOfEach([t \in taking |-> Bound(t) \ refused]),
        letGo \in {L \in SUBSET refused : \A t \in Here \ taking : refused \cap Bound(t) \subseteq L}}

\* Where a track that goes by overlap is looked for: Norfair's match takes a parked track by its
\* spot, the built-in one takes any track by its last box.
Where(t) == IF tracker = "norfair" THEN tracks[t].spot ELSE tracks[t].box

\* What the tracks left take of the detections left: each at most one, of its type; a track that
\* goes by overlap never leaves a box that overlaps more, a moving one takes one that is near
\* and of its size, if any.
Fits(t, d, byOverlap) ==
  /\ tracks[t].type = d.type
  /\ \/ t \in byOverlap /\ OnSpot(Where(t), d.box)
     \/ t \in Moving /\ ~SizeJump(SizeRef(t), d.box)

Rests(dets, m, byOverlap) ==
  LET free == DOMAIN dets \ Range(m)
      left == Here \ DOMAIN m
      Leaves(r, t) == {i \in free \ Range(r) : tracks[t].type = dets[i].type
                                               /\ OnSpot(Where(t), dets[i].box)}
  IN {r \in UNION {[T -> free] : T \in SUBSET left} :
        /\ \A t, u \in DOMAIN r : r[t] = r[u] => t = u
        /\ \A t \in DOMAIN r : Fits(t, dets[r[t]], byOverlap)
        /\ \A t \in byOverlap \cap left : \A i \in Leaves(r, t) :
             /\ t \in DOMAIN r
             /\ OnSpot(Where(t), dets[r[t]].box)
             /\ ~CloserThan(dets[i].box, dets[r[t]].box, Where(t))}

\* Bindings after a match: an object is the track that got its detection other than through it.
Rebound(ids, m, assoc) ==
  [g \in Object |-> IF \E t \in DOMAIN m : assoc[m[t]] = g
                    THEN CHOOSE t \in DOMAIN m : assoc[m[t]] = g ELSE ids[g]]

\* Bindings to tracks that closed are let go first.
NorfairMatch(dets) ==
  LET live == [g \in Object |-> IF norfairIds[g] \in Here THEN norfairIds[g] ELSE 0]
  IN \E assoc \in Associations(dets) :
       LET first == Seeded(dets)
       IN \E s \in Followed(dets, assoc, first, Rebound(live, first, assoc)) :
          \E r \in Rests(dets, s.m, Parked) :
            LET m == [t \in DOMAIN s.m \cup DOMAIN r |-> IF t \in DOMAIN r THEN r[t] ELSE s.m[t]]
            IN /\ matches' = m /\ associated' = assoc
               /\ norfairIds' = Rebound(s.ids, r, assoc)
               /\ onOffer' = [i \in {j \in DOMAIN dets \ Range(m) : assoc[j] # 0} |-> assoc[i]]

BuiltinMatch(dets) ==
  /\ \E r \in Rests(dets, NoMatch, Here) : matches' = r
  /\ associated' = [i \in DOMAIN dets |-> 0] /\ onOffer' = NoMatch
  /\ UNCHANGED norfairIds

Match ==
  /\ detections = <<>>
  /\ \E dets \in Looks :
       /\ dets # <<>> /\ detections' = dets
       /\ IF tracker = "norfair" THEN NorfairMatch(dets) ELSE BuiltinMatch(dets)
  /\ UNCHANGED <<tracker, scene, tracks>>

-----------------------------------------------------------------------------
(* The tick goes on                                                        *)

\* A matched track follows its box, which may be where it comes to be parked.  A parked one may
\* be found to have left its spot: it moves again, or, if its spot looks the same, its box goes
\* back to its spot.
Follows(t, d) ==
  LET tr == tracks[t]
      sizes == {tr.size, d.box[2]}
      at == {[tr EXCEPT !.box = d.box, !.size = n] : n \in sizes}
  IN IF tr.spot = NoSpot THEN at \cup {[f EXCEPT !.spot = d.box] : f \in at}
     ELSE IF d.box = tr.spot THEN at
     ELSE {[f EXCEPT !.spot = NoSpot] : f \in at} \cup {[f EXCEPT !.box = tr.spot] : f \in at}
            \cup (IF OnSpot(tr.spot, d.box) THEN at ELSE {})

\* Its event may time out meanwhile: a track still there is then parked.
Missed(t) ==
  LET tr == tracks[t]
  IN {tr, [tr EXCEPT !.at = "recent"], [tr EXCEPT !.spot = IF @ = NoSpot THEN tr.box ELSE @]}

\* An unclaimed detection is part of a parked object, continues a track that closed not long ago,
\* if it was there before, or is a new track, the next one; either may be parked at once.
InsideParked(trs, d) ==
  \E t \in TrackId : /\ trs[t].at = "here" /\ trs[t].spot # NoSpot /\ trs[t].type = d.type
                 /\ 10 * Shared(trs[t].spot, d.box) >= 7 * d.box[2]

MayResume(trs, d) == {t \in TrackId : trs[t].at = "recent" /\ trs[t].type = d.type}

NextTrack(trs) == {t \in TrackId : trs[t].at = "no" /\ \A u \in TrackId : u < t => trs[u].at # "no"}

Opens(s, i) ==
  LET d == detections[i]
      Bound(t) == IF i \in DOMAIN onOffer THEN [s.ids EXCEPT ![onOffer[i]] = t] ELSE s.ids
      opened == {[trs |-> [s.trs EXCEPT ![t] = [at |-> "here", type |-> d.type, box |-> d.box,
                                                size |-> d.box[2], spot |-> spot]],
                  ids |-> Bound(t)]
                   : t \in MayResume(s.trs, d) \cup NextTrack(s.trs), spot \in {NoSpot, d.box}}
  IN IF InsideParked(s.trs, d) \/ opened = {} THEN {s} ELSE opened

\* The unclaimed ones, in order.
Opened(trs, unclaimed) ==
  LET opened[i \in 0..Len(detections)] ==
        IF i = 0 THEN {[trs |-> trs, ids |-> norfairIds]}
        ELSE IF i \notin unclaimed THEN opened[i - 1]
        ELSE UNION {Opens(s, i) : s \in opened[i - 1]}
  IN opened[Len(detections)]

\* cut: the detections still cut off by their crop after the second look (at most one).
Update ==
  /\ detections # <<>>
  /\ \E cut \in {{}} \cup {{i} : i \in {j \in DOMAIN detections : detections[j].seeded = 0}} :
       LET kept == {t \in DOMAIN matches : t \in Parked \/ matches[t] \notin cut}
           After(t) == IF t \in kept THEN Follows(t, detections[matches[t]])
                       ELSE IF t \in Here THEN Missed(t) ELSE {tracks[t]}
           unclaimed == (DOMAIN detections \ Range(matches)) \ cut
       IN \E trs \in OneOfEach([t \in TrackId |-> After(t)]) :
            \E s \in Opened(trs, unclaimed) : tracks' = s.trs /\ norfairIds' = s.ids
  /\ detections' = <<>> /\ associated' = <<>> /\ matches' = NoMatch /\ onOffer' = NoMatch
  /\ UNCHANGED <<tracker, scene>>

MatchNext == Match \/ Update

MatchSpec == MatchInit /\ [][MatchNext]_matchVars

-----------------------------------------------------------------------------
(* Properties                                                              *)

MatchTypeOK ==
  /\ DOMAIN matches \subseteq Here /\ Range(matches) \subseteq DOMAIN detections
  /\ \A g \in Object : norfairIds[g] \in TrackId \cup {0}
  /\ \A t \in TrackId : (tracks[t].at = "no") => (tracks[t] = NoTrack)

\* No two tracks have one detection, and a detection is either some track's or on offer as a new
\* one; it is of the track's type.
OneToOne ==
  /\ \A t, u \in DOMAIN matches : matches[t] = matches[u] => t = u
  /\ DOMAIN onOffer \cap Range(matches) = {}
  /\ \A t \in DOMAIN matches : detections[matches[t]].type = tracks[t].type

\* A parked track takes its own repeated box or one that overlaps its spot (with the built-in
\* matcher: its last box): a passing car does not take over a parked one, whichever way it came
\* to be considered.
ParkedTakesItsSpot ==
  \A t \in DOMAIN matches \cap Parked :
    \/ detections[matches[t]].seeded = t
    \/ OnSpot(Where(t), detections[matches[t]].box)

MatchesAreSound == OneToOne /\ ParkedTakesItsSpot

\* A moving track that Norfair alone follows keeps its object: if the one object bound to it is
\* seen again in a box that is not of another size, that detection is the track's, whatever else
\* is near.
FollowedKeepsTrack ==
  [][\A t \in Moving, g \in Object :
       (detections = <<>> /\ detections' # <<>> /\ tracker = "norfair"
          /\ {h \in Object : norfairIds[h] = t} = {g}) =>
         \A i \in DOMAIN detections' :
           (associated'[i] = g /\ detections'[i].seeded = 0
              /\ ~SizeJump(SizeRef(t), detections'[i].box)) =>
             (t \in DOMAIN matches' /\ matches'[t] = i)]_matchVars
=============================================================================

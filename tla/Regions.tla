------------------------------- MODULE Regions -------------------------------
(***************************************************************************)
(* Where the detector looks (regions.py and _detect_regions in             *)
(* avclient.py).  A pass crops square regions around motion and tracked    *)
(* objects, or, in the first seconds of a stream, all over the frame; a    *)
(* box cut off by its crop is looked at again on a larger one, and what    *)
(* overlapping regions found is merged.  A parked object is not looked at  *)
(* in every pass: its spot is repeated ("seeded"), and the second look of  *)
(* a cut-off box is reused for a while.                                    *)
(*                                                                         *)
(* The frame is scaled down and all objects are cars; the detector finds   *)
(* what part of an object a region shows.  Ages are in steps of half of    *)
(* PARKED_RECHECK_S, which is also REDO_REUSE_S.                           *)
(***************************************************************************)
EXTENDS Integers, Sequences, FiniteSetsExt, SequencesExt

CONSTANTS
  Width, Height, MinRegion, CutEdge, \* the frame, MIN_REGION, and how near an edge cuts a box off
  RedoMax,  \* CLIPPED_REDETECT_MAX
  Recheck,  \* PARKED_RECHECK_S and REDO_REUSE_S, in steps
  Scene     \* bound of the model: the sets of boxes the objects of a stream may stand in

ASSUME RegionsAssumption ==
  /\ {Width, Height, MinRegion, Recheck} \subseteq Nat \ {0} /\ {CutEdge, RedoMax} \subseteq Nat

VARIABLES
  objects,    \* the boxes of the objects in view; they stand still
  status,     \* what the tracker has of each: "new", "moving" or "parked"
  checked,    \* age of _last_parked_check
  scan,       \* _startup_scan: whether the startup window is over
  cache,      \* _redo_cache: [age, cut, whole]
  passed,     \* whether the last step was a pass; what it did:
  motion,     \* _motion_boxes of the pass
  regions,    \* the regions of the pass
  seeded,     \* the parked objects it repeated
  returned,   \* the boxes it returned, those repeated included
  lookedAt,   \* history: the age of the last real look at each object the tracker has
  cutShort    \* history: objects last looked for in a region that ends short of those it is for

regionVars == <<objects, status, checked, scan, cache, passed, motion, regions, seeded, returned,
                lookedAt, cutShort>>

Never == 2 * Recheck

-----------------------------------------------------------------------------
(* regions.py                                                              *)

Hi(a, b) == IF a > b THEN a ELSE b
Lo(a, b) == IF a < b THEN a ELSE b

\* int(): towards zero.
Trunc(a, b) == IF a < 0 THEN -((-a) \div b) ELSE a \div b

Area(box) == (box[3] - box[1] + 1) * (box[4] - box[2] + 1)

BoxOverlaps(a, b) == ~(a[3] < b[1] \/ a[1] > b[3] \/ a[4] < b[2] \/ a[2] > b[4])

\* Of boxes that overlap.
Intersection(a, b) == <<Hi(a[1], b[1]), Hi(a[2], b[2]), Lo(a[3], b[3]), Lo(a[4], b[4])>>

BoxInside(outer, inner) ==
  inner[1] >= outer[1] /\ inner[2] >= outer[2] /\ inner[3] <= outer[3] /\ inner[4] <= outer[4]

IntersectsAny(box, boxes) == \E b \in boxes : BoxOverlaps(box, b)

Shorter == Lo(Width, Height)

\* A square around a box: its longest side times num/den, at least MinRegion, inside the frame.
CalculateRegion(box, num, den) ==
  LET longest == Hi(box[3] - box[1], box[4] - box[2])
      size == Lo(Hi(4 * ((longest * num) \div (den * 4)), MinRegion), 4 * (Shorter \div 4))
      Start(from, to, side) ==
        LET x == Trunc(from + to - size, 2)
        IN IF x < 0 THEN 0 ELSE IF x > side - size THEN Hi(0, side - size) ELSE x
      x0 == Start(box[1], box[3], Width)
      y0 == Start(box[2], box[4], Height)
  IN <<x0, y0, x0 + size, y0 + size>>

ISqrt(n) == CHOOSE r \in 0..n : r * r <= n /\ (r + 1) * (r + 1) > n

\* How far a cluster begun by this box may reach.
ClusterBoundary(box) ==
  LET w == box[3] - box[1]
      h == box[4] - box[2]
      size == Hi(MinRegion, ISqrt(10 * w * h))
      dx == Trunc(20 * size - 11 * w, 20)
      dy == Trunc(20 * size - 11 * h, 20)
  IN <<Trunc(2 * box[1] + w - 2 * dx, 2), Trunc(2 * box[2] + h - 2 * dy, 2),
       Trunc(2 * box[1] + w + 2 * dx, 2), Trunc(2 * box[2] + h + 2 * dy, 2)>>

\* A set of boxes as one.
Hull(boxes) == <<Min({b[1] : b \in boxes}), Min({b[2] : b \in boxes}),
                 Max({b[3] : b \in boxes}), Max({b[4] : b \in boxes})>>

\* Mistake: the region of a cluster is that of one of its boxes.
ClusterRegionOfFirst(cluster) == CalculateRegion(CHOOSE b \in cluster : TRUE, 27, 20)

ClusterRegion(cluster) == CalculateRegion(Hull(cluster), 27, 20)

\* A box joins a cluster it is in reach of, unless the region would be larger than the minimum
\* and leave a box under 5% of it.
Joins(cluster, boundary, b) ==
  /\ BoxInside(boundary, b)
  /\ LET r == ClusterRegion(cluster \cup {b}) IN
     r[3] - r[1] > MinRegion => \A c \in cluster \cup {b} : 20 * Area(c) >= Area(r)

\* The boxes in reach of a box that no cluster has yet, in order.
Gathered(boxes, clusters, b) ==
  LET gathered[i \in 0..Len(boxes)] ==
        IF i = 0 THEN {b}
        ELSE IF /\ \A c \in clusters : boxes[i] \notin c
                /\ Joins(gathered[i - 1], ClusterBoundary(b), boxes[i])
             THEN gathered[i - 1] \cup {boxes[i]} ELSE gathered[i - 1]
  IN gathered[Len(boxes)]

\* Boxes, in order, into clusters; each box is in one.
ClusterCandidates(boxes) ==
  LET clusters[i \in 0..Len(boxes)] ==
        IF i = 0 THEN {}
        ELSE IF \E c \in clusters[i - 1] : boxes[i] \in c THEN clusters[i - 1]
        ELSE clusters[i - 1] \cup {Gathered(boxes, clusters[i - 1], boxes[i])}
  IN clusters[Len(boxes)]

RegionsFor(boxes) == {ClusterRegion(c) : c \in ClusterCandidates(SetToSeq(boxes))}

\* Squares of the short side that cover the frame.
StartupRegions ==
  LET size == Hi(4, 4 * (Shorter \div 4))
      long == Hi(Width, Height)
      count == (long + size - 1) \div size
      Offset(i) == IF count = 1 THEN 0 ELSE (2 * i * (long - size) + count - 1) \div (2 * (count - 1))
  IN {IF Width >= Height THEN <<Offset(i), 0, Offset(i) + size, size>>
      ELSE <<0, Offset(i), size, Offset(i) + size>> : i \in 0..(count - 1)}

\* The box ends at an edge of its region that is not an edge of the frame.
Clipped(d) ==
  LET r == d.region
      b == d.box
  IN \/ r[1] > CutEdge /\ b[1] - r[1] <= CutEdge
     \/ r[2] > CutEdge /\ b[2] - r[2] <= CutEdge
     \/ Width - r[3] > CutEdge /\ r[3] - b[3] <= CutEdge
     \/ Height - r[4] > CutEdge /\ r[4] - b[4] <= CutEdge

Plain(box) == (box[3] - box[1]) * (box[4] - box[2])

Confidence(d) == IF Clipped(d) THEN 60 ELSE d.score

\* Non-maximum suppression, best first, at LABEL_NMS of a car.
Nms(dets) ==
  LET Suppresses(k, d) ==
        /\ BoxOverlaps(k.box, d.box)
        /\ LET i == Plain(Intersection(k.box, d.box))
           IN 10 * i > 6 * (Plain(k.box) + Plain(d.box) - i)
      Kept[left \in SUBSET dets] ==
        IF left = {} THEN {}
        ELSE LET best == CHOOSE k \in left : \A d \in left : Confidence(d) <= Confidence(k)
             IN {best} \cup Kept[{d \in left \ {best} : ~Suppresses(best, d)}]
  IN Kept[dets]

\* A box mostly inside a larger one is part of it, unless it is under 5% of it.
ReduceDetections(dets) ==
  LET kept == Nms(dets)
      PartOf(d, o) ==
        /\ o # d /\ Area(o.box) >= Area(d.box) /\ 20 * Area(d.box) >= Area(o.box)
        /\ BoxOverlaps(d.box, o.box)
        /\ 10 * Area(Intersection(d.box, o.box)) > 8 * Area(d.box)
  IN {d \in kept : ~\E o \in kept : PartOf(d, o)}

-----------------------------------------------------------------------------
(* A pass                                                                  *)

\* The detector: what a region shows of the objects.
Detect(region) ==
  {[box |-> Intersection(o, region), region |-> region, reused |-> FALSE,
    score |-> IF BoxInside(region, o) THEN 80 ELSE 50] : o \in {p \in objects : BoxOverlaps(p, region)}}

\* The second look at a cut-off box that shows most of it, and scores best.
WholeOf(d, got) ==
  LET covering == {g \in got : /\ BoxOverlaps(d.box, g.box)
                               /\ 10 * Area(Intersection(d.box, g.box)) >= 8 * Area(d.box)}
  IN {g \in covering : \A h \in covering : h.score <= g.score}

SameBox(a, b) ==
  BoxOverlaps(a, b) /\ LET i == Area(Intersection(a, b))
                       IN 10 * i >= 8 * (Area(a) + Area(b) - i)

\* An earlier second look at this cut-off box; not where motion touches it.
ReusedRedo(d, entries) ==
  IF IntersectsAny(d.box, motion') THEN {}
  ELSE {e \in entries : e.age < Recheck /\ SameBox(e.cut, d.box)}

\* What looking at a cut-off box d of the queue comes to.
LookedAgain(s, d) ==
  LET rest == s.queue \ {d}
      again == ReusedRedo(d, s.cache)
      region == CalculateRegion(d.box, 2, 1)
      got == Detect(region)
  IN IF again # {} THEN {[s EXCEPT !.queue = rest, !.dets = @ \cup {e.whole}] : e \in again}
     ELSE IF region \in s.redone THEN {[s EXCEPT !.queue = rest]}
     ELSE {[queue |-> rest \cup {g \in got : Clipped(g)}, redone |-> s.redone \cup {region},
            cache |-> s.cache \cup {[age |-> 0, cut |-> d.box, whole |-> [w EXCEPT !.reused = TRUE]]
                                      : w \in WholeOf(d, got)},
            dets |-> s.dets \cup got]}

\* One of those that score best is next; there is an end to it.
LookAgain(s) ==
  IF Cardinality(s.redone) >= RedoMax THEN {s}
  ELSE UNION {LookedAgain(s, d) : d \in {q \in s.queue : \A o \in s.queue : o.score <= q.score}}
       \cup (IF s.queue = {} THEN {s} ELSE {})

\* All that may come of it: with RedoMax looks the queue grows by as many as these show.
LooksAgain(start) ==
  LET after[i \in 0..(RedoMax * (1 + Cardinality(objects)) + Cardinality(start.dets))] ==
        IF i = 0 THEN {start} ELSE UNION {LookAgain(s) : s \in after[i - 1]}
  IN after[RedoMax * (1 + Cardinality(objects)) + Cardinality(start.dets)]

\* Parked objects no motion touches are repeated between two rechecks.
SeededNow ==
  {o \in objects : status'[o] = "parked" /\ checked < Recheck /\ ~IntersectsAny(o, motion')}

\* The tracked objects a pass looks for.
LookedFor == {o \in objects : status[o] # "new"} \ seeded

Fitting(box) == Hi(box[3] - box[1], box[4] - box[2]) < 4 * (Shorter \div 4)
\* Those that together are longer than the short side of the frame, which no region exceeds.
Spread(boxes) == UNION {c \in ClusterCandidates(SetToSeq(boxes)) : ~Fitting(Hull(c))}

Regions ==
  LET tracked == RegionsFor(LookedFor')
  IN tracked \cup RegionsFor({b \in motion' : ~\E r \in tracked : BoxInside(r, b)})
             \cup (IF scan = "starting" THEN StartupRegions ELSE {})

\* One pass over what the tracker has by now: a track begins with a look at its object.
\* (From one pass to the next one object's track changes, and one object moves, at most.)
Pass ==
  /\ ~passed /\ UNCHANGED <<objects, scan>>
  /\ status' \in {[status EXCEPT ![o] = s] : o \in objects, s \in {"new", "moving", "parked"}}
  /\ \A o \in objects : status[o] = "new" /\ status'[o] # "new" => lookedAt[o] = 0
  /\ motion' \in {{}} \cup {{o} : o \in objects} /\ passed' = TRUE
  /\ seeded' = SeededNow /\ regions' = Regions
  /\ checked' = IF checked >= Recheck THEN 0 ELSE checked
  /\ LET dets == UNION {Detect(r) : r \in regions'}
         start == [queue |-> {d \in dets : Clipped(d)}, redone |-> {}, dets |-> dets,
                   cache |-> {e \in cache : e.age < Recheck}]
     IN \E end \in LooksAgain(start) : \E out \in {ReduceDetections(end.dets)} :
        LET real == {d.box : d \in {e \in out : ~e.reused}} IN
        /\ cache' = end.cache
        /\ returned' = {d.box : d \in out} \cup seeded'
        /\ lookedAt' = [o \in objects |-> IF o \in real THEN 0
                                          ELSE IF status'[o] = "new" THEN Never ELSE lookedAt[o]]
  /\ cutShort' = Spread(LookedFor') \cup (cutShort \cap seeded')

\* Time: between two passes the checks and what is remembered grow older.
TimePasses ==
  /\ passed
  /\ checked' = Lo(checked + 1, Recheck)
  /\ cache' = {[e EXCEPT !.age = @ + 1] : e \in {f \in cache : f.age < Recheck}}
  /\ lookedAt' = [o \in objects |-> IF status[o] = "new" THEN lookedAt[o]
                                   ELSE Lo(lookedAt[o] + 1, Never)]
  /\ scan' \in {scan, "over"}
  /\ passed' = FALSE
  /\ motion' = {} /\ regions' = {} /\ seeded' = {} /\ returned' = {}
  /\ UNCHANGED <<objects, status, cutShort>>

RegionsInit ==
  /\ objects \in Scene /\ status = [o \in objects |-> "new"]
  /\ checked = Recheck /\ scan = "starting" /\ cache = {}
  /\ passed = FALSE /\ motion = {} /\ regions = {} /\ seeded = {} /\ returned = {}
  /\ lookedAt = [o \in objects |-> Never] /\ cutShort = {}

RegionsNext == Pass \/ TimePasses

RegionsSpec == RegionsInit /\ [][RegionsNext]_regionVars

-----------------------------------------------------------------------------
(* Properties                                                              *)

RegionsTypeOK ==
  /\ \A e \in cache : e.age <= Recheck
  /\ checked \in 0..Recheck /\ seeded \subseteq objects /\ cutShort \subseteq objects
  /\ \A r \in regions : BoxInside(<<0, 0, Width, Height>>, r)

\* An object the tracker has, or that motion or the startup look should find, comes out of a pass
\* whole, if it fits a region: whichever objects its region was shared with, whoever's region
\* cut it off, and whatever was merged.  Only objects grouped although they are too far apart for
\* one region may be missed: see RegionsCover.
SeenWhole ==
  passed => \A o \in objects :
    /\ Fitting(o) /\ (status[o] # "new" \/ o \in motion \/ scan = "starting")
    /\ scan = "over" => o \notin cutShort
    => o \in returned

\* What is shown without a look is backed by one: a repeated spot or a reused second look of a
\* tracked object is never older than a recheck and a reuse together, in whatever order they
\* follow each other; but for objects that its recheck misses as SeenWhole says.
BoxesAreBacked ==
  passed => \A o \in (objects \cap returned) \ cutShort : status[o] # "new" => lookedAt[o] < 2 * Recheck

\* "Regions covering every box, clustered" (regions.py:108), the clusters being "boxes that fit
\* one region" (regions.py:84): a region of the pass holds each object it looks for.
\* Violated: _cluster_boundary lets a box join from further away than the frame's short side,
\* to which calculate_region cuts the region down.
RegionsCover ==
  passed => \A o \in LookedFor : Fitting(o) => \E r \in regions : BoxInside(r, o)

\* Both: no object is missed by a look, and none is shown for long without one.
RegionsAreBacked == SeenWhole /\ BoxesAreBacked
=============================================================================

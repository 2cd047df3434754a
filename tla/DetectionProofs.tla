---------------------------- MODULE DetectionProofs ----------------------------
(* The rest of what looks at pictures: that matching, zones, regions and the links between faces   *)
(* and people do what they promise, and that the parts of MCVision, side by side, keep what each   *)
(* keeps alone (VisionProofs, CameraEventProofs).                                                  *)
(*                                                                                                 *)
(* Code that goes through a list is a recursive function of how far it got (Opened, Taken,         *)
(* MatchFacesToPeople); what it does at every step is shown by induction, as a fact about the set  *)
(* of numbers for which it holds.                                                                  *)
EXTENDS MCVision, VisionProofs, CameraEventProofs, WellFoundedInduction

-----------------------------------------------------------------------------
(* What is computed step by step                                           *)

\* A set of numbers has a least one.
LEMMA LeastOf == ASSUME NEW T \in SUBSET Nat, T # {} PROVE \E n \in T : \A m \in T : n <= m
PROOF
<1>1. PICK x \in T : \A y \in T : <<y, x>> \notin OpToRel(<, Nat)
  BY WFMin, NatLessThanWellFounded
<1>2. \A y \in T : ~(y < x) BY <1>1 DEF OpToRel
<1>3. QED BY <1>2

\* Induction, about a set of numbers.
LEMMA AllNumbers == ASSUME NEW T, 0 \in T, \A n \in Nat : n \in T => n + 1 \in T PROVE Nat \subseteq T
PROOF
<1> SUFFICES ASSUME Nat \ T # {} PROVE FALSE OBVIOUS
<1>1. PICK n \in Nat \ T : \A m \in Nat \ T : n <= m BY LeastOf
<1>2. n # 0 /\ n - 1 \in Nat /\ n - 1 \in T BY <1>1
<1>3. QED BY <1>1, <1>2

\* What a computation that stays in S has after each of its steps.
Computed(S, base, N, D) ==
  {h \in [0..N -> S] : h[0] = base /\ \A i \in 1..N : h[i] = D[<<i, h[i - 1]>>]}

LEMMA StepsExist ==
  ASSUME NEW S, NEW base \in S, NEW N \in Nat, NEW D \in [(1..N) \X S -> S]
  PROVE  Computed(S, base, N, D) # {}
PROOF
<1> DEFINE Run(h, n) == h[0] = base /\ \A i \in 1..n : h[i] = D[<<i, h[i - 1]>>]
           G == {n \in Nat : n <= N => \E h \in [0..n -> S] : Run(h, n)}
<1>1. 0 \in G
  <2> DEFINE h == [i \in 0..0 |-> base]
  <2>1. h \in [0..0 -> S] /\ Run(h, 0) OBVIOUS
  <2> HIDE DEF h
  <2>2. QED BY <2>1
<1>2. ASSUME NEW n \in Nat, n \in G PROVE n + 1 \in G
  <2> SUFFICES ASSUME n + 1 <= N PROVE \E h \in [0..(n + 1) -> S] : Run(h, n + 1) OBVIOUS
  <2>1. PICK h \in [0..n -> S] : Run(h, n) BY <1>2
  <2> DEFINE k == [i \in 0..(n + 1) |-> IF i = n + 1 THEN D[<<n + 1, h[n]>>] ELSE h[i]]
  <2>2. h[n] \in S /\ <<n + 1, h[n]>> \in (1..N) \X S BY <2>1
  <2>3. k \in [0..(n + 1) -> S] BY <2>1, <2>2
  <2>4. k[0] = base BY <2>1
  <2>5. ASSUME NEW i \in 1..(n + 1) PROVE k[i] = D[<<i, k[i - 1]>>]
    <3>1. CASE i = n + 1 BY <3>1
    <3>2. CASE i # n + 1
      <4>1. i \in 1..n /\ i \in 0..(n + 1) /\ i - 1 \in 0..(n + 1) /\ i - 1 # n + 1 BY <3>2
      <4>2. k[i] = h[i] /\ k[i - 1] = h[i - 1] BY <3>2, <4>1
      <4>3. QED BY <2>1, <4>1, <4>2
    <3>3. QED BY <3>1, <3>2
  <2> HIDE DEF k
  <2>6. QED BY <2>3, <2>4, <2>5
<1> HIDE DEF G
<1>3. Nat \subseteq G BY <1>1, <1>2, AllNumbers
<1>4. QED BY <1>3 DEF G, Computed

-----------------------------------------------------------------------------
(* Matching                                                                *)

Kind == {k.type : k \in UNION Scenes} \cup {""}
Place == Int \X Int
Track == [at : {"no", "here", "recent"}, type : Kind, box : Place, size : Int, spot : Place]
Look == [type : Kind, box : Place, seeded : TrackId \cup {0}]
Binding == [Object -> TrackId \cup {0}]

\* The tracks, and the objects they are bound to: a track that never was has nothing, and an
\* object's track is of its type, as long as there is one.
TracksTyped(trs, bindings) ==
  /\ trs \in [TrackId -> Track] /\ bindings \in Binding
  /\ \A t \in TrackId : trs[t].at = "no" => trs[t] = NoTrack
  /\ \A g \in Object : bindings[g] # 0 => trs[bindings[g]].at # "no" /\ trs[bindings[g]].type = NorfairType[g]

OfType(g, i) == g \in Object /\ NorfairType[g] = detections[i].type

\* Between a match and its update: what is matched and what is on offer.
Unclaimed ==
  /\ detections \in Seq(Look)
  /\ DOMAIN matches \subseteq Here /\ Range(matches) \subseteq DOMAIN detections
  /\ DOMAIN onOffer \subseteq DOMAIN detections /\ \A i \in DOMAIN onOffer : OfType(onOffer[i], i)

MatchInv ==
  /\ tracker \in {"norfair", "builtin"} /\ scene \in Scenes
  /\ TracksTyped(tracks, norfairIds) /\ Unclaimed /\ MatchesAreSound

LEMMA MatchInitInv == MatchInit => MatchInv
PROOF
<1> SUFFICES ASSUME MatchInit PROVE MatchInv OBVIOUS
<1> USE DEF MatchInit
<1>1. NoTrack \in Track
  <2>1. "" \in Kind BY DEF Kind
  <2>2. <<0, 1>> \in Place /\ NoSpot \in Place BY DEF Place, NoSpot
  <2>3. \A k \in Kind, b \in Place, c \in Place :
          [at |-> "no", type |-> k, box |-> b, size |-> 1, spot |-> c] \in Track BY DEF Track
  <2>4. QED BY <2>1, <2>2, <2>3 DEF NoTrack
<1>2. TracksTyped(tracks, norfairIds) BY <1>1 DEF TracksTyped, Binding
<1>3. DOMAIN matches = {} /\ DOMAIN onOffer = {} /\ Range(matches) = {} BY DEF NoMatch, Range
<1>4. Unclaimed /\ MatchesAreSound
  BY <1>3 DEF Unclaimed, MatchesAreSound, OneToOne, ParkedTakesItsSpot
<1>5. QED BY <1>2, <1>4 DEF MatchInv

\* What is repeated of a parked track is its spot, as a thing of its type.
LEMMA LooksFacts ==
  ASSUME MatchInv, NEW dets \in Looks
  PROVE  /\ dets \in Seq(Look)
         /\ \A i \in DOMAIN dets : LET t == dets[i].seeded IN
              t # 0 => t \in Parked /\ dets[i].type = tracks[t].type /\ dets[i].box = tracks[t].spot
PROOF
<1> DEFINE fresh == {[type |-> k.type, box |-> k.box, seeded |-> 0] : k \in scene}
           repeated == {[type |-> tracks[t].type, box |-> tracks[t].spot, seeded |-> t] : t \in Parked}
<1>1. PICK n \in 0..MaxSeen : dets \in [1..n -> fresh \cup repeated] BY DEF Looks
<1>2. scene \in Scenes /\ tracks \in [TrackId -> Track] BY DEF MatchInv, TracksTyped
<1>3. ASSUME NEW k \in scene PROVE k.type \in Kind /\ k.box \in Place
  <2>1. k \in UNION Scenes BY <1>2
  <2>2. k.box \in Int \X (Nat \ {0}) BY <2>1, MatchingAssumption
  <2>3. k.box \in Place BY <2>2 DEF Place
  <2>4. k.type \in {l.type : l \in UNION Scenes} BY <2>1
  <2>5. QED BY <2>3, <2>4 DEF Kind
<1>4. fresh \subseteq Look BY <1>3 DEF Look
<1>5. Parked \subseteq TrackId BY DEF Parked, Here
<1>6. \A t \in Parked : tracks[t].type \in Kind /\ tracks[t].spot \in Place BY <1>2, <1>5 DEF Track
<1>7. repeated \subseteq Look BY <1>5, <1>6 DEF Look
<1>8. \A d \in fresh : d.seeded = 0 OBVIOUS
<1>9. \A d \in repeated : /\ d.seeded \in Parked
                         /\ d.type = tracks[d.seeded].type /\ d.box = tracks[d.seeded].spot OBVIOUS
<1>10. n \in Nat BY <1>1, MatchingAssumption
<1> HIDE DEF fresh, repeated
<1>11. dets \in Seq(Look) /\ DOMAIN dets = 1..n BY <1>1, <1>4, <1>7, <1>10
<1>12. \A i \in DOMAIN dets : dets[i] \in fresh \cup repeated BY <1>1, <1>11
<1>13. QED BY <1>8, <1>9, <1>11, <1>12

LEMMA ReboundFacts ==
  ASSUME NEW bindings \in Binding, NEW m, NEW assoc, DOMAIN m \subseteq TrackId
  PROVE  /\ Rebound(bindings, m, assoc) \in Binding
         /\ \A g \in Object : \/ /\ Rebound(bindings, m, assoc)[g] = bindings[g]
                                  /\ \A t \in DOMAIN m : assoc[m[t]] # g
                               \/ \E t \in DOMAIN m : Rebound(bindings, m, assoc)[g] = t /\ assoc[m[t]] = g
PROOF
<1> DEFINE Its(g) == CHOOSE t \in DOMAIN m : assoc[m[t]] = g
<1>1. ASSUME NEW g \in Object PROVE (\E t \in DOMAIN m : assoc[m[t]] = g) =>
        Its(g) \in DOMAIN m /\ assoc[m[Its(g)]] = g OBVIOUS
<1>2. \A g \in Object : Rebound(bindings, m, assoc)[g] =
        IF \E t \in DOMAIN m : assoc[m[t]] = g THEN Its(g) ELSE bindings[g] BY DEF Rebound
<1>3. Rebound(bindings, m, assoc) = [g \in Object |->
        IF \E t \in DOMAIN m : assoc[m[t]] = g THEN Its(g) ELSE bindings[g]] BY DEF Rebound
<1> HIDE DEF Its
<1>4. \A g \in Object : (IF \E t \in DOMAIN m : assoc[m[t]] = g THEN Its(g) ELSE bindings[g]) \in TrackId \cup {0}
  BY <1>1 DEF Binding
<1>5. Rebound(bindings, m, assoc) \in Binding BY <1>3, <1>4 DEF Binding
<1>6. QED BY <1>1, <1>2, <1>5

\* The detections of objects that are bound to a track in view which has none yet.
Due(dets, assoc, first, bindings) ==
  {i \in DOMAIN dets \ Range(first) : assoc[i] # 0 /\ bindings[assoc[i]] \in Here \ DOMAIN first}

\* A track follows the object it is bound to, unless it refuses the box; a track that has an
\* object's box which it does not refuse does follow one.
LEMMA FollowedFacts ==
  ASSUME NEW dets, NEW assoc, NEW first, NEW bindings \in Binding,
         NEW s \in Followed(dets, assoc, first, bindings)
  PROVE  /\ DOMAIN s.m \subseteq DOMAIN first \cup Here /\ DOMAIN first \subseteq DOMAIN s.m
         /\ \A t \in DOMAIN first : s.m[t] = first[t]
         /\ \A t \in DOMAIN s.m \ DOMAIN first :
              /\ s.m[t] \in Due(dets, assoc, first, bindings) /\ bindings[assoc[s.m[t]]] = t
              /\ ~Refuses(t, dets[s.m[t]].box)
         /\ \A i \in Due(dets, assoc, first, bindings) :
              ~Refuses(bindings[assoc[i]], dets[i].box) => bindings[assoc[i]] \in DOMAIN s.m
         /\ s.ids \in Binding /\ \A g \in Object : s.ids[g] \in {0, bindings[g]}
PROOF
<1> DEFINE due == Due(dets, assoc, first, bindings)
           BoundTo(t) == {i \in due : bindings[assoc[i]] = t}
           refused == {i \in due : Refuses(bindings[assoc[i]], dets[i].box)}
           taking == {bindings[assoc[i]] : i \in due \ refused}
           picks == OneOfEach([t \in taking |-> BoundTo(t) \ refused])
           lets == {L \in SUBSET refused : \A t \in Here \ taking : refused \cap BoundTo(t) \subseteq L}
           Outcome(picked, letGo) ==
             [m |-> [t \in DOMAIN first \cup taking |-> IF t \in taking THEN picked[t] ELSE first[t]],
              ids |-> [g \in Object |-> IF \E i \in letGo : assoc[i] = g THEN 0 ELSE bindings[g]]]
<1>a. Followed(dets, assoc, first, bindings) = {Outcome(picked, letGo) : picked \in picks, letGo \in lets}
  BY DEF Followed, Due
<1>1. PICK picked \in picks, letGo \in lets : s = Outcome(picked, letGo)
  <2> HIDE DEF picks, lets, Outcome
  <2>1. QED BY <1>a
<1>2. \A t \in taking : picked[t] \in BoundTo(t) \ refused BY DEF OneOfEach
<1>3. /\ s.m = [t \in DOMAIN first \cup taking |-> IF t \in taking THEN picked[t] ELSE first[t]]
      /\ s.ids = [g \in Object |-> IF \E i \in letGo : assoc[i] = g THEN 0 ELSE bindings[g]]
  BY <1>1
<1>4. taking \subseteq Here \ DOMAIN first BY DEF Due
<1>5. \A i \in due : i \notin refused => bindings[assoc[i]] \in taking OBVIOUS
<1>6. \A i \in due : i \notin refused => ~Refuses(bindings[assoc[i]], dets[i].box) OBVIOUS
<1>7. \A t : \A i \in BoundTo(t) : i \in due /\ bindings[assoc[i]] = t OBVIOUS
<1>8. \A i \in due : ~Refuses(bindings[assoc[i]], dets[i].box) => i \notin refused OBVIOUS
<1> HIDE DEF BoundTo, refused, taking, picks
<1>9. s.ids \in Binding /\ \A g \in Object : s.ids[g] \in {0, bindings[g]} BY <1>3 DEF Binding
<1>10. DOMAIN s.m = DOMAIN first \cup taking BY <1>3
<1>11. \A t \in DOMAIN first : s.m[t] = first[t] BY <1>3, <1>4
<1>12. \A t \in DOMAIN s.m \ DOMAIN first : t \in taking /\ s.m[t] = picked[t] BY <1>3, <1>10
<1>13. \A t \in DOMAIN s.m \ DOMAIN first :
         /\ s.m[t] \in due /\ bindings[assoc[s.m[t]]] = t /\ ~Refuses(t, dets[s.m[t]].box)
  BY <1>2, <1>6, <1>7, <1>12
<1>14. \A i \in due : ~Refuses(bindings[assoc[i]], dets[i].box) => bindings[assoc[i]] \in DOMAIN s.m
  BY <1>5, <1>8, <1>10
<1>15. QED BY <1>4, <1>9, <1>10, <1>11, <1>13, <1>14

LEMMA RestsFacts ==
  ASSUME NEW dets, NEW m, NEW byOverlap, NEW r \in Rests(dets, m, byOverlap)
  PROVE  /\ DOMAIN r \subseteq Here \ DOMAIN m
         /\ \A t \in DOMAIN r : r[t] \in DOMAIN dets \ Range(m) /\ Fits(t, dets[r[t]], byOverlap)
         /\ \A t, u \in DOMAIN r : r[t] = r[u] => t = u
PROOF
<1> DEFINE free == DOMAIN dets \ Range(m)
           left == Here \ DOMAIN m
<1>1. /\ r \in UNION {[T -> free] : T \in SUBSET left}
      /\ \A t, u \in DOMAIN r : r[t] = r[u] => t = u
      /\ \A t \in DOMAIN r : Fits(t, dets[r[t]], byOverlap)
  BY DEF Rests
<1>2. PICK T \in SUBSET left : r \in [T -> free] BY <1>1
<1>3. QED BY <1>1, <1>2

\* What a match with Norfair comes to: the matches of the seeded boxes, of the objects followed and
\* of the rest.
Matches3(m, rest) == [t \in DOMAIN m \cup DOMAIN rest |-> IF t \in DOMAIN rest THEN rest[t] ELSE m[t]]
Live == [g \in Object |-> IF norfairIds[g] \in Here THEN norfairIds[g] ELSE 0]

LEMMA SeededFacts ==
  ASSUME MatchInv, NEW dets \in Looks
  PROVE  /\ DOMAIN Seeded(dets) \subseteq Parked
         /\ \A t \in DOMAIN Seeded(dets) :
              Seeded(dets)[t] \in DOMAIN dets /\ dets[Seeded(dets)[t]].seeded = t
PROOF
<1> DEFINE Its(t) == CHOOSE i \in DOMAIN dets : dets[i].seeded = t
           S == {dets[i].seeded : i \in DOMAIN dets} \ {0}
<1>1. \A t \in S : \E i \in DOMAIN dets : dets[i].seeded = t OBVIOUS
<1>2. \A t \in S : Its(t) \in DOMAIN dets /\ dets[Its(t)].seeded = t BY <1>1
<1>3. Seeded(dets) = [t \in S |-> Its(t)] BY DEF Seeded
<1>4. S \subseteq Parked BY <1>1, LooksFacts
<1> HIDE DEF S, Its
<1>5. QED BY <1>2, <1>3, <1>4

LEMMA LiveFacts ==
  ASSUME MatchInv
  PROVE  Live \in Binding /\ \A g \in Object : Live[g] # 0 => Live[g] = norfairIds[g]
PROOF BY DEF MatchInv, TracksTyped, Live, Binding

LEMMA NorfairMatchFacts ==
  ASSUME MatchInv, NEW dets \in Looks, NEW assoc \in Associations(dets),
         NEW s \in Followed(dets, assoc, Seeded(dets), Rebound(Live, Seeded(dets), assoc)),
         NEW r \in Rests(dets, s.m, Parked)
  PROVE  LET m == Matches3(s.m, r) IN
         /\ DOMAIN m \subseteq Here /\ \A t \in DOMAIN m : m[t] \in DOMAIN dets
         /\ \A t, u \in DOMAIN m : m[t] = m[u] => t = u
         /\ \A t \in DOMAIN m : dets[m[t]].type = tracks[t].type
         /\ \A t \in DOMAIN m : t \in Parked /\ tracker = "norfair" =>
              dets[m[t]].seeded = t \/ OnSpot(Where(t), dets[m[t]].box)
         /\ Rebound(s.ids, r, assoc) \in Binding
         /\ \A g \in Object : LET t == Rebound(s.ids, r, assoc)[g] IN
              t # 0 => tracks[t].at # "no" /\ tracks[t].type = NorfairType[g]
PROOF
<1> DEFINE first == Seeded(dets)
           bindings == Rebound(Live, first, assoc)
           m == Matches3(s.m, r)
<1>1. TracksTyped(tracks, norfairIds) /\ \A i \in DOMAIN dets : dets[i] \in Look
  BY LooksFacts DEF MatchInv
<1>2. /\ DOMAIN first \subseteq Parked
      /\ \A t \in DOMAIN first : first[t] \in DOMAIN dets /\ dets[first[t]].seeded = t
  BY SeededFacts
<1>3. Parked \subseteq Here /\ Here \subseteq TrackId BY DEF Parked, Here
<1>4. /\ DOMAIN assoc = DOMAIN dets /\ \A i \in DOMAIN dets : assoc[i] \in Object \cup {0}
      /\ \A i \in DOMAIN dets : assoc[i] # 0 => NorfairType[assoc[i]] = dets[i].type
      /\ 0 \notin Object
  BY MatchingAssumption DEF Associations, Object
<1>5. \A t \in DOMAIN first : dets[first[t]].type = tracks[t].type
  <2>1. \A t \in DOMAIN first : t # 0 BY <1>2, <1>3 DEF TrackId
  <2>2. QED BY <1>2, <2>1, LooksFacts
\* An object, live or bound to a parked track by its repeated box, is of its track's type.
<1>6. bindings \in Binding /\ \A g \in Object : bindings[g] # 0 =>
        bindings[g] \in Here /\ tracks[bindings[g]].type = NorfairType[g]
  <2>1. \A g \in Object : Live[g] # 0 => Live[g] \in Here /\ tracks[Live[g]].type = NorfairType[g]
    <3>1. \A g \in Object : Live[g] = IF norfairIds[g] \in Here THEN norfairIds[g] ELSE 0 BY DEF Live
    <3>2. QED BY <1>1, <3>1 DEF TracksTyped
  <2>2. DOMAIN first \subseteq TrackId BY <1>2, <1>3
  <2>3. bindings \in Binding BY <2>2, LiveFacts, ReboundFacts
  <2>4. ASSUME NEW g \in Object, bindings[g] # 0 PROVE bindings[g] \in Here /\ tracks[bindings[g]].type = NorfairType[g]
    <3>1. CASE bindings[g] = Live[g] BY <2>1, <2>4, <3>1
    <3>2. CASE \E t \in DOMAIN first : bindings[g] = t /\ assoc[first[t]] = g
      BY <1>2, <1>3, <1>4, <1>5, <3>2
    <3>3. QED BY <2>2, <3>1, <3>2, LiveFacts, ReboundFacts
  <2>5. QED BY <2>3, <2>4
<1> HIDE DEF first, bindings
<1>7. /\ DOMAIN s.m \subseteq DOMAIN first \cup Here /\ DOMAIN first \subseteq DOMAIN s.m
      /\ \A t \in DOMAIN first : s.m[t] = first[t]
      /\ \A t \in DOMAIN s.m \ DOMAIN first :
           /\ s.m[t] \in Due(dets, assoc, first, bindings) /\ bindings[assoc[s.m[t]]] = t
           /\ ~Refuses(t, dets[s.m[t]].box)
      /\ s.ids \in Binding /\ \A g \in Object : s.ids[g] \in {0, bindings[g]}
  BY <1>6, FollowedFacts DEF first, bindings
<1>8. \A i \in Due(dets, assoc, first, bindings) : i \in DOMAIN dets /\ i \notin Range(first) /\ assoc[i] # 0
  BY DEF Due
<1>9. /\ DOMAIN r \subseteq Here \ DOMAIN s.m
      /\ \A t \in DOMAIN r : r[t] \in DOMAIN dets \ Range(s.m) /\ Fits(t, dets[r[t]], Parked)
      /\ \A t, u \in DOMAIN r : r[t] = r[u] => t = u
  BY RestsFacts
<1>10. /\ \A t \in DOMAIN s.m : s.m[t] \in Range(s.m)
       /\ \A t \in DOMAIN first : first[t] \in Range(first) BY DEF Range
<1>11. /\ DOMAIN m = DOMAIN s.m \cup DOMAIN r
       /\ \A t \in DOMAIN r : m[t] = r[t]
       /\ \A t \in DOMAIN s.m : m[t] = s.m[t]
  BY <1>9 DEF Matches3
<1> HIDE DEF m
<1>12. ASSUME NEW t \in DOMAIN s.m PROVE s.m[t] \in DOMAIN dets /\ dets[s.m[t]].type = tracks[t].type
  <2>1. CASE t \in DOMAIN first BY <1>2, <1>5, <1>7, <2>1
  <2>2. CASE t \notin DOMAIN first
    <3> DEFINE i == s.m[t]
    <3>1. i \in DOMAIN dets /\ assoc[i] # 0 /\ bindings[assoc[i]] = t BY <1>7, <1>8, <2>2
    <3>2. t # 0 BY <1>2, <1>3, <1>7 DEF TrackId
    <3> HIDE DEF i
    <3>3. assoc[i] \in Object /\ NorfairType[assoc[i]] = dets[i].type BY <1>4, <3>1
    <3>4. dets[i].type = tracks[t].type BY <1>6, <3>1, <3>2, <3>3
    <3>5. QED BY <3>1, <3>4 DEF i
  <2>3. QED BY <2>1, <2>2
<1>13. \A t, u \in DOMAIN s.m : s.m[t] = s.m[u] => t = u
  <2> SUFFICES ASSUME NEW t \in DOMAIN s.m, NEW u \in DOMAIN s.m, s.m[t] = s.m[u] PROVE t = u OBVIOUS
  <2>1. CASE t \in DOMAIN first /\ u \in DOMAIN first BY <1>2, <1>7, <2>1
  <2>2. CASE t \notin DOMAIN first /\ u \notin DOMAIN first BY <1>7, <2>2
  <2>3. CASE t \in DOMAIN first /\ u \notin DOMAIN first BY <1>7, <1>8, <1>10, <2>3
  <2>4. CASE t \notin DOMAIN first /\ u \in DOMAIN first BY <1>7, <1>8, <1>10, <2>4
  <2>5. QED BY <2>1, <2>2, <2>3, <2>4
<1>14. \A t \in DOMAIN r : dets[r[t]].type = tracks[t].type BY <1>9 DEF Fits
<1>15. DOMAIN m \subseteq Here /\ \A t \in DOMAIN m : m[t] \in DOMAIN dets
  BY <1>2, <1>3, <1>7, <1>9, <1>11, <1>12
<1>16. \A t, u \in DOMAIN m : m[t] = m[u] => t = u BY <1>9, <1>10, <1>11, <1>13
<1>17. \A t \in DOMAIN m : dets[m[t]].type = tracks[t].type BY <1>11, <1>12, <1>14
<1>18. ASSUME NEW t \in DOMAIN m, t \in Parked, tracker = "norfair"
       PROVE  dets[m[t]].seeded = t \/ OnSpot(Where(t), dets[m[t]].box)
  <2>1. Where(t) = tracks[t].spot BY <1>18 DEF Where
  <2>2. CASE t \in DOMAIN first BY <1>2, <1>7, <1>11, <2>2
  <2>3. CASE t \in DOMAIN s.m \ DOMAIN first BY <1>7, <1>11, <1>18, <2>1, <2>3 DEF Refuses
  <2>4. CASE t \in DOMAIN r
    <3>1. t \notin Moving BY <1>18 DEF Moving
    <3>2. QED BY <1>9, <1>11, <2>4, <3>1 DEF Fits
  <2>5. QED BY <1>11, <2>2, <2>3, <2>4
<1>19. DOMAIN r \subseteq TrackId BY <1>3, <1>9
<1>20. Rebound(s.ids, r, assoc) \in Binding BY <1>7, <1>19, ReboundFacts
<1>21. ASSUME NEW g \in Object, Rebound(s.ids, r, assoc)[g] # 0
       PROVE  LET t == Rebound(s.ids, r, assoc)[g] IN tracks[t].at # "no" /\ tracks[t].type = NorfairType[g]
  <2>1. \A t \in Here : tracks[t].at # "no" BY DEF Here
  <2>2. CASE Rebound(s.ids, r, assoc)[g] = s.ids[g] BY <1>6, <1>7, <1>21, <2>1, <2>2
  <2>3. CASE \E t \in DOMAIN r : Rebound(s.ids, r, assoc)[g] = t /\ assoc[r[t]] = g
    <3>1. PICK t \in DOMAIN r : Rebound(s.ids, r, assoc)[g] = t /\ assoc[r[t]] = g BY <2>3
    <3>2. NorfairType[g] = dets[r[t]].type BY <1>4, <1>9, <3>1
    <3>3. QED BY <1>9, <1>14, <2>1, <3>1, <3>2
  <2>4. QED BY <1>7, <1>19, <2>2, <2>3, ReboundFacts
<1>22. QED BY <1>15, <1>16, <1>17, <1>18, <1>20, <1>21 DEF m

LEMMA BuiltinMatchFacts ==
  ASSUME MatchInv, NEW dets \in Looks, NEW r \in Rests(dets, NoMatch, Here)
  PROVE  /\ DOMAIN r \subseteq Here /\ \A t \in DOMAIN r : r[t] \in DOMAIN dets
         /\ \A t, u \in DOMAIN r : r[t] = r[u] => t = u
         /\ \A t \in DOMAIN r : dets[r[t]].type = tracks[t].type
         /\ \A t \in DOMAIN r : t \in Parked => OnSpot(Where(t), dets[r[t]].box)
PROOF
<1>1. /\ DOMAIN r \subseteq Here
      /\ \A t \in DOMAIN r : r[t] \in DOMAIN dets /\ Fits(t, dets[r[t]], Here)
      /\ \A t, u \in DOMAIN r : r[t] = r[u] => t = u
  BY RestsFacts
<1>2. \A t \in Parked : t \notin Moving BY DEF Moving
<1>3. QED BY <1>1, <1>2 DEF Fits

LEMMA MatchKeeps == ASSUME MatchInv, Match PROVE MatchInv'
PROOF
<1>1. PICK dets \in Looks :
        /\ detections' = dets
        /\ IF tracker = "norfair" THEN NorfairMatch(dets) ELSE BuiltinMatch(dets)
  BY DEF Match
<1>2. UNCHANGED <<tracker, scene, tracks>> BY DEF Match
<1>3. Here' = Here /\ Parked' = Parked /\ \A t : Where(t)' = Where(t)
  BY <1>2 DEF Here, Parked, Where
<1>4. detections' \in Seq(Look) BY <1>1, LooksFacts
<1>5. TracksTyped(tracks, norfairIds) /\ tracker \in {"norfair", "builtin"} /\ scene \in Scenes
  BY DEF MatchInv
<1> DEFINE Sound == /\ DOMAIN matches' \subseteq Here /\ \A t \in DOMAIN matches' : matches'[t] \in DOMAIN dets
                    /\ \A t, u \in DOMAIN matches' : matches'[t] = matches'[u] => t = u
                    /\ \A t \in DOMAIN matches' : dets[matches'[t]].type = tracks[t].type
                    /\ \A t \in DOMAIN matches' : t \in Parked =>
                         dets[matches'[t]].seeded = t \/ OnSpot(Where(t), dets[matches'[t]].box)
           FreeOffer == \A i \in DOMAIN onOffer' : /\ i \in DOMAIN dets \ Range(matches')
                                              /\ onOffer'[i] \in Object
                                              /\ NorfairType[onOffer'[i]] = dets[i].type
<1>6. Sound /\ FreeOffer /\ TracksTyped(tracks', norfairIds')
  <2>1. CASE tracker = "norfair"
    <3>a. NorfairMatch(dets) BY <1>1, <2>1
    <3>b. PICK assoc \in Associations(dets) :
            \E s \in Followed(dets, assoc, Seeded(dets), Rebound(Live, Seeded(dets), assoc)) :
              \E r \in Rests(dets, s.m, Parked) :
                /\ matches' = Matches3(s.m, r) /\ norfairIds' = Rebound(s.ids, r, assoc)
                /\ onOffer' = [i \in {j \in DOMAIN dets \ Range(Matches3(s.m, r)) : assoc[j] # 0} |-> assoc[i]]
      BY <3>a DEF NorfairMatch, Live, Matches3
    <3>c. PICK s \in Followed(dets, assoc, Seeded(dets), Rebound(Live, Seeded(dets), assoc)) :
              \E r \in Rests(dets, s.m, Parked) :
                /\ matches' = Matches3(s.m, r) /\ norfairIds' = Rebound(s.ids, r, assoc)
                /\ onOffer' = [i \in {j \in DOMAIN dets \ Range(Matches3(s.m, r)) : assoc[j] # 0} |-> assoc[i]]
      BY <3>b
    <3>1. PICK r \in Rests(dets, s.m, Parked) :
            /\ matches' = Matches3(s.m, r) /\ norfairIds' = Rebound(s.ids, r, assoc)
            /\ onOffer' = [i \in {j \in DOMAIN dets \ Range(Matches3(s.m, r)) : assoc[j] # 0} |-> assoc[i]]
      BY <3>c
    <3> DEFINE m == Matches3(s.m, r)
               bound == Rebound(s.ids, r, assoc)
    <3>d. /\ DOMAIN m \subseteq Here /\ \A t \in DOMAIN m : m[t] \in DOMAIN dets
          /\ \A t, u \in DOMAIN m : m[t] = m[u] => t = u
          /\ \A t \in DOMAIN m : dets[m[t]].type = tracks[t].type
          /\ \A t \in DOMAIN m : t \in Parked /\ tracker = "norfair" =>
               dets[m[t]].seeded = t \/ OnSpot(Where(t), dets[m[t]].box)
          /\ bound \in Binding
          /\ \A g \in Object : bound[g] # 0 =>
               tracks[bound[g]].at # "no" /\ tracks[bound[g]].type = NorfairType[g]
      BY NorfairMatchFacts
    <3>e. matches' = m /\ norfairIds' = bound BY <3>1
    <3> HIDE DEF m, bound
    <3>f. Sound BY <2>1, <3>d, <3>e
    <3>g. TracksTyped(tracks', norfairIds') BY <1>2, <1>5, <3>d, <3>e DEF TracksTyped
    <3>2. Sound /\ TracksTyped(tracks', norfairIds') BY <3>f, <3>g
    <3>3. \A i \in DOMAIN onOffer' : /\ i \in DOMAIN dets \ Range(matches') /\ onOffer'[i] = assoc[i]
                                    /\ assoc[i] # 0 BY <3>1
    <3>4. \A i \in DOMAIN dets : assoc[i] # 0 => assoc[i] \in Object /\ NorfairType[assoc[i]] = dets[i].type
      BY DEF Associations
    <3>5. FreeOffer BY <3>3, <3>4
    <3>6. QED BY <3>2, <3>5
  <2>2. CASE tracker # "norfair"
    <3>1. BuiltinMatch(dets) BY <1>1, <2>2
    <3>2. PICK r \in Rests(dets, NoMatch, Here) : matches' = r BY <3>1 DEF BuiltinMatch
    <3>3. DOMAIN onOffer' = {} /\ norfairIds' = norfairIds BY <3>1 DEF BuiltinMatch, NoMatch
    <3>4. Sound BY <3>2, BuiltinMatchFacts
    <3>5. QED BY <1>2, <1>5, <3>3, <3>4
  <2>3. QED BY <2>1, <2>2
<1>7. Unclaimed'
  <2>1. Range(matches') \subseteq DOMAIN dets BY <1>6 DEF Range
  <2>2. DOMAIN onOffer' \subseteq DOMAIN dets BY <1>6
  <2>3. QED BY <1>1, <1>3, <1>4, <1>6, <2>1, <2>2 DEF Unclaimed, OfType
<1>8. MatchesAreSound'
  <2>1. OneToOne' BY <1>1, <1>2, <1>6 DEF OneToOne
  <2>2. ParkedTakesItsSpot' BY <1>1, <1>3, <1>6 DEF ParkedTakesItsSpot
  <2>3. QED BY <2>1, <2>2 DEF MatchesAreSound
<1>9. QED BY <1>2, <1>5, <1>6, <1>7, <1>8 DEF MatchInv

\* A track is still the one it was, wherever it is now.
SameTrack(f, tr) == f \in Track /\ f.type = tr.type /\ f.at \in {"here", "recent"}

LEMMA TrackMoves ==
  ASSUME NEW f \in Track, f.at = "here", NEW b \in Place, NEW n \in Int
  PROVE  /\ SameTrack([f EXCEPT !.box = b, !.size = n], f) /\ [f EXCEPT !.box = b, !.size = n].at = "here"
         /\ SameTrack([f EXCEPT !.box = b], f) /\ SameTrack([f EXCEPT !.spot = b], f)
         /\ SameTrack([f EXCEPT !.at = "recent"], f)
PROOF
<1> DEFINE g == [f EXCEPT !.box = b]
<1>1. g \in Track /\ g.type = f.type /\ g.at = "here" BY DEF Track
<1> DEFINE h == [g EXCEPT !.size = n]
<1>2. [f EXCEPT !.box = b, !.size = n] = h OBVIOUS
<1> HIDE DEF g
<1>3. h \in Track /\ h.type = f.type /\ h.at = "here" BY <1>1 DEF Track
<1> HIDE DEF h
<1>4. SameTrack([f EXCEPT !.spot = b], f) BY DEF SameTrack, Track
<1>5. SameTrack([f EXCEPT !.at = "recent"], f) BY DEF SameTrack, Track
<1>6. QED BY <1>1, <1>2, <1>3, <1>4, <1>5 DEF SameTrack, g

LEMMA FollowsKeepsTrack ==
  ASSUME tracks \in [TrackId -> Track], NEW t \in Here, NEW d \in Look, NEW f \in Follows(t, d)
  PROVE  SameTrack(f, tracks[t])
PROOF
<1> DEFINE tr == tracks[t]
           moved == {[tr EXCEPT !.box = d.box, !.size = n] : n \in {tr.size, d.box[2]}}
<1>0. 0 \in Int OBVIOUS
<1>1. tr \in Track /\ tr.at = "here" BY DEF Here
<1>2. d.box \in Place /\ d.box[2] \in Int /\ tr.size \in Int /\ tr.spot \in Place /\ NoSpot \in Place
  BY <1>1 DEF Look, Place, Track, NoSpot
<1> HIDE DEF tr
<1>3. \A g \in moved : SameTrack(g, tr) /\ g \in Track /\ g.at = "here" /\ g.type = tr.type
  <2>1. ASSUME NEW n \in {tr.size, d.box[2]} PROVE
          LET g == [tr EXCEPT !.box = d.box, !.size = n] IN SameTrack(g, tr) /\ g.at = "here"
    <3>1. tr.size \in Int /\ d.box[2] \in Int BY <1>2
    <3>2. n \in Int BY <2>1, <3>1
    <3>3. QED BY <1>1, <1>2, <3>2, TrackMoves
  <2>2. \A g \in moved : SameTrack(g, tr) /\ g.at = "here" BY <2>1
  <2>3. QED BY <2>2 DEF SameTrack
<1>4. f \in moved \/ \E g \in moved : \/ f = [g EXCEPT !.spot = d.box]
                                \/ f = [g EXCEPT !.spot = NoSpot]
                                \/ f = [g EXCEPT !.box = tr.spot]
  BY DEF Follows, tr
<1> HIDE DEF moved
<1>5. \A g \in moved, b \in Place :
        SameTrack([g EXCEPT !.spot = b], g) /\ SameTrack([g EXCEPT !.box = b], g)
  BY <1>0, <1>3, TrackMoves
<1>6. \A g \in moved, b \in Place :
        SameTrack([g EXCEPT !.spot = b], tr) /\ SameTrack([g EXCEPT !.box = b], tr)
  BY <1>3, <1>5 DEF SameTrack
<1>7. SameTrack(f, tr) BY <1>2, <1>3, <1>4, <1>6
<1>8. QED BY <1>7 DEF tr

LEMMA MissedKeepsTrack ==
  ASSUME tracks \in [TrackId -> Track], NEW t \in Here, NEW f \in Missed(t)
  PROVE  SameTrack(f, tracks[t])
PROOF
<1> DEFINE tr == tracks[t]
<1>0. 0 \in Int OBVIOUS
<1>1. tr \in Track /\ tr.at = "here" BY DEF Here
<1>2. tr.box \in Place /\ tr.spot \in Place BY <1>1 DEF Track
<1>3. \/ f = tr \/ f = [tr EXCEPT !.at = "recent"]
      \/ f = [tr EXCEPT !.spot = tr.box] \/ f = [tr EXCEPT !.spot = tr.spot] BY DEF Missed
<1> HIDE DEF tr
<1>4. SameTrack(tr, tr) BY <1>1 DEF SameTrack
<1>5. SameTrack(f, tr) BY <1>0, <1>1, <1>2, <1>3, <1>4, TrackMoves
<1>6. QED BY <1>5 DEF tr

\* The books of a camera: its tracks and whose they are.
Books == {s \in [trs : [TrackId -> Track], ids : Binding] : TracksTyped(s.trs, s.ids)}

LEMMA OpensKeepsBooks ==
  ASSUME MatchInv, NEW s \in Books, NEW i \in DOMAIN detections
  PROVE  Opens(s, i) \subseteq Books
PROOF
<1> DEFINE d == detections[i]
           Bound(t) == IF i \in DOMAIN onOffer THEN [s.ids EXCEPT ![onOffer[i]] = t] ELSE s.ids
           New(spot) == [at |-> "here", type |-> d.type, box |-> d.box, size |-> d.box[2], spot |-> spot]
           After(t, spot) == [trs |-> [s.trs EXCEPT ![t] = New(spot)], ids |-> Bound(t)]
           Free == MayResume(s.trs, d) \cup NextTrack(s.trs)
           Spots == {NoSpot, d.box}
<1>1. d \in Look BY DEF MatchInv, Unclaimed
<1>2. /\ s.trs \in [TrackId -> Track] /\ s.ids \in Binding
      /\ \A t \in TrackId : s.trs[t].at = "no" => s.trs[t] = NoTrack
      /\ \A g \in Object : s.ids[g] # 0 => s.trs[s.ids[g]].at # "no" /\ s.trs[s.ids[g]].type = NorfairType[g]
  BY DEF Books, TracksTyped
<1>3. i \in DOMAIN onOffer => onOffer[i] \in Object /\ NorfairType[onOffer[i]] = d.type
  BY DEF MatchInv, Unclaimed, OfType
<1>4. Opens(s, i) \subseteq {s} \cup {After(t, spot) : t \in Free, spot \in Spots}
  BY DEF Opens
<1>5. ASSUME NEW t \in Free, NEW spot \in Spots PROVE After(t, spot) \in Books
  <2> DEFINE new == New(spot)
             trs == [s.trs EXCEPT ![t] = new]
             bindings == Bound(t)
  <2>1. NoSpot \in Place /\ d.box \in Place /\ d.box[2] \in Int /\ d.type \in Kind BY <1>1 DEF NoSpot, Place, Look
  <2>2. spot \in Place BY <2>1
  <2> HIDE DEF d
  <2>3. new \in Track /\ new.at = "here" /\ new.type = d.type BY <2>1, <2>2 DEF Track
  <2>4. t \in TrackId /\ (s.trs[t].at = "no" \/ s.trs[t].type = d.type) BY DEF MayResume, NextTrack
  <2> HIDE DEF new
  <2>5. /\ trs \in [TrackId -> Track] /\ trs[t] = new
        /\ \A u \in TrackId : u # t => trs[u] = s.trs[u] BY <1>2, <2>3, <2>4
  <2>6. bindings \in Binding /\ \A g \in Object :
          \/ bindings[g] = s.ids[g]
          \/ bindings[g] = t /\ NorfairType[g] = d.type
    <3>1. CASE i \in DOMAIN onOffer
      <4>1. bindings = [s.ids EXCEPT ![onOffer[i]] = t] BY <3>1
      <4>2. QED BY <1>2, <1>3, <2>4, <3>1, <4>1 DEF Binding
    <3>2. CASE i \notin DOMAIN onOffer BY <1>2, <3>2
    <3>3. QED BY <3>1, <3>2
  <2> HIDE DEF trs, bindings
  <2>7. \A u \in TrackId : trs[u].at = "no" => trs[u] = NoTrack BY <1>2, <2>3, <2>5
  <2>8. ASSUME NEW g \in Object, bindings[g] # 0
        PROVE  trs[bindings[g]].at # "no" /\ trs[bindings[g]].type = NorfairType[g]
    <3>1. CASE bindings[g] = t
      <4>1. CASE bindings[g] = s.ids[g] BY <1>2, <2>3, <2>4, <2>5, <2>8, <3>1, <4>1
      <4>2. CASE NorfairType[g] = d.type BY <2>3, <2>5, <3>1, <4>2
      <4>3. QED BY <2>6, <4>1, <4>2
    <3>2. CASE bindings[g] # t BY <1>2, <2>5, <2>6, <2>8, <3>2 DEF Binding
    <3>3. QED BY <3>1, <3>2
  <2>9. TracksTyped(trs, bindings) BY <2>5, <2>6, <2>7, <2>8 DEF TracksTyped
  <2>10. [trs |-> trs, ids |-> bindings] \in Books BY <2>5, <2>6, <2>9 DEF Books
  <2>11. QED BY <2>10 DEF trs, bindings, new
<1> HIDE DEF After, Free, Spots
<1>6. QED BY <1>4, <1>5

LEMMA OpenedKeepsBooks ==
  ASSUME MatchInv, NEW trs, NEW unclaimed \in SUBSET DOMAIN detections, TracksTyped(trs, norfairIds)
  PROVE  Opened(trs, unclaimed) \subseteq Books
PROOF
<1> DEFINE N == Len(detections)
           start == [trs |-> trs, ids |-> norfairIds]
           opened[i \in 0..N] ==
             IF i = 0 THEN {start}
             ELSE IF i \notin unclaimed THEN opened[i - 1]
             ELSE UNION {Opens(s, i) : s \in opened[i - 1]}
           Step(i, x) == IF i \notin unclaimed THEN x ELSE UNION {Opens(s, i) : s \in x}
<1>1. N \in Nat /\ DOMAIN detections = 1..N BY DEF MatchInv, Unclaimed
<1>2. start \in Books BY DEF Books, TracksTyped
<1>3. Opened(trs, unclaimed) = opened[N] BY DEF Opened
<1>4. \A i \in 1..N, x \in SUBSET Books : Step(i, x) \in SUBSET Books
  BY <1>1, OpensKeepsBooks
<1>5. /\ opened[0] = {start} /\ \A i \in 1..N : opened[i] = Step(i, opened[i - 1])
  <2> DEFINE D == [p \in (1..N) \X SUBSET Books |-> Step(p[1], p[2])]
  <2>1. D \in [(1..N) \X SUBSET Books -> SUBSET Books] BY <1>4
  <2>2. PICK h \in [0..N -> SUBSET Books] : h[0] = {start} /\ \A i \in 1..N : h[i] = D[<<i, h[i - 1]>>]
    <3> DEFINE S == SUBSET Books
               base == {start}
    <3>1. base \in S BY <1>2
    <3>2. D \in [(1..N) \X S -> S] BY <2>1
    <3>3. N \in Nat BY <1>1
    <3> HIDE DEF D, N, S, base
    <3>4. Computed(S, base, N, D) # {} BY <3>1, <3>2, <3>3, StepsExist
    <3>5. QED BY <3>4 DEF S, base, Computed
  <2>3. h = [i \in 0..N |-> IF i = 0 THEN {start}
                            ELSE IF i \notin unclaimed THEN h[i - 1]
                            ELSE UNION {Opens(s, i) : s \in h[i - 1]}]
    <3>1. \A i \in 1..N : i - 1 \in 0..N /\ <<i, h[i - 1]>> \in (1..N) \X SUBSET Books BY <1>1, <2>2
    <3>5. \A p \in (1..N) \X SUBSET Books : D[p] = Step(p[1], p[2]) OBVIOUS
    <3>2. \A i \in 1..N : h[i] = Step(i, h[i - 1])
      <4> HIDE DEF D, Step, N
      <4>1. \A i \in 1..N : D[<<i, h[i - 1]>>] = Step(i, h[i - 1]) BY <3>1, <3>5
      <4>2. QED BY <2>2, <4>1
    <3>3. \A i \in 0..N : i = 0 \/ i \in 1..N BY <1>1
    <3> HIDE DEF N, start
    <3>4. QED BY <2>2, <3>2, <3>3
  <2>4. opened = [i \in 0..N |-> IF i = 0 THEN {start}
                                 ELSE IF i \notin unclaimed THEN opened[i - 1]
                                 ELSE UNION {Opens(s, i) : s \in opened[i - 1]}]
    <3> HIDE DEF N, start
    <3>1. QED BY <2>3
  <2> HIDE DEF opened
  <2>5. \A i \in 1..N : i \in 0..N /\ i # 0 BY <1>1
  <2>6. 0 \in 0..N BY <1>1
  <2> HIDE DEF N, start
  <2>7. QED BY <2>4, <2>5, <2>6
<1> HIDE DEF opened, Step, start
<1> DEFINE T == {n \in Nat : n <= N => opened[n] \in SUBSET Books}
<1>6. 0 \in T BY <1>2, <1>5
<1>7. \A n \in Nat : n \in T => n + 1 \in T
  <2> SUFFICES ASSUME NEW n \in Nat, n \in T, n + 1 <= N PROVE opened[n + 1] \in SUBSET Books
    BY DEF T
  <2>1. n + 1 \in 1..N /\ (n + 1) - 1 = n /\ opened[n] \in SUBSET Books BY <1>1
  <2>2. opened[n + 1] = Step(n + 1, opened[(n + 1) - 1]) BY <1>5, <2>1
  <2>3. QED BY <1>4, <2>1, <2>2
<1> HIDE DEF T
<1>8. N \in T BY <1>1, <1>6, <1>7, AllNumbers
<1>9. QED BY <1>1, <1>3, <1>8 DEF T

LEMMA UpdateKeeps == ASSUME MatchInv, Update PROVE MatchInv'
PROOF
<1>1. /\ UNCHANGED <<tracker, scene>> /\ detections' = <<>>
      /\ matches' = NoMatch /\ onOffer' = NoMatch
  BY DEF Update
<1> DEFINE Retained(cut) == {t \in DOMAIN matches : t \in Parked \/ matches[t] \notin cut}
           After(cut, t) == IF t \in Retained(cut) THEN Follows(t, detections[matches[t]])
                            ELSE IF t \in Here THEN Missed(t) ELSE {tracks[t]}
           Leftover(cut) == (DOMAIN detections \ Range(matches)) \ cut
<1>2. PICK cut : \E trs \in OneOfEach([t \in TrackId |-> After(cut, t)]) :
                   \E s \in Opened(trs, Leftover(cut)) : tracks' = s.trs /\ norfairIds' = s.ids
  BY DEF Update
<1>3. PICK trs \in OneOfEach([t \in TrackId |-> After(cut, t)]) :
             \E s \in Opened(trs, Leftover(cut)) : tracks' = s.trs /\ norfairIds' = s.ids
  BY <1>2
<1>4. PICK s \in Opened(trs, Leftover(cut)) : tracks' = s.trs /\ norfairIds' = s.ids BY <1>3
<1>5. tracks \in [TrackId -> Track] /\ norfairIds \in Binding /\ TracksTyped(tracks, norfairIds)
  BY DEF MatchInv, TracksTyped
<1>6. trs = [u \in TrackId |-> trs[u]] /\ \A t \in TrackId : trs[t] \in After(cut, t)
  <2> HIDE DEF After
  <2>1. QED BY DEF OneOfEach
<1>7. \A t \in Retained(cut) : t \in Here /\ detections[matches[t]] \in Look
  <2>1. \A t \in DOMAIN matches : matches[t] \in Range(matches) BY DEF Range
  <2>2. QED BY <2>1 DEF MatchInv, Unclaimed
<1>8. \A t \in TrackId : \/ SameTrack(trs[t], tracks[t]) /\ tracks[t].at = "here"
                     \/ trs[t] = tracks[t]
  <2> SUFFICES ASSUME NEW t \in TrackId
               PROVE (SameTrack(trs[t], tracks[t]) /\ tracks[t].at = "here") \/ trs[t] = tracks[t] OBVIOUS
  <2>1. trs[t] \in After(cut, t) BY <1>6
  <2>2. t \in Here => tracks[t].at = "here" BY DEF Here
  <2>3. CASE t \in Retained(cut)
    <3>1. trs[t] \in Follows(t, detections[matches[t]]) BY <2>1, <2>3
    <3>2. t \in Here /\ detections[matches[t]] \in Look BY <1>7, <2>3
    <3>3. QED BY <1>5, <2>2, <3>1, <3>2, FollowsKeepsTrack
  <2>4. CASE t \notin Retained(cut) /\ t \in Here
    <3>1. trs[t] \in Missed(t) BY <2>1, <2>4
    <3>2. QED BY <1>5, <2>2, <2>4, <3>1, MissedKeepsTrack
  <2>5. CASE t \notin Retained(cut) /\ t \notin Here BY <2>1, <2>5
  <2>6. QED BY <2>3, <2>4, <2>5
<1>9. Leftover(cut) \in SUBSET DOMAIN detections OBVIOUS
<1> HIDE DEF Retained, After, Leftover
<1>10. TracksTyped(trs, norfairIds)
  <2>1. \A t \in TrackId : trs[t] \in Track BY <1>5, <1>8 DEF SameTrack
  <2>a. [u \in TrackId |-> trs[u]] \in [TrackId -> Track] BY <2>1
  <2>2. trs \in [TrackId -> Track] BY <1>6, <2>a
  <2>3. \A t \in TrackId : trs[t].at = "no" => trs[t] = NoTrack BY <1>5, <1>8 DEF SameTrack, TracksTyped
  <2>4. \A t \in TrackId : tracks[t].at # "no" => trs[t].at # "no" /\ trs[t].type = tracks[t].type
    BY <1>8 DEF SameTrack
  <2>5. \A g \in Object : norfairIds[g] # 0 => norfairIds[g] \in TrackId BY <1>5 DEF Binding
  <2>6. QED BY <1>5, <2>2, <2>3, <2>4, <2>5 DEF TracksTyped
<1>11. s \in Books BY <1>4, <1>9, <1>10, OpenedKeepsBooks
<1>12. TracksTyped(tracks', norfairIds')
  BY <1>4, <1>11 DEF Books
<1>13. DOMAIN matches' = {} /\ DOMAIN onOffer' = {} /\ Range(matches') = {} BY <1>1 DEF NoMatch, Range
<1>14. detections' \in Seq(Look) BY <1>1
<1>15. Unclaimed' BY <1>13, <1>14 DEF Unclaimed
<1>16. MatchesAreSound' BY <1>13 DEF MatchesAreSound, OneToOne, ParkedTakesItsSpot
<1>17. tracker' \in {"norfair", "builtin"} /\ scene' \in Scenes BY <1>1 DEF MatchInv
<1>18. QED BY <1>12, <1>15, <1>16, <1>17 DEF MatchInv

LEMMA StillMatchKeeps == ASSUME MatchInv, UNCHANGED matchVars PROVE MatchInv'
PROOF BY DEF matchVars, MatchInv, TracksTyped, Unclaimed, OfType, MatchesAreSound, OneToOne,
              ParkedTakesItsSpot, Here, Parked, Where

THEOREM MatchInvariant == MatchSpec => []MatchInv
PROOF
<1>1. MatchInit => MatchInv BY MatchInitInv
<1>2. MatchInv /\ [MatchNext]_matchVars => MatchInv'
  BY MatchKeeps, UpdateKeeps, StillMatchKeeps DEF MatchNext
<1>3. QED BY <1>1, <1>2, PTL DEF MatchSpec

\* The property MatchTypeOK: what is matched is a track in view and a detection of the frame, an
\* object is bound to a track of the camera, and a track that never was has nothing.
THEOREM MatchTypeCorrect == MatchSpec => []MatchTypeOK
PROOF
<1>1. MatchInv => MatchTypeOK BY DEF MatchInv, Unclaimed, TracksTyped, Binding, MatchTypeOK
<1>2. QED BY <1>1, MatchInvariant, PTL

\* The property MatchesAreSound: whatever Norfair associates and in whichever order its objects are
\* gone through (avclient.py, _match_detections_norfair and the built-in matcher), no two tracks get
\* one detection, none gets one that is also offered as a new thing or is of another type, and a
\* parked track gets its own repeated box or one that overlaps its spot.
THEOREM MatchesSound == MatchSpec => []MatchesAreSound
PROOF
<1>1. MatchInv => MatchesAreSound BY DEF MatchInv
<1>2. QED BY <1>1, MatchInvariant, PTL

\* The property FollowedKeepsTrack: a moving track to which one object is bound gets that object's
\* box, unless it is of another size: no other object is bound to it, and a repeated box, which binds
\* its object anew, is a parked track's.
THEOREM FollowedStays == MatchSpec => FollowedKeepsTrack
PROOF
<1> DEFINE GetsIts(t, g) ==
      (detections = <<>> /\ detections' # <<>> /\ tracker = "norfair"
          /\ {h \in Object : norfairIds[h] = t} = {g}) =>
         \A i \in DOMAIN detections' :
           (associated'[i] = g /\ detections'[i].seeded = 0
              /\ ~SizeJump(SizeRef(t), detections'[i].box)) =>
             (t \in DOMAIN matches' /\ matches'[t] = i)
<1>1. ASSUME MatchInv, [MatchNext]_matchVars, NEW t \in Moving, NEW g \in Object PROVE GetsIts(t, g)
  <2> SUFFICES ASSUME detections = <<>>, detections' # <<>>, tracker = "norfair",
                      {h \in Object : norfairIds[h] = t} = {g}, NEW i \in DOMAIN detections',
                      associated'[i] = g, detections'[i].seeded = 0,
                      ~SizeJump(SizeRef(t), detections'[i].box)
               PROVE  t \in DOMAIN matches' /\ matches'[t] = i
    OBVIOUS
  <2>1. Match BY <1>1 DEF MatchNext, Update, matchVars
  <2>2. PICK dets \in Looks : detections' = dets /\ NorfairMatch(dets) BY <2>1 DEF Match
  <2>3. PICK assoc \in Associations(dets) :
          \E s \in Followed(dets, assoc, Seeded(dets), Rebound(Live, Seeded(dets), assoc)) :
            \E r \in Rests(dets, s.m, Parked) : matches' = Matches3(s.m, r) /\ associated' = assoc
    BY <2>2 DEF NorfairMatch, Live, Matches3
  <2>4. PICK s \in Followed(dets, assoc, Seeded(dets), Rebound(Live, Seeded(dets), assoc)) :
          \E r \in Rests(dets, s.m, Parked) : matches' = Matches3(s.m, r) /\ associated' = assoc
    BY <2>3
  <2>5. PICK r \in Rests(dets, s.m, Parked) : matches' = Matches3(s.m, r) /\ associated' = assoc
    BY <2>4
  <2> DEFINE first == Seeded(dets)
             bindings == Rebound(Live, first, assoc)
  <2>6. t \in Here /\ t \notin Parked /\ t # 0 BY DEF Moving, Here, TrackId
  <2>7. /\ DOMAIN first \subseteq Parked /\ DOMAIN first \subseteq TrackId
        /\ \A u \in DOMAIN first : first[u] \in DOMAIN dets /\ dets[first[u]].seeded = u /\ u # 0
    BY <1>1, SeededFacts DEF Parked, Here, TrackId
  <2>8. i \in DOMAIN dets /\ assoc[i] = g /\ g # 0 /\ dets[i].seeded = 0
    BY <2>2, <2>5, MatchingAssumption DEF Object
  <2>9. \A j \in DOMAIN dets : assoc[j] = g => j = i BY <2>8 DEF Associations
  <2>10. i \notin Range(first) BY <2>7, <2>8 DEF Range
  <2>11. \A u \in DOMAIN first : assoc[first[u]] # g
    BY <2>7, <2>8, <2>9
  <2>12. \A h \in Object : \/ bindings[h] = Live[h]
                           \/ \E u \in DOMAIN first : bindings[h] = u /\ assoc[first[u]] = h
    BY <1>1, <2>7, LiveFacts, ReboundFacts
  <2>13. bindings \in Binding BY <1>1, <2>7, LiveFacts, ReboundFacts
  <2>14. Live[g] = t BY <2>6 DEF Live
  <2>15. bindings[g] = t BY <2>11, <2>12, <2>14
  <2>16. \A h \in Object : bindings[h] = t => h = g
    BY <1>1, <2>6, <2>7, <2>12, LiveFacts
  <2> HIDE DEF first, bindings
  <2>17. t \notin DOMAIN first BY <2>6, <2>7
  <2>18. i \in Due(dets, assoc, first, bindings) BY <2>6, <2>8, <2>10, <2>15, <2>17 DEF Due
  <2>19. ~Refuses(t, dets[i].box) BY <2>2, <2>6 DEF Refuses
  <2>20. s \in Followed(dets, assoc, first, bindings) BY DEF first, bindings
  <2>21. t \in DOMAIN s.m BY <2>8, <2>13, <2>15, <2>18, <2>19, <2>20, FollowedFacts
  <2>22. s.m[t] \in Due(dets, assoc, first, bindings) /\ bindings[assoc[s.m[t]]] = t
    BY <2>13, <2>17, <2>20, <2>21, FollowedFacts
  <2>23. s.m[t] \in DOMAIN dets /\ assoc[s.m[t]] \in Object
    BY <2>22 DEF Due, Associations
  <2>24. s.m[t] = i BY <2>9, <2>16, <2>22, <2>23
  <2>25. t \notin DOMAIN r BY <2>21, RestsFacts
  <2>26. QED BY <2>5, <2>21, <2>24, <2>25 DEF Matches3
<1>2. MatchInv /\ [MatchNext]_matchVars => [\A t \in Moving, g \in Object : GetsIts(t, g)]_matchVars
  BY <1>1
<1>3. QED BY <1>2, MatchInvariant, PTL DEF MatchSpec, FollowedKeepsTrack

-----------------------------------------------------------------------------
(* Zones                                                                   *)

LEMMA AppendsOne == ASSUME NEW S, NEW q \in Seq(S), NEW z \in S PROVE Range(Append(q, z)) = Range(q) \cup {z}
PROOF
<1> DEFINE n == Len(q)
           r == Append(q, z)
<1>1. n \in Nat /\ DOMAIN q = 1..n /\ DOMAIN r = 1..(n + 1) OBVIOUS
<1>2. \A i \in 1..n : r[i] = q[i] OBVIOUS
<1>3. r[n + 1] = z OBVIOUS
<1> HIDE DEF n, r
<1>4. \A i \in 1..(n + 1) : i \in 1..n \/ i = n + 1 BY <1>1
<1>5. \A i \in 1..n : i \in 1..(n + 1) BY <1>1
<1>6. n + 1 \in 1..(n + 1) BY <1>1
<1>7. Range(r) = Range(q) \cup {z} BY <1>1, <1>2, <1>3, <1>4, <1>5, <1>6 DEF Range
<1>8. QED BY <1>7 DEF r

\* The zones taken from a message are those that are zones, in order.
LEMMA TakenFacts ==
  ASSUME NEW zs \in Seq(Zone)
  PROVE  Taken(zs) \in Seq(Zone) /\ Range(Taken(zs)) = {z \in Range(zs) : IsZone(z)}
PROOF
<1> DEFINE N == Len(zs)
           taken[i \in 0..N] ==
             IF i = 0 THEN <<>>
             ELSE IF IsZone(zs[i]) THEN Append(taken[i - 1], zs[i]) ELSE taken[i - 1]
           Step(i, x) == IF IsZone(zs[i]) THEN Append(x, zs[i]) ELSE x
           S == Seq(Zone)
           D == [p \in (1..N) \X S |-> Step(p[1], p[2])]
<1>1. N \in Nat /\ DOMAIN zs = 1..N /\ \A i \in 1..N : zs[i] \in Zone OBVIOUS
<1>2. Taken(zs) = taken[N] BY DEF Taken
<1>3. \A i \in 1..N, x \in S : Step(i, x) \in S BY <1>1
<1>4. D \in [(1..N) \X S -> S] BY <1>3
<1>5. <<>> \in S OBVIOUS
<1>6. PICK h \in Computed(S, <<>>, N, D) : TRUE
  <2> HIDE DEF D, N, S
  <2>1. QED BY <1>1, <1>4, <1>5, StepsExist
<1>7. h \in [0..N -> S] /\ h[0] = <<>> /\ \A i \in 1..N : h[i] = D[<<i, h[i - 1]>>]
  BY <1>6 DEF Computed
<1>8. \A i \in 1..N : h[i] = Step(i, h[i - 1])
  <2>a. \A i \in 1..N : i - 1 \in 0..N
    <3> HIDE DEF N
    <3>1. QED BY <1>1
  <2>b. \A i \in 1..N : h[i - 1] \in S
    <3> HIDE DEF N, S, D
    <3>1. QED BY <1>7, <2>a
  <2>1. \A i \in 1..N : <<i, h[i - 1]>> \in (1..N) \X S
    <3> HIDE DEF N, S, D
    <3>1. QED BY <2>b
  <2>2. \A p \in (1..N) \X S : D[p] = Step(p[1], p[2]) OBVIOUS
  <2> HIDE DEF D, Step, N, S
  <2>3. \A i \in 1..N : D[<<i, h[i - 1]>>] = Step(i, h[i - 1]) BY <2>1, <2>2
  <2>4. QED BY <1>7, <2>3
<1>9. h = [i \in 0..N |-> IF i = 0 THEN <<>>
                          ELSE IF IsZone(zs[i]) THEN Append(h[i - 1], zs[i]) ELSE h[i - 1]]
  <2>1. \A i \in 0..N : i = 0 \/ i \in 1..N BY <1>1
  <2> HIDE DEF N
  <2>2. QED BY <1>7, <1>8, <2>1
<1>10. taken = [i \in 0..N |-> IF i = 0 THEN <<>>
                               ELSE IF IsZone(zs[i]) THEN Append(taken[i - 1], zs[i]) ELSE taken[i - 1]]
  <2> HIDE DEF N
  <2>1. QED BY <1>9
<1> HIDE DEF taken, D, N
<1>11. taken[0] = <<>> /\ \A i \in 1..N : taken[i] = Step(i, taken[i - 1])
  <2>1. 0 \in 0..N /\ \A i \in 1..N : i \in 0..N /\ i # 0 BY <1>1
  <2>2. QED BY <1>10, <2>1
<1> DEFINE Zs(n) == {zs[i] : i \in {j \in 1..n : IsZone(zs[j])}}
           T == {n \in Nat : n <= N => taken[n] \in S /\ Range(taken[n]) = Zs(n)}
<1>12. 0 \in T
  <2>1. Range(<<>>) = {} BY DEF Range
  <2>2. Zs(0) = {} OBVIOUS
  <2> HIDE DEF Zs, S
  <2>3. QED BY <1>5, <1>11, <2>1, <2>2
<1>13. ASSUME NEW n \in Nat, n \in T, n + 1 <= N PROVE n + 1 \in T
  <2>1. n + 1 \in 1..N /\ (n + 1) - 1 = n
    <3> HIDE DEF T, S
    <3>1. QED BY <1>1, <1>13
  <2>2. taken[n] \in S /\ Range(taken[n]) = Zs(n) BY <1>1, <1>13
  <2>3. taken[n + 1] = Step(n + 1, taken[n]) BY <1>11, <2>1
  <2>4. taken[n + 1] \in S BY <1>3, <2>1, <2>2, <2>3
  <2>5. Range(taken[n + 1]) = Zs(n + 1)
    <3>1. CASE IsZone(zs[n + 1])
      <4>1. taken[n + 1] = Append(taken[n], zs[n + 1]) BY <2>3, <3>1
      <4>2. Range(taken[n + 1]) = Range(taken[n]) \cup {zs[n + 1]}
        <5> HIDE DEF T, Zs
        <5>1. zs[n + 1] \in Zone BY <1>1, <2>1
        <5>2. QED BY <2>2, <4>1, <5>1, AppendsOne
      <4>3. {j \in 1..(n + 1) : IsZone(zs[j])} = {j \in 1..n : IsZone(zs[j])} \cup {n + 1} BY <3>1
      <4>4. QED BY <2>2, <4>2, <4>3
    <3>2. CASE ~IsZone(zs[n + 1])
      <4>1. {j \in 1..(n + 1) : IsZone(zs[j])} = {j \in 1..n : IsZone(zs[j])} BY <3>2
      <4>2. QED BY <2>2, <2>3, <3>2, <4>1
    <3>3. QED BY <3>1, <3>2
  <2>6. QED BY <2>4, <2>5
<1>a. \A n \in Nat : n \in T <=> (n <= N => taken[n] \in S /\ Range(taken[n]) = Zs(n)) OBVIOUS
<1>14. \A n \in Nat : n \in T => n + 1 \in T
  <2> HIDE DEF T
  <2>1. QED BY <1>1, <1>13, <1>a
<1> HIDE DEF T
<1>15. N \in T BY <1>1, <1>12, <1>14, AllNumbers
<1>b. {zs[i] : i \in {j \in 1..N : IsZone(zs[j])}} = {z \in Range(zs) : IsZone(z)} BY <1>1 DEF Range
<1>16. QED BY <1>1, <1>2, <1>15, <1>b DEF T

\* The receiver is idle, or in the message last told; what it has set of it is in the tables, and
\* all of it when it rests and no message raised.
InMessage == receiver = NoMessage \/ receiver = [at |-> receiver.at, zones |-> told]
AtRest == receiver = NoMessage /\ ~torn
TablesAsTold ==
  /\ AtRest \/ receiver.at \in {"types", "ids"} => polygons = Of(told, "coord")
  /\ AtRest \/ receiver.at = "ids" => types = Of(told, "types")
  /\ AtRest => ids = Of(told, "id")

\* A lookup that no change crossed has read what is in the tables.
LookupForm == lookup = [at |-> lookup.at, foot |-> lookup.foot, polygons |-> lookup.polygons,
                        types |-> lookup.types, ids |-> lookup.ids, inZone |-> lookup.inZone]
ReadAsIs ==
  lookup.at # "begin" /\ ~crossed =>
    /\ lookup.polygons = polygons
    /\ polygons = <<>> => /\ lookup.at \in {"found", "done"}
                          /\ lookup.types = <<>> /\ lookup.ids = <<>>
    /\ polygons # <<>> /\ lookup.at \in {"ids", "found", "done"} => lookup.types = types
    /\ polygons # <<>> /\ lookup.at \in {"found", "done"} => lookup.ids = ids
    /\ lookup.at = "done" => lookup.inZone = (ZonesOf(lookup) # {} \/ polygons = <<>>)

ZoneInv ==
  /\ told \in Seq(Zone) /\ torn \in BOOLEAN /\ crossed \in BOOLEAN
  /\ receiver.at \in {"idle", "polygons", "types", "ids"} /\ InMessage
  /\ lookup.at \in {"begin", "types", "ids", "found", "done"} /\ LookupForm
  /\ lookup.inZone \in BOOLEAN
  /\ TablesAsTold /\ ReadAsIs

LEMMA OfNone == \A f : Of(<<>>, f) = <<>>
PROOF
<1>1. <<>> \in Seq(Zone) OBVIOUS
<1>a. Range(<<>>) = {} BY DEF Range
<1>2. Range(Taken(<<>>)) = {} BY <1>1, <1>a, TakenFacts
<1>3. DOMAIN Taken(<<>>) = {} BY <1>2 DEF Range
<1>4. QED BY <1>3 DEF Of

LEMMA ZoneInitInv == ZonesInit => ZoneInv
PROOF
<1> SUFFICES ASSUME ZonesInit PROVE ZoneInv OBVIOUS
<1> USE DEF ZonesInit
<1>1. LookupForm /\ lookup.at = "begin" /\ lookup.inZone = FALSE BY DEF NoLookup, LookupForm
<1>2. receiver.at = "idle" BY DEF NoMessage
<1>3. TablesAsTold BY <1>2, OfNone DEF TablesAsTold
<1>4. <<>> \in Seq(Zone) OBVIOUS
<1>5. QED BY <1>1, <1>2, <1>3, <1>4 DEF ZoneInv, InMessage, ReadAsIs

\* The tables change: the lookup is crossed.
LEMMA ReceiverStep ==
  ASSUME ZoneInv,
         \/ \E zones \in Settings : Message(zones)
         \/ SetsPolygons \/ SetsTypes \/ SetsIds \/ ClearsZones
  PROVE  ZoneInv'
PROOF
<1> USE DEF ZoneInv
<1>1. CASE \E zones \in Settings : Message(zones)
  <2>1. PICK zones \in Settings : Message(zones) BY <1>1
  <2>2. /\ UNCHANGED <<polygons, types, ids, torn, lookup, crossed>> /\ receiver = NoMessage
        /\ \/ UNCHANGED <<receiver, told>>
           \/ zones # Omitted /\ receiver' = [at |-> "polygons", zones |-> zones] /\ told' = zones
    BY <2>1 DEF Message
  <2>3. zones # Omitted => zones \in Seq(Zone) BY SettingsAssumption
  <2>4. ReadAsIs' /\ LookupForm' BY <2>2 DEF ReadAsIs, LookupForm
  <2>5. CASE UNCHANGED <<receiver, told>>
    BY <2>2, <2>4, <2>5 DEF InMessage, TablesAsTold, AtRest
  <2>6. CASE zones # Omitted /\ receiver' = [at |-> "polygons", zones |-> zones] /\ told' = zones
    <3>1. receiver'.at = "polygons" /\ receiver' # NoMessage /\ InMessage'
      BY <2>6 DEF NoMessage, InMessage
    <3>2. TablesAsTold' BY <3>1 DEF TablesAsTold, AtRest
    <3>3. QED BY <2>2, <2>3, <2>4, <2>6, <3>1, <3>2
  <2>7. QED BY <2>2, <2>5, <2>6
<1>2. CASE SetsPolygons
  <2>1. receiver.at = "polygons" /\ receiver = [at |-> "polygons", zones |-> told]
    BY <1>2 DEF SetsPolygons, InMessage, NoMessage
  <2>2. /\ polygons' = Of(told, "coord") /\ crossed' = TRUE /\ UNCHANGED <<types, ids, told, lookup>>
        /\ \/ receiver' = NoMessage /\ torn' = TRUE
           \/ receiver' = [at |-> "types", zones |-> told] /\ torn' = torn
    BY <1>2, <2>1 DEF SetsPolygons
  <2>3. ReadAsIs' /\ LookupForm' BY <2>2 DEF ReadAsIs, LookupForm
  <2>4. InMessage' /\ receiver'.at \in {"idle", "types"} BY <2>2 DEF InMessage, NoMessage
  <2>5. TablesAsTold' BY <2>2 DEF TablesAsTold, AtRest, NoMessage
  <2>6. QED BY <2>2, <2>3, <2>4, <2>5
<1>3. CASE SetsTypes
  <2>1. receiver.at = "types" /\ receiver = [at |-> "types", zones |-> told]
    BY <1>3 DEF SetsTypes, InMessage, NoMessage
  <2>2. /\ types' = Of(told, "types") /\ crossed' = TRUE /\ UNCHANGED <<polygons, ids, told, torn, lookup>>
        /\ receiver' = [at |-> "ids", zones |-> told]
    BY <1>3, <2>1 DEF SetsTypes
  <2>3. ReadAsIs' /\ LookupForm' BY <2>2 DEF ReadAsIs, LookupForm
  <2>4. InMessage' /\ receiver'.at = "ids" BY <2>2 DEF InMessage, NoMessage
  <2>5. TablesAsTold' BY <2>1, <2>2 DEF TablesAsTold, AtRest, NoMessage
  <2>6. QED BY <2>2, <2>3, <2>4, <2>5
<1>4. CASE SetsIds
  <2>1. receiver.at = "ids" /\ receiver = [at |-> "ids", zones |-> told]
    BY <1>4 DEF SetsIds, InMessage, NoMessage
  <2>2. /\ ids' = Of(told, "id") /\ crossed' = TRUE /\ UNCHANGED <<polygons, types, told, lookup>>
        /\ receiver' = NoMessage /\ torn' = FALSE
    BY <1>4, <2>1 DEF SetsIds
  <2>3. ReadAsIs' /\ LookupForm' BY <2>2 DEF ReadAsIs, LookupForm
  <2>4. InMessage' /\ receiver'.at = "idle" BY <2>2 DEF InMessage, NoMessage
  <2>5. TablesAsTold' BY <2>1, <2>2 DEF TablesAsTold, AtRest, NoMessage
  <2>6. QED BY <2>2, <2>3, <2>4, <2>5
<1>5. CASE ClearsZones
  <2>1. /\ receiver = NoMessage /\ polygons' = <<>> /\ types' = <<>> /\ ids' = <<>>
        /\ told' = <<>> /\ torn' = FALSE /\ crossed' = TRUE /\ UNCHANGED <<receiver, lookup>>
    BY <1>5 DEF ClearsZones
  <2>2. ReadAsIs' /\ LookupForm' BY <2>1 DEF ReadAsIs, LookupForm
  <2>3. InMessage' BY <2>1 DEF InMessage
  <2>4. TablesAsTold' BY <2>1, OfNone DEF TablesAsTold
  <2>5. <<>> \in Seq(Zone) OBVIOUS
  <2>6. QED BY <2>1, <2>2, <2>3, <2>4, <2>5
<1>6. QED BY <1>1, <1>2, <1>3, <1>4, <1>5

LEMMA LookupStep ==
  ASSUME ZoneInv, (\E foot \in Foot : LooksUp(foot)) \/ ReadsTypes \/ ReadsIds \/ Decides
  PROVE  ZoneInv'
PROOF
<1> USE DEF ZoneInv
<1>1. UNCHANGED <<polygons, types, ids, receiver, told, torn>>
  BY DEF LooksUp, ReadsTypes, ReadsIds, Decides
<1>2. InMessage' /\ TablesAsTold' BY <1>1 DEF InMessage, TablesAsTold, AtRest
<1>3. CASE \E foot \in Foot : LooksUp(foot)
  <2>1. PICK foot \in Foot : LooksUp(foot) BY <1>3
  <2> DEFINE begun == IF polygons = <<>> THEN "found" ELSE "types"
  <2>2. /\ lookup' = [at |-> begun, foot |-> foot, polygons |-> polygons, types |-> <<>>, ids |-> <<>>,
                      inZone |-> FALSE]
        /\ crossed' = FALSE
    BY <2>1 DEF LooksUp, NoLookup
  <2>3. /\ LookupForm' /\ lookup'.at = begun /\ lookup'.polygons = polygons /\ lookup'.inZone = FALSE
        /\ lookup'.types = <<>> /\ lookup'.ids = <<>>
    BY <2>2 DEF LookupForm
  <2>4. ReadAsIs' BY <1>1, <2>3 DEF ReadAsIs
  <2>5. QED BY <1>1, <1>2, <2>2, <2>3, <2>4
<1>4. CASE ReadsTypes
  <2>1. /\ lookup.at = "types" /\ lookup' = [lookup EXCEPT !.at = "ids", !.types = types]
        /\ crossed' = crossed
    BY <1>4 DEF ReadsTypes
  <2>2. lookup' = [at |-> "ids", foot |-> lookup.foot, polygons |-> lookup.polygons,
                   types |-> types, ids |-> lookup.ids, inZone |-> lookup.inZone]
    BY <2>1 DEF LookupForm
  <2>3. /\ LookupForm' /\ lookup'.at = "ids" /\ lookup'.polygons = lookup.polygons
        /\ lookup'.types = types /\ lookup'.inZone = lookup.inZone
    BY <2>2 DEF LookupForm
  <2>4. ReadAsIs' BY <1>1, <2>1, <2>3 DEF ReadAsIs
  <2>5. QED BY <1>1, <1>2, <2>1, <2>3, <2>4
<1>5. CASE ReadsIds
  <2>1. /\ lookup.at = "ids" /\ lookup' = [lookup EXCEPT !.at = "found", !.ids = ids]
        /\ crossed' = crossed
    BY <1>5 DEF ReadsIds
  <2>2. lookup' = [at |-> "found", foot |-> lookup.foot, polygons |-> lookup.polygons,
                   types |-> lookup.types, ids |-> ids, inZone |-> lookup.inZone]
    BY <2>1 DEF LookupForm
  <2>3. /\ LookupForm' /\ lookup'.at = "found" /\ lookup'.polygons = lookup.polygons
        /\ lookup'.types = lookup.types /\ lookup'.ids = ids /\ lookup'.inZone = lookup.inZone
    BY <2>2 DEF LookupForm
  <2>4. ReadAsIs' BY <1>1, <2>1, <2>3 DEF ReadAsIs
  <2>5. QED BY <1>1, <1>2, <2>1, <2>3, <2>4
<1>6. CASE Decides
  <2> DEFINE in == ZonesOf(lookup) # {} \/ polygons = <<>>
  <2>1. /\ lookup.at = "found" /\ lookup' = [lookup EXCEPT !.at = "done", !.inZone = in]
        /\ crossed' = crossed
    BY <1>6 DEF Decides
  <2>2. in \in BOOLEAN OBVIOUS
  <2> HIDE DEF in
  <2>3. lookup' = [at |-> "done", foot |-> lookup.foot, polygons |-> lookup.polygons,
                   types |-> lookup.types, ids |-> lookup.ids, inZone |-> in]
    BY <2>1 DEF LookupForm
  <2>4. /\ LookupForm' /\ lookup'.at = "done" /\ lookup'.polygons = lookup.polygons
        /\ lookup'.types = lookup.types /\ lookup'.ids = lookup.ids /\ lookup'.inZone = in
        /\ lookup'.foot = lookup.foot
    BY <2>2, <2>3 DEF LookupForm
  <2>5. ZonesOf(lookup') = ZonesOf(lookup) BY <2>4 DEF ZonesOf, Ids, Types, Zipped
  <2>6. lookup'.inZone = (ZonesOf(lookup') # {} \/ polygons = <<>>)
    BY <2>4, <2>5 DEF in
  <2>7. ReadAsIs' BY <1>1, <2>1, <2>4, <2>6 DEF ReadAsIs
  <2>8. QED BY <1>1, <1>2, <2>1, <2>2, <2>4, <2>7
<1>7. QED BY <1>3, <1>4, <1>5, <1>6

LEMMA StillZones == ASSUME ZoneInv, UNCHANGED zoneVars PROVE ZoneInv'
PROOF BY DEF zoneVars, ZoneInv, InMessage, TablesAsTold, AtRest, LookupForm, ReadAsIs

THEOREM ZoneInvariant == ZonesSpec => []ZoneInv
PROOF
<1>1. ZonesInit => ZoneInv BY ZoneInitInv
<1>2. ZoneInv /\ [ZonesNext]_zoneVars => ZoneInv'
  BY ReceiverStep, LookupStep, StillZones DEF ZonesNext
<1>3. QED BY <1>1, <1>2, PTL DEF ZonesSpec

LEMMA NothingInNone ==
  ASSUME NEW k, k.polygons = <<>>, k.types = <<>>, k.ids = <<>> PROVE ZonesOf(k) = {}
PROOF
<1>1. Len(<<>>) = 0 /\ DOMAIN <<>> = {} OBVIOUS
<1>2. Types(k) = <<>> BY <1>1 DEF Types
<1>3. Max({0, 0}) = 0 /\ Min({0, 0, 0}) = 0 BY DEF Max, Min
<1>4. Ids(k) = <<>> BY <1>1, <1>3 DEF Ids
<1>5. Zipped(k) = 1..0 BY <1>1, <1>2, <1>3, <1>4 DEF Zipped
<1>6. QED BY <1>5 DEF ZonesOf

\* What a lookup finds in tables that are of one message.
LEMMA FoundAsTold ==
  ASSUME NEW zs \in Seq(Zone), NEW k,
         k.polygons = Of(zs, "coord"),
         k.polygons # <<>> => k.types = Of(zs, "types") /\ k.ids = Of(zs, "id")
  PROVE  /\ (k.polygons = <<>>) <=> \A z \in Range(zs) : ~IsZone(z)
         /\ k.polygons # <<>> =>
              ZonesOf(k) = {z.id : z \in {y \in Range(zs) :
                 IsZone(y) /\ ZoneAllows(y.types) /\ PointInPolygon(k.foot[1], k.foot[2], y.coord)}}
PROOF
<1> DEFINE T == Taken(zs)
           n == Len(T)
           In(i) == ZoneAllows(T[i].types) /\ PointInPolygon(k.foot[1], k.foot[2], T[i].coord)
<1>1. T \in Seq(Zone) /\ Range(T) = {z \in Range(zs) : IsZone(z)} BY TakenFacts
<1>2. n \in Nat /\ DOMAIN T = 1..n BY <1>1
<1>3. \A f : Of(zs, f) = [i \in DOMAIN T |-> T[i][f]] BY DEF Of
<1> HIDE DEF T, n
<1>4. k.polygons = [i \in 1..n |-> T[i].coord] BY <1>2, <1>3
<1>5. Len(k.polygons) = n BY <1>2, <1>4
<1>6. (k.polygons = <<>>) <=> n = 0 BY <1>2, <1>4, <1>5
<1>7. n = 0 <=> Range(T) = {}
  <2>1. n # 0 => 1 \in DOMAIN T BY <1>2
  <2>2. n = 0 => DOMAIN T = {} BY <1>2
  <2>3. QED BY <2>1, <2>2 DEF Range
<1>8. (k.polygons = <<>>) <=> \A z \in Range(zs) : ~IsZone(z) BY <1>1, <1>6, <1>7
<1>9. ASSUME k.polygons # <<>>
      PROVE  ZonesOf(k) = {z.id : z \in {y \in Range(zs) :
               IsZone(y) /\ ZoneAllows(y.types) /\ PointInPolygon(k.foot[1], k.foot[2], y.coord)}}
  <2>1. n # 0 BY <1>6, <1>9
  <2>2. k.types = [i \in 1..n |-> T[i].types] /\ k.ids = [i \in 1..n |-> T[i].id] BY <1>2, <1>3, <1>9
  <2>3. Len(k.types) = n /\ Len(k.ids) = n /\ k.types # <<>> BY <1>2, <2>1, <2>2
  <2>4. Types(k) = k.types BY <2>3 DEF Types
  <2>5. Max({Len(k.polygons), Len(k.ids)}) = n BY <1>2, <1>5, <2>3 DEF Max
  <2>a. \A i \in 1..n : i <= Len(k.ids) /\ k.ids[i] = T[i].id BY <1>2, <2>2, <2>3
  <2>6. Ids(k) = [i \in 1..n |-> T[i].id] BY <2>5, <2>a DEF Ids
  <2>7. Len(Ids(k)) = n BY <1>2, <2>6
  <2>8. Zipped(k) = 1..n BY <1>2, <1>5, <2>3, <2>4, <2>7 DEF Zipped, Min
  <2>9. \A i \in 1..n : Ids(k)[i] = T[i].id /\ Types(k)[i] = T[i].types /\ k.polygons[i] = T[i].coord
    <3>1. \A i \in 1..n : Ids(k)[i] = T[i].id BY <2>6
    <3>2. \A i \in 1..n : Types(k)[i] = T[i].types BY <2>2, <2>4
    <3>3. \A i \in 1..n : k.polygons[i] = T[i].coord BY <1>4
    <3>4. QED BY <3>1, <3>2, <3>3
  <2>10. ZonesOf(k) = {T[i].id : i \in {j \in 1..n : In(j)}} BY <2>8, <2>9 DEF ZonesOf
  <2>11. {y \in Range(zs) : IsZone(y) /\ ZoneAllows(y.types)
                           /\ PointInPolygon(k.foot[1], k.foot[2], y.coord)}
           = {T[i] : i \in {j \in 1..n : In(j)}}
    BY <1>1, <1>2 DEF Range
  <2> HIDE DEF In
  <2>12. QED BY <2>10, <2>11
<1>10. QED BY <1>8, <1>9

\* The property ZonesAreAsDrawn: whichever steps of the receiver and of the tick follow each other,
\* a lookup that no change of the three tables crossed finds the zones last sent that list the type
\* of the detection and hold its foot, and no others (avclient.py, ChangeSmartDetectSettings and
\* _zones_of): tables that were filled one after another are never told apart.
THEOREM ZonesDrawn == ZonesSpec => []ZonesAreAsDrawn
PROOF
<1>1. ASSUME ZoneInv PROVE ZonesAreAsDrawn
  <2> USE <1>1 DEF ZoneInv
  <2> SUFFICES ASSUME lookup.at = "done", ~crossed, ~torn, receiver = NoMessage
               PROVE LET holding == {z \in Range(told) : InTheZone(z)} IN
                     /\ ZonesOf(lookup) = {z.id : z \in holding}
                     /\ lookup.inZone = (holding # {} \/ \A z \in Range(told) : ~IsZone(z))
    BY DEF ZonesAreAsDrawn
  <2> DEFINE holding == {z \in Range(told) : InTheZone(z)}
  <2>1. polygons = Of(told, "coord") /\ types = Of(told, "types") /\ ids = Of(told, "id")
    BY DEF TablesAsTold, AtRest
  <2>2. /\ lookup.polygons = polygons
        /\ polygons # <<>> => lookup.types = types /\ lookup.ids = ids
        /\ lookup.inZone = (ZonesOf(lookup) # {} \/ polygons = <<>>)
    BY DEF ReadAsIs
  <2>3. /\ (polygons = <<>>) <=> \A z \in Range(told) : ~IsZone(z)
        /\ polygons # <<>> => ZonesOf(lookup) = {z.id : z \in holding}
    BY <2>1, <2>2, FoundAsTold DEF InTheZone
  <2>4. polygons = <<>> => holding = {} BY <2>3 DEF InTheZone
  <2>5. polygons = <<>> => ZonesOf(lookup) = {} BY <2>2, NothingInNone DEF ReadAsIs
  <2>6. ZonesOf(lookup) = {z.id : z \in holding} BY <2>3, <2>4, <2>5
  <2>7. holding # {} <=> ZonesOf(lookup) # {} BY <2>6
  <2> HIDE DEF holding
  <2>8. QED BY <2>2, <2>3, <2>6, <2>7 DEF holding
<1>2. QED BY <1>1, ZoneInvariant, PTL

-----------------------------------------------------------------------------
(* Faces and their people                                                  *)

\* A face that a person has is linked with them, or came to be linked with another.
FacesOwned ==
  \A p \in Person : faceTid[p] # NoneYet => personTid[faceTid[p]] = p \/ faceTid[p] \in strayed

LinkInv == LinksTypeOK /\ FacesOwned

LEMMA LinksInitInv == LinksInit => LinkInv
PROOF BY DEF LinksInit, LinkInv, LinksTypeOK, FacesOwned

LEMMA LinksStepInv == ASSUME LinkInv, FacesTick PROVE LinkInv'
PROOF
<1> DEFINE Stepped(people, faces) ==
             at' = [t \in Person \cup Face |-> IF t \in Person THEN people[t] ELSE faces[t]]
<1>1. LinksTypeOK /\ FacesOwned BY DEF LinkInv
<1>2. LinkFaces BY DEF FacesTick
<1>3. at' \in [Person \cup Face -> {"new", "here", "recent", "gone"}]
  <2>1. \E people \in PeopleSteps : \E given, opened, attended :
          \E faces \in FaceSteps(given, opened, attended) : Stepped(people, faces)
    BY DEF FacesTick
  <2>a. PICK people \in PeopleSteps : \E given, opened, attended :
          \E faces \in FaceSteps(given, opened, attended) : Stepped(people, faces)
    BY <2>1
  <2>b. PICK given, opened, attended :
          \E faces \in FaceSteps(given, opened, attended) : Stepped(people, faces)
    BY <2>a
  <2>2. PICK faces \in FaceSteps(given, opened, attended) : Stepped(people, faces)
    BY <2>b
  <2>3. DOMAIN PersonStep = {"new", "here", "recent", "gone"} BY DEF PersonStep
  <2>4. /\ people \in [Person -> {"new", "here", "recent", "gone"}]
        /\ faces \in [Face -> {"new", "here", "recent", "gone"}]
    BY <2>3 DEF PeopleSteps, FaceSteps
  <2> DEFINE S == {"new", "here", "recent", "gone"}
  <2>6. \A x \in Person \cup Face : (IF x \in Person THEN people[x] ELSE faces[x]) \in S BY <2>4
  <2>7. QED BY <2>2, <2>6
<1>4. /\ personTid' \in [Face -> Person \cup {NoneYet}] /\ faceTid' \in [Person -> Face \cup {NoneYet}]
      /\ strayed' = strayed \cup {f \in Face : personTid[f] \notin {NoneYet, personTid'[f]}}
  BY <1>2 DEF LinkFaces
<1>5. \A p \in Person : \/ faceTid'[p] \in Face /\ personTid'[faceTid'[p]] = p
                        \/ faceTid'[p] = faceTid[p]
  BY <1>2 DEF LinkFaces
<1>6. LinksTypeOK' BY <1>1, <1>3, <1>4 DEF LinksTypeOK
<1>7. ASSUME NEW p \in Person, faceTid'[p] # NoneYet
      PROVE  personTid'[faceTid'[p]] = p \/ faceTid'[p] \in strayed'
  <2>1. CASE personTid'[faceTid'[p]] = p BY <2>1
  <2>2. CASE faceTid'[p] = faceTid[p]
    <3>1. faceTid[p] \in Face BY <1>1, <1>7, <2>2 DEF LinksTypeOK
    <3>2. personTid[faceTid[p]] = p \/ faceTid[p] \in strayed BY <1>1, <1>7, <2>2 DEF FacesOwned
    <3>3. p # NoneYet BY LinksAssumption
    <3>4. QED BY <1>4, <2>2, <3>1, <3>2, <3>3
  <2>3. QED BY <1>5, <2>1, <2>2
<1>8. QED BY <1>6, <1>7 DEF LinkInv, FacesOwned

THEOREM LinksInvariant == LinksSpec => []LinkInv
PROOF
<1>1. LinksInit => LinkInv BY LinksInitInv
<1>2. LinkInv /\ [LinksNext]_linkVars => LinkInv'
  <2>1. LinkInv /\ UNCHANGED linkVars => LinkInv' BY DEF linkVars, LinkInv, LinksTypeOK, FacesOwned
  <2>2. QED BY <2>1, LinksStepInv DEF LinksNext
<1>3. QED BY <1>1, <1>2, PTL DEF LinksSpec

\* The faces found of a tick: whose each is, whether it is one of a face that was found before, and
\* the face track its person has.
OwnerOf(found, moving, i) == FaceOwner(found[i], moving)
Second(found, moving, i) ==
  found[i].twin \/ \E j \in 1..(i - 1) :
     /\ OwnerOf(found, moving, i) = OwnerOf(found, moving, j) /\ OwnerOf(found, moving, i) # NoneYet
     /\ ~found[j].twin
OwnFace(found, moving, i) ==
  IF OwnerOf(found, moving, i) = NoneYet THEN NoneYet ELSE faceTid[OwnerOf(found, moving, i)]

Dealing(n) == [matches : [Face -> 0..n], unclaimed : SUBSET (1..n), claimed : SUBSET Person]

\* How the first k of the faces found have been gone through.
OneTaker(acc) ==
  /\ \A f, g \in Face : acc.matches[f] = acc.matches[g] /\ acc.matches[f] # 0 => f = g
  /\ \A f \in Face : acc.matches[f] \notin acc.unclaimed
Placed(found, moving, acc, k) ==
  \A i \in 1..Len(found) :
    IF Second(found, moving, i) /\ i <= k
    THEN i \notin acc.unclaimed /\ \A f \in Face : acc.matches[f] # i
    ELSE i \in acc.unclaimed \/ \E f \in Face : acc.matches[f] = i
Claimed(found, moving, acc, k) ==
  \A p : p \in acc.claimed <=>
    \E j \in 1..k : p = OwnerOf(found, moving, j) /\ p # NoneYet /\ ~found[j].twin
OwnFirst(found, moving, acc, k) ==
  \A i \in 1..k : ~Second(found, moving, i) =>
    LET own == OwnFace(found, moving, i) IN
    own \in InView(Face) /\ own \notin strayed => acc.matches[own] = i
Dealt(found, moving, acc, k) ==
  /\ acc \in Dealing(Len(found)) /\ OneTaker(acc) /\ Placed(found, moving, acc, k)
  /\ Claimed(found, moving, acc, k) /\ OwnFirst(found, moving, acc, k)

LEMMA FoundsFacts ==
  ASSUME NEW found \in Founds
  PROVE  /\ Len(found) \in Nat /\ DOMAIN found = 1..Len(found)
         /\ \A i \in 1..Len(found) :
              /\ found[i].raw \in InView(Face) \cup {NoneYet}
              /\ found[i].seen \in InView(Person) \cup {NoneYet} /\ found[i].twin \in BOOLEAN
         /\ \A i, j \in 1..Len(found) : i # j => found[i].raw # found[j].raw \/ found[i].raw = NoneYet
PROOF
<1> DEFINE FFound == [raw : InView(Face) \cup {NoneYet}, seen : InView(Person) \cup {NoneYet}, twin : BOOLEAN]
<1>1. PICK n \in 0..MaxFound : found \in [1..n -> FFound]
  BY DEF Founds, Found
<1>2. n \in Nat /\ Len(found) = n /\ DOMAIN found = 1..n BY <1>1, LinksAssumption
<1>3. \A i \in 1..n : found[i] \in FFound BY <1>1
<1>4. \A i, j \in DOMAIN found : i # j => found[i].raw # found[j].raw \/ found[i].raw = NoneYet
  BY DEF Founds
<1>5. QED BY <1>2, <1>3, <1>4

LEMMA OwnersFacts ==
  ASSUME NEW found \in Founds, NEW moving \in SUBSET InView(Person), NEW i \in 1..Len(found)
  PROVE  OwnerOf(found, moving, i) \in Person \cup {NoneYet}
PROOF
<1>1. InView(Person) \subseteq Person BY DEF InView
<1>2. found[i].seen \in InView(Person) \cup {NoneYet} BY FoundsFacts
<1>3. Cardinality(moving) = 1 => moving # {} BY FS_EmptySet
<1>4. QED BY <1>1, <1>2, <1>3 DEF OwnerOf, FaceOwner

LEMMA TrackedDealt ==
  ASSUME NEW found \in Founds, NEW moving \in SUBSET InView(Person)
  PROVE  Dealt(found, moving, Tracked(found), 0)
PROOF
<1> DEFINE n == Len(found)
           Its(f) == CHOOSE i \in DOMAIN found : found[i].raw = f
           Has(f) == \E i \in DOMAIN found : found[i].raw = f
           m == [f \in Face |-> IF Has(f) THEN Its(f) ELSE 0]
           u == {i \in DOMAIN found : found[i].raw = NoneYet}
<1>1. Tracked(found) = [matches |-> m, unclaimed |-> u, claimed |-> {}] BY DEF Tracked
<1>2. n \in Nat /\ DOMAIN found = 1..n BY FoundsFacts
<1>3. \A f \in Face : Has(f) => Its(f) \in 1..n /\ found[Its(f)].raw = f BY <1>2
<1>4. \A f \in Face : m[f] = IF Has(f) THEN Its(f) ELSE 0 OBVIOUS
<1>5. \A i \in 1..n : found[i].raw = NoneYet \/ found[i].raw \in Face BY FoundsFacts DEF InView
<1>6. \A i \in u : i \in 1..n /\ found[i].raw = NoneYet BY <1>2
<1>7. \A i \in 1..n : found[i].raw = NoneYet => i \in u BY <1>2
<1>8. NoneYet \notin Face BY LinksAssumption
<1>9. \A i \in 1..n : i # 0 BY <1>2
<1>10. \A i \in 1..n : found[i].raw \in Face => Has(found[i].raw) BY <1>2
<1>11. \A i, j \in 1..n : i # j => found[i].raw # found[j].raw \/ found[i].raw = NoneYet BY FoundsFacts
<1> HIDE DEF Its, Has, u, n
<1>12. \A f \in Face : m[f] \in 0..n
  <2>1. \A i \in 1..n : i \in 0..n BY <1>2
  <2>2. 0 \in 0..n BY <1>2
  <2>3. QED BY <1>3, <1>4, <2>1, <2>2
<1>13. m \in [Face -> 0..n] BY <1>12
<1> HIDE DEF m
<1>14. \A f, g \in Face : m[f] = m[g] /\ m[f] # 0 => f = g BY <1>3, <1>4
<1>15. \A f \in Face : m[f] \notin u BY <1>3, <1>4, <1>6, <1>8, <1>9
<1>16. \A i \in 1..n : i \in u \/ \E f \in Face : m[f] = i
  <2> SUFFICES ASSUME NEW i \in 1..n, i \notin u PROVE m[found[i].raw] = i /\ found[i].raw \in Face OBVIOUS
  <2>1. found[i].raw \in Face BY <1>5, <1>7
  <2> DEFINE f == found[i].raw
  <2>2. Has(f) /\ m[f] = Its(f) /\ Its(f) \in 1..n /\ found[Its(f)].raw = f BY <1>3, <1>4, <1>10, <2>1
  <2>3. Its(f) = i BY <1>8, <1>11, <2>1, <2>2
  <2>4. QED BY <2>1, <2>2, <2>3
<1>17. u \subseteq 1..n BY <1>6
<1> DEFINE acc == [matches |-> m, unclaimed |-> u, claimed |-> {}]
<1>18. acc \in Dealing(n) BY <1>13, <1>17 DEF Dealing
<1>19. OneTaker(acc) BY <1>14, <1>15 DEF OneTaker
<1>20. Placed(found, moving, acc, 0)
  <2>1. \A i \in 1..n : ~(i <= 0) BY <1>2
  <2>2. QED BY <1>16, <2>1 DEF Placed, n
<1>21. Claimed(found, moving, acc, 0) /\ OwnFirst(found, moving, acc, 0) BY DEF Claimed, OwnFirst
<1>22. QED BY <1>1, <1>18, <1>19, <1>20, <1>21 DEF Dealt, n

\* An i that is matched or unclaimed no more, and what is left of the others.
LEMMA UnmatchedFacts ==
  ASSUME NEW n \in Nat, NEW acc \in Dealing(n), NEW i \in 1..n
  PROVE  LET out == Unmatched(acc, i) IN
         /\ out \in Dealing(n) /\ out.claimed = acc.claimed /\ out.unclaimed = acc.unclaimed \ {i}
         /\ \A f \in Face : out.matches[f] = IF acc.matches[f] = i THEN 0 ELSE acc.matches[f]
PROOF
<1> DEFINE m == [f \in Face |-> IF acc.matches[f] = i THEN 0 ELSE acc.matches[f]]
           u == acc.unclaimed \ {i}
<1>1. acc.matches \in [Face -> 0..n] /\ acc.unclaimed \subseteq 1..n /\ acc.claimed \subseteq Person
  BY DEF Dealing
<1>2. 0 \in 0..n OBVIOUS
<1>3. m \in [Face -> 0..n] /\ u \subseteq 1..n BY <1>1, <1>2
<1>4. \A f \in Face : m[f] = IF acc.matches[f] = i THEN 0 ELSE acc.matches[f] OBVIOUS
<1>5. Unmatched(acc, i) = [acc EXCEPT !.matches = m, !.unclaimed = u] BY DEF Unmatched
<1> HIDE DEF m
<1> DEFINE c == acc.claimed
<1>6. acc = [matches |-> acc.matches, unclaimed |-> acc.unclaimed, claimed |-> c] BY DEF Dealing
<1>7. Unmatched(acc, i) = [matches |-> m, unclaimed |-> u, claimed |-> c] BY <1>5, <1>6
<1> HIDE DEF u, c
<1>8. [matches |-> m, unclaimed |-> u, claimed |-> c] \in Dealing(n) BY <1>1, <1>3 DEF Dealing, c
<1>9. QED BY <1>4, <1>7, <1>8 DEF u, c

LEMMA GiveFaceFacts ==
  ASSUME NEW n \in Nat, NEW acc \in Dealing(n), NEW i \in 1..n, NEW f \in Face
  PROVE  LET out == GiveFace(acc, i, f) IN
         /\ out \in Dealing(n) /\ out.claimed = acc.claimed
         /\ out.unclaimed = (acc.unclaimed \ {i}) \cup ({acc.matches[f]} \ {0, i})
         /\ \A g \in Face : out.matches[g] = IF g = f THEN i ELSE
                                             IF acc.matches[g] = i THEN 0 ELSE acc.matches[g]
PROOF
<1> DEFINE was == Unmatched(acc, i)
           new == {acc.matches[f]} \ {0, i}
<1>1. /\ was \in Dealing(n) /\ was.claimed = acc.claimed /\ was.unclaimed = acc.unclaimed \ {i}
      /\ \A g \in Face : was.matches[g] = IF acc.matches[g] = i THEN 0 ELSE acc.matches[g]
  BY UnmatchedFacts
<1>2. GiveFace(acc, i, f) = [was EXCEPT !.matches[f] = i, !.unclaimed = was.unclaimed \cup new]
  BY DEF GiveFace
<1>3. new \subseteq 1..n BY DEF Dealing
<1> HIDE DEF was, new
<1> DEFINE m == [was.matches EXCEPT ![f] = i]
           u == was.unclaimed \cup new
<1>4. was = [matches |-> was.matches, unclaimed |-> was.unclaimed, claimed |-> was.claimed]
      /\ was.matches \in [Face -> 0..n] /\ was.unclaimed \subseteq 1..n /\ was.claimed \subseteq Person
  BY <1>1 DEF Dealing
<1>5. GiveFace(acc, i, f) = [matches |-> m, unclaimed |-> u, claimed |-> was.claimed] BY <1>2, <1>4
<1>6. i \in 0..n OBVIOUS
<1>7. m \in [Face -> 0..n] /\ u \subseteq 1..n BY <1>3, <1>4, <1>6
<1>8. \A g \in Face : m[g] = IF g = f THEN i ELSE was.matches[g] BY <1>4
<1> HIDE DEF m, u
<1>9. [matches |-> m, unclaimed |-> u, claimed |-> was.claimed] \in Dealing(n) BY <1>4, <1>7 DEF Dealing
<1>10. QED BY <1>1, <1>5, <1>8, <1>9 DEF u, new

\* The next one: it is a second picture and dropped; it stays where it is; or it is given to its
\* person's face track.
LEMMA DealsNext ==
  ASSUME LinkInv, NEW found \in Founds, NEW moving \in SUBSET InView(Person),
         NEW k \in Nat, k + 1 <= Len(found), NEW acc, Dealt(found, moving, acc, k)
  PROVE  Dealt(found, moving, MatchOne(acc, k + 1, found[k + 1], OwnerOf(found, moving, k + 1)), k + 1)
PROOF
<1> DEFINE n == Len(found)
           i == k + 1
           owner == OwnerOf(found, moving, i)
           out == MatchOne(acc, i, found[i], owner)
           mine == [acc EXCEPT !.claimed = acc.claimed \cup {owner}]
           S(j) == Second(found, moving, j)
           O(j) == OwnerOf(found, moving, j)
           T(j) == found[j].twin
<1>1. /\ acc \in Dealing(n) /\ OneTaker(acc) /\ Placed(found, moving, acc, k)
      /\ Claimed(found, moving, acc, k) /\ OwnFirst(found, moving, acc, k)
  BY DEF Dealt
<1>2. n \in Nat /\ k + 1 <= n BY FoundsFacts
<1>3. i \in 1..n /\ i \notin 1..k /\ i # 0 /\ \A j : j \in 1..i <=> j \in 1..k \/ j = i
  <2> HIDE DEF n
  <2>1. QED BY <1>2
<1>4. owner \in Person \cup {NoneYet} /\ T(i) \in BOOLEAN BY <1>3, FoundsFacts, OwnersFacts
<1>5. \A j \in 1..k : j \in 1..n /\ j # i
  <2> HIDE DEF n
  <2>1. QED BY <1>2
<1>6. \A j \in 1..n : j <= i <=> j <= k \/ j = i
  <2> HIDE DEF n
  <2>1. QED BY <1>2
<1>7. NoneYet \notin acc.claimed BY <1>1 DEF Claimed
<1>8. owner \in acc.claimed <=> owner # NoneYet /\ \E j \in 1..k : O(j) = owner /\ ~T(j)
  BY <1>1 DEF Claimed
<1>9. S(i) <=> T(i) \/ owner \in acc.claimed
  <2>1. 1..(i - 1) = 1..k OBVIOUS
  <2>2. QED BY <1>8, <2>1 DEF Second
<1>10. /\ acc.matches \in [Face -> 0..n] /\ acc.unclaimed \subseteq 1..n /\ acc.claimed \subseteq Person
       /\ acc = [matches |-> acc.matches, unclaimed |-> acc.unclaimed, claimed |-> acc.claimed]
  BY <1>1 DEF Dealing
<1> HIDE DEF n, i, owner, S, O, T
<1>11. /\ \A f, g \in Face : acc.matches[f] = acc.matches[g] /\ acc.matches[f] # 0 => f = g
       /\ \A f \in Face : acc.matches[f] \notin acc.unclaimed
  BY <1>1 DEF OneTaker
<1>12. \A j \in 1..n :
         IF S(j) /\ j <= k THEN j \notin acc.unclaimed /\ \A f \in Face : acc.matches[f] # j
         ELSE j \in acc.unclaimed \/ \E f \in Face : acc.matches[f] = j
  BY <1>1 DEF Placed, S, n
<1>13. \A j \in 1..k : ~S(j) =>
         LET own == OwnFace(found, moving, j) IN
         own \in InView(Face) /\ own \notin strayed => acc.matches[own] = j
  BY <1>1 DEF OwnFirst, S
<1>14. InView(Face) \subseteq Face BY DEF InView
<1>15. \A a : Claimed(found, moving, a, k + 1) <=>
         \A p : p \in a.claimed <=> p \in acc.claimed \/ (p = owner /\ p # NoneYet /\ ~T(i))
  <2>1. \A p : p \in acc.claimed <=> \E j \in 1..k : p = O(j) /\ p # NoneYet /\ ~T(j)
    BY <1>1 DEF Claimed, O, T
  <2>2. \A p : (\E j \in 1..i : p = O(j) /\ p # NoneYet /\ ~T(j)) <=>
               p \in acc.claimed \/ (p = O(i) /\ p # NoneYet /\ ~T(i))
    BY <1>3, <2>1
  <2>3. owner = O(i) BY DEF owner, O
  <2>4. \A a : Claimed(found, moving, a, i) <=>
               \A p : p \in a.claimed <=> \E j \in 1..i : p = O(j) /\ p # NoneYet /\ ~T(j)
    BY DEF Claimed, O, T
  <2>5. QED BY <2>2, <2>3, <2>4 DEF i
<1>16. \A a : Placed(found, moving, a, k + 1) <=>
         \A j \in 1..n :
           IF S(j) /\ (j <= k \/ j = i) THEN j \notin a.unclaimed /\ \A f \in Face : a.matches[f] # j
           ELSE j \in a.unclaimed \/ \E f \in Face : a.matches[f] = j
  <2>1. \A a : Placed(found, moving, a, i) <=>
          \A j \in 1..n :
            IF S(j) /\ j <= i THEN j \notin a.unclaimed /\ \A f \in Face : a.matches[f] # j
            ELSE j \in a.unclaimed \/ \E f \in Face : a.matches[f] = j
    BY DEF Placed, S, n
  <2>2. QED BY <1>6, <2>1 DEF i
<1>17. \A a : OwnFirst(found, moving, a, k + 1) <=>
         \A j \in 1..i : ~S(j) =>
           LET own == OwnFace(found, moving, j) IN
           own \in InView(Face) /\ own \notin strayed => a.matches[own] = j
  BY DEF OwnFirst, S, i
<1>a. CASE S(i)
  <2>1. out = Unmatched(acc, i) BY <1>9, <1>a DEF MatchOne, T
  <2>2. /\ out \in Dealing(n) /\ out.claimed = acc.claimed /\ out.unclaimed = acc.unclaimed \ {i}
        /\ \A f \in Face : out.matches[f] = IF acc.matches[f] = i THEN 0 ELSE acc.matches[f]
    BY <1>1, <1>2, <1>3, <2>1, UnmatchedFacts
  <2> HIDE DEF out
  <2>3. OneTaker(out)
    <3>1. 0 \notin acc.unclaimed BY <1>2, <1>10
    <3>2. QED BY <1>11, <2>2, <3>1 DEF OneTaker
  <2>4. Placed(found, moving, out, k + 1)
    <3>1. \A j \in 1..n : j # 0 BY <1>2
    <3>2. QED BY <1>12, <1>16, <1>a, <2>2, <3>1
  <2>5. Claimed(found, moving, out, k + 1) BY <1>9, <1>15, <1>a, <2>2
  <2>6. OwnFirst(found, moving, out, k + 1)
    <3>1. \A j \in 1..i : ~S(j) => j \in 1..k /\ j # i BY <1>3, <1>5, <1>a
    <3>2. QED BY <1>13, <1>14, <1>17, <2>2, <3>1
  <2>7. QED BY <2>2, <2>3, <2>4, <2>5, <2>6 DEF Dealt, n, out, i, owner
<1>b. CASE ~S(i) /\ owner = NoneYet
  <2>1. out = acc BY <1>9, <1>b DEF MatchOne, T
  <2>2. OwnFace(found, moving, i) = NoneYet BY <1>b DEF OwnFace, owner
  <2>3. NoneYet \notin Face BY LinksAssumption
  <2> HIDE DEF out
  <2>4. Placed(found, moving, out, k + 1) BY <1>12, <1>16, <1>b, <2>1
  <2>5. Claimed(found, moving, out, k + 1) BY <1>15, <1>b, <2>1
  <2>6. OwnFirst(found, moving, out, k + 1) BY <1>3, <1>13, <1>14, <1>17, <2>1, <2>2, <2>3
  <2>7. QED BY <1>1, <2>1, <2>4, <2>5, <2>6 DEF Dealt, n, out, i, owner
<1>18. /\ mine.matches = acc.matches /\ mine.unclaimed = acc.unclaimed
       /\ mine.claimed = acc.claimed \cup {owner}
       /\ owner # NoneYet => mine \in Dealing(n)
  <2> DEFINE c == acc.claimed \cup {owner}
  <2> DEFINE rec == [matches |-> acc.matches, unclaimed |-> acc.unclaimed, claimed |-> acc.claimed]
  <2>a. acc = rec BY <1>10
  <2>b. [rec EXCEPT !.claimed = c] = [matches |-> acc.matches, unclaimed |-> acc.unclaimed, claimed |-> c]
    <3> DEFINE a1 == acc.matches
               a2 == acc.unclaimed
               a3 == acc.claimed
    <3> HIDE DEF a1, a2, a3, c
    <3>1. [[matches |-> a1, unclaimed |-> a2, claimed |-> a3] EXCEPT !.claimed = c]
            = [matches |-> a1, unclaimed |-> a2, claimed |-> c] OBVIOUS
    <3>2. QED BY <3>1 DEF a1, a2, a3
  <2>c. mine = [acc EXCEPT !.claimed = c] OBVIOUS
  <2> HIDE DEF rec, mine, c
  <2>d. mine = [rec EXCEPT !.claimed = c] BY <2>a, <2>c
  <2>1. mine = [matches |-> acc.matches, unclaimed |-> acc.unclaimed, claimed |-> c] BY <2>b, <2>d
  <2>2. owner # NoneYet => c \subseteq Person BY <1>4, <1>10 DEF c
  <2>3. owner # NoneYet => [matches |-> acc.matches, unclaimed |-> acc.unclaimed, claimed |-> c] \in Dealing(n)
    BY <1>10, <2>2 DEF Dealing
  <2>4. QED BY <2>1, <2>3 DEF c
<1> HIDE DEF mine
<1>c. CASE ~S(i) /\ owner # NoneYet /\ faceTid[owner] \notin InView(Face)
  <2>1. out = mine BY <1>9, <1>c DEF MatchOne, T, mine
  <2>2. OwnFace(found, moving, i) = faceTid[owner] BY <1>c DEF OwnFace, owner
  <2> HIDE DEF out
  <2>3. OneTaker(out) BY <1>11, <1>18, <2>1 DEF OneTaker
  <2>4. Placed(found, moving, out, k + 1) BY <1>12, <1>16, <1>18, <1>c, <2>1
  <2>5. Claimed(found, moving, out, k + 1) BY <1>9, <1>15, <1>18, <1>c, <2>1
  <2>6. OwnFirst(found, moving, out, k + 1) BY <1>3, <1>13, <1>17, <1>18, <1>c, <2>1, <2>2
  <2>7. QED BY <1>18, <1>c, <2>1, <2>3, <2>4, <2>5, <2>6 DEF Dealt, n, out, i, owner
<1>d. CASE ~S(i) /\ owner # NoneYet /\ faceTid[owner] \in InView(Face)
  <2> DEFINE f == faceTid[owner]
  <2>1. f \in Face /\ owner \in Person BY <1>4, <1>14, <1>d
  <2>2. out = GiveFace(mine, i, f) BY <1>9, <1>d DEF MatchOne, T, mine
  <2>3. OwnFace(found, moving, i) = f BY <1>d DEF OwnFace, owner
  <2>4. /\ out \in Dealing(n) /\ out.claimed = acc.claimed \cup {owner}
        /\ out.unclaimed = (acc.unclaimed \ {i}) \cup ({acc.matches[f]} \ {0, i})
        /\ \A g \in Face : out.matches[g] = IF g = f THEN i ELSE
                                            IF acc.matches[g] = i THEN 0 ELSE acc.matches[g]
    BY <1>2, <1>3, <1>18, <1>d, <2>1, <2>2, GiveFaceFacts
  <2>5. \A j \in 1..n : j # 0 BY <1>2
  <2>6. 0 \notin acc.unclaimed BY <1>10, <2>5
  <2> HIDE DEF out, f
  <2>7. OneTaker(out) BY <1>3, <1>11, <2>1, <2>4, <2>6 DEF OneTaker
  <2>8. Placed(found, moving, out, k + 1)
    <3> SUFFICES ASSUME NEW j \in 1..n
                 PROVE IF S(j) /\ (j <= k \/ j = i)
                       THEN j \notin out.unclaimed /\ \A g \in Face : out.matches[g] # j
                       ELSE j \in out.unclaimed \/ \E g \in Face : out.matches[g] = j
      BY <1>16
    <3>1. CASE j = i BY <1>d, <2>1, <2>4, <3>1
    <3>2. CASE j # i /\ S(j) /\ j <= k BY <1>12, <2>1, <2>4, <2>5, <3>2
    <3>3. CASE j # i /\ ~(S(j) /\ j <= k)
      <4>1. CASE j \in acc.unclaimed BY <2>4, <3>3, <4>1
      <4>2. CASE \E g \in Face : acc.matches[g] = j
        <5>1. PICK g \in Face : acc.matches[g] = j BY <4>2
        <5>2. CASE g = f BY <2>4, <2>5, <3>3, <5>1, <5>2
        <5>3. CASE g # f BY <2>4, <3>3, <5>1, <5>3
        <5>4. QED BY <5>2, <5>3
      <4>3. QED BY <1>12, <3>3, <4>1, <4>2
    <3>4. QED BY <3>1, <3>2, <3>3
  <2>9. Claimed(found, moving, out, k + 1) BY <1>9, <1>15, <1>d, <2>4
  <2>10. OwnFirst(found, moving, out, k + 1)
    <3> SUFFICES ASSUME NEW j \in 1..i, ~S(j), OwnFace(found, moving, j) \in InView(Face),
                        OwnFace(found, moving, j) \notin strayed
                 PROVE out.matches[OwnFace(found, moving, j)] = j
      BY <1>17
    <3>1. CASE j = i BY <2>1, <2>3, <2>4, <3>1
    <3>2. CASE j # i
      <4> DEFINE own == OwnFace(found, moving, j)
      <4>1. j \in 1..k /\ acc.matches[own] = j BY <1>3, <1>13, <3>2
      <4>2. own \in Face /\ own # NoneYet BY <1>14, LinksAssumption
      <4>3. O(j) # NoneYet /\ own = faceTid[O(j)] BY <4>2 DEF OwnFace, O
      <4>4. O(j) \in Person BY <1>5, <4>1, <4>3, OwnersFacts DEF O, n
      <4>5. ~T(j) BY DEF S, T, Second
      <4>6. O(j) \in acc.claimed
        <5>1. \A p : p \in acc.claimed <=> \E l \in 1..k : p = O(l) /\ p # NoneYet /\ ~T(l)
          BY <1>1 DEF Claimed, O, T
        <5>2. QED BY <4>1, <4>3, <4>5, <5>1
      <4>7. O(j) # owner BY <1>9, <1>d, <4>6
      <4> HIDE DEF own
      <4>8. own # f
        <5>1. FacesOwned BY DEF LinkInv
        <5>2. own \notin strayed BY DEF own
        <5>3. QED BY <2>1, <4>2, <4>3, <4>4, <4>7, <5>1, <5>2 DEF FacesOwned, f
      <4>9. out.matches[own] = j BY <2>4, <3>2, <4>1, <4>2, <4>8
      <4>10. QED BY <4>9 DEF own
    <3>3. QED BY <3>1, <3>2
  <2>11. QED BY <2>4, <2>7, <2>8, <2>9, <2>10 DEF Dealt, n, out, i, owner
<1>19. QED BY <1>a, <1>b, <1>c, <1>d

LEMMA OwnFaceInView == InView(Face) \subseteq Face /\ InView(Person) \subseteq Person
PROOF BY DEF InView

\* Whatever it is, it leaves as many faces to give.
LEMMA MatchOneTyped ==
  ASSUME NEW n \in Nat, NEW acc \in Dealing(n), NEW i \in 1..n, NEW d, d.twin \in BOOLEAN,
         NEW owner \in Person \cup {NoneYet}
  PROVE  MatchOne(acc, i, d, owner) \in Dealing(n)
PROOF
<1> DEFINE c == acc.claimed \cup {owner}
           mine == [acc EXCEPT !.claimed = c]
<1>1. acc = [matches |-> acc.matches, unclaimed |-> acc.unclaimed, claimed |-> acc.claimed]
      /\ acc.matches \in [Face -> 0..n] /\ acc.unclaimed \subseteq 1..n /\ acc.claimed \subseteq Person
  BY DEF Dealing
<1>2. mine = [matches |-> acc.matches, unclaimed |-> acc.unclaimed, claimed |-> c] BY <1>1
<1>3. owner # NoneYet => c \subseteq Person BY <1>1
<1> HIDE DEF c
<1>4. owner # NoneYet => [matches |-> acc.matches, unclaimed |-> acc.unclaimed, claimed |-> c] \in Dealing(n)
  BY <1>1, <1>3 DEF Dealing
<1>5. owner # NoneYet => mine \in Dealing(n) BY <1>2, <1>4
<1>6. Unmatched(acc, i) \in Dealing(n) BY UnmatchedFacts
<1>7. \/ MatchOne(acc, i, d, owner) = Unmatched(acc, i)
      \/ owner = NoneYet /\ MatchOne(acc, i, d, owner) = acc
      \/ owner # NoneYet /\ MatchOne(acc, i, d, owner) = mine
      \/ /\ owner # NoneYet /\ faceTid[owner] \in Face
         /\ MatchOne(acc, i, d, owner) = GiveFace(mine, i, faceTid[owner])
  BY OwnFaceInView DEF MatchOne, c
<1> HIDE DEF mine
<1>8. CASE owner # NoneYet /\ faceTid[owner] \in Face
           /\ MatchOne(acc, i, d, owner) = GiveFace(mine, i, faceTid[owner])
  BY <1>5, <1>8, GiveFaceFacts
<1>9. QED BY <1>5, <1>6, <1>7, <1>8

\* All of them.
LEMMA MatchedDealt ==
  ASSUME LinkInv, NEW found \in Founds, NEW moving \in SUBSET InView(Person)
  PROVE  Dealt(found, moving, MatchFacesToPeople(found, moving), Len(found))
PROOF
<1> DEFINE N == Len(found)
           matched[i \in 0..N] ==
             IF i = 0 THEN Tracked(found)
             ELSE MatchOne(matched[i - 1], i, found[i], FaceOwner(found[i], moving))
           Step(i, x) == MatchOne(x, i, found[i], OwnerOf(found, moving, i))
           S == Dealing(N)
           D == [p \in (1..N) \X S |-> Step(p[1], p[2])]
           base == Tracked(found)
<1>1. N \in Nat BY FoundsFacts
<1>2. MatchFacesToPeople(found, moving) = matched[N] BY DEF MatchFacesToPeople
<1>3. \A i \in 1..N, x \in S : Step(i, x) \in S
  <2>1. \A i \in 1..N : found[i].twin \in BOOLEAN /\ OwnerOf(found, moving, i) \in Person \cup {NoneYet}
    BY FoundsFacts, OwnersFacts
  <2> HIDE DEF N
  <2>2. QED BY <1>1, <2>1, MatchOneTyped
<1>4. D \in [(1..N) \X S -> S] BY <1>3
<1>5. base \in S /\ Dealt(found, moving, base, 0) BY TrackedDealt DEF Dealt
<1>6. PICK h \in Computed(S, base, N, D) : TRUE
  <2> HIDE DEF D, N, S, base
  <2>1. QED BY <1>1, <1>4, <1>5, StepsExist
<1>7. h \in [0..N -> S] /\ h[0] = base /\ \A i \in 1..N : h[i] = D[<<i, h[i - 1]>>]
  BY <1>6 DEF Computed
<1>8. \A i \in 1..N : h[i] = Step(i, h[i - 1])
  <2>a. \A i \in 1..N : i - 1 \in 0..N
    <3> HIDE DEF N
    <3>1. QED BY <1>1
  <2>b. \A i \in 1..N : h[i - 1] \in S
    <3> HIDE DEF N, S, D, base
    <3>1. QED BY <1>7, <2>a
  <2>1. \A i \in 1..N : <<i, h[i - 1]>> \in (1..N) \X S
    <3> HIDE DEF N, S, D
    <3>1. QED BY <2>b
  <2>2. \A p \in (1..N) \X S : D[p] = Step(p[1], p[2]) OBVIOUS
  <2> HIDE DEF D, Step, N, S, base
  <2>3. \A i \in 1..N : D[<<i, h[i - 1]>>] = Step(i, h[i - 1]) BY <2>1, <2>2
  <2>4. QED BY <1>7, <2>3
<1>9. h = [i \in 0..N |-> IF i = 0 THEN Tracked(found)
                          ELSE MatchOne(h[i - 1], i, found[i], FaceOwner(found[i], moving))]
  <2>1. \A i \in 0..N : i = 0 \/ i \in 1..N BY <1>1
  <2>2. \A i : Step(i, h[i - 1]) = MatchOne(h[i - 1], i, found[i], FaceOwner(found[i], moving))
    BY DEF OwnerOf
  <2> HIDE DEF N, Step, S, D
  <2>3. QED BY <1>7, <1>8, <2>1, <2>2
<1>10. matched = [i \in 0..N |-> IF i = 0 THEN Tracked(found)
                     ELSE MatchOne(matched[i - 1], i, found[i], FaceOwner(found[i], moving))]
  <2> HIDE DEF N
  <2>1. QED BY <1>9
<1> HIDE DEF matched, D
<1>11. matched[0] = base /\ \A i \in 1..N : matched[i] = Step(i, matched[i - 1])
  <2>1. 0 \in 0..N /\ \A i \in 1..N : i \in 0..N /\ i # 0 BY <1>1
  <2>2. \A i : Step(i, matched[i - 1]) = MatchOne(matched[i - 1], i, found[i], FaceOwner(found[i], moving))
    BY DEF OwnerOf
  <2> HIDE DEF N, Step, S
  <2>3. QED BY <1>10, <2>1, <2>2
<1> HIDE DEF base
<1> DEFINE T == {n \in Nat : n <= N => Dealt(found, moving, matched[n], n)}
<1>12. 0 \in T BY <1>5, <1>11
<1>13. ASSUME NEW n \in Nat, n \in T, n + 1 <= N PROVE Dealt(found, moving, matched[n + 1], n + 1)
  <2>1. n + 1 \in 1..N /\ (n + 1) - 1 = n /\ n <= N
    <3> HIDE DEF T, S, N
    <3>1. QED BY <1>1, <1>13
  <2>2. Dealt(found, moving, matched[n], n) BY <1>13, <2>1
  <2>3. matched[n + 1] = Step(n + 1, matched[n])
    <3> HIDE DEF Step, T
    <3>1. QED BY <1>11, <2>1
  <2> HIDE DEF T
  <2>4. QED BY <1>13, <2>2, <2>3, DealsNext
<1>14. \A n \in Nat : n \in T <=> (n <= N => Dealt(found, moving, matched[n], n)) OBVIOUS
<1>15. \A n \in Nat : n \in T => n + 1 \in T
  <2> HIDE DEF T, N
  <2>1. QED BY <1>13, <1>14
<1> HIDE DEF T
<1>16. N \in T BY <1>1, <1>12, <1>15, AllNumbers
<1>17. Dealt(found, moving, matched[N], N)
  <2> HIDE DEF N
  <2>1. QED BY <1>1, <1>14, <1>16
<1>18. QED BY <1>2, <1>17

LEMMA EachOnce == LinkInv => EachFaceOnce
PROOF
<1> SUFFICES ASSUME LinkInv, NEW found \in Founds, NEW moving \in SUBSET InView(Person), NEW i \in DOMAIN found
             PROVE  LET m == MatchFacesToPeople(found, moving)
                        takers == {f \in Face : m.matches[f] = i}
                        own == OwnFace(found, moving, i)
                    IN /\ Cardinality(takers) = IF Second(found, moving, i) \/ i \in m.unclaimed THEN 0 ELSE 1
                       /\ ~(Second(found, moving, i) /\ i \in m.unclaimed)
                       /\ ~Second(found, moving, i) /\ own \in InView(Face) /\ own \notin strayed
                          => takers = {own}
  BY DEF EachFaceOnce, OwnFace, Second, OwnerOf
<1> DEFINE m == MatchFacesToPeople(found, moving)
           takers == {f \in Face : m.matches[f] = i}
           own == OwnFace(found, moving, i)
           second == Second(found, moving, i)
           n == Len(found)
<1>1. n \in Nat /\ i \in 1..n BY FoundsFacts
<1>2. /\ OneTaker(m) /\ Placed(found, moving, m, n) /\ OwnFirst(found, moving, m, n)
  BY MatchedDealt DEF Dealt
<1> HIDE DEF m
<1>3. /\ \A f, g \in Face : m.matches[f] = m.matches[g] /\ m.matches[f] # 0 => f = g
      /\ \A f \in Face : m.matches[f] \notin m.unclaimed
  BY <1>2 DEF OneTaker
<1>4. IF second THEN i \notin m.unclaimed /\ \A f \in Face : m.matches[f] # i
                ELSE i \in m.unclaimed \/ \E f \in Face : m.matches[f] = i
  <2>1. i <= n
    <3> HIDE DEF n
    <3>1. QED BY <1>1
  <2>2. QED BY <1>1, <1>2, <2>1 DEF Placed
<1>5. ~second /\ own \in InView(Face) /\ own \notin strayed => m.matches[own] = i
  BY <1>1, <1>2 DEF OwnFirst
<1>6. i # 0
  <2> HIDE DEF n
  <2>1. QED BY <1>1
<1>7. InView(Face) \subseteq Face BY DEF InView
<1> HIDE DEF second, own, n
<1>8. takers \subseteq Face /\ \A f \in Face : f \in takers <=> m.matches[f] = i OBVIOUS
<1> HIDE DEF takers
<1>9. CASE second \/ i \in m.unclaimed
  <2>1. takers = {} BY <1>3, <1>4, <1>8, <1>9
  <2>2. Cardinality(takers) = 0 BY <2>1, FS_EmptySet
  <2>3. ~second /\ own \in InView(Face) /\ own \notin strayed => takers = {own} BY <1>5, <1>7, <1>8, <2>1
  <2>4. QED BY <1>4, <1>9, <2>2, <2>3 DEF m, takers, own, second
<1>10. CASE ~second /\ i \notin m.unclaimed
  <2>1. PICK f \in Face : m.matches[f] = i BY <1>4, <1>10
  <2>2. takers = {f} BY <1>3, <1>6, <1>8, <2>1
  <2>3. Cardinality(takers) = 1 BY <2>2, FS_Singleton
  <2>4. ~second /\ own \in InView(Face) /\ own \notin strayed => takers = {own} BY <1>5, <1>7, <1>8, <2>2
  <2>5. QED BY <1>10, <2>3, <2>4 DEF m, takers, own, second
<1>11. QED BY <1>9, <1>10

LEMMA OneOwnerEach == LinkInv => OneOwner
PROOF
<1> SUFFICES ASSUME LinkInv,
                    NEW l1 \in AssociateFaces({t \in Person \cup Face : at[t] \in {"here", "recent"}}),
                    NEW l2 \in AssociateFaces({t \in Person \cup Face : at[t] \in {"here", "recent"}}),
                    l1[2] = l2[2], l1 # l2
             PROVE  l1[2] \in strayed
  BY DEF OneOwner
<1> DEFINE members == {t \in Person \cup Face : at[t] \in {"here", "recent"}}
<1>1. PICK p \in Person : faceTid[p] \in members /\ l1 = <<p, faceTid[p]>> BY DEF AssociateFaces
<1>2. PICK q \in Person : faceTid[q] \in members /\ l2 = <<q, faceTid[q]>> BY DEF AssociateFaces
<1>3. faceTid[p] = faceTid[q] /\ p # q BY <1>1, <1>2
<1>4. faceTid[p] # NoneYet /\ faceTid[q] # NoneYet BY <1>1, <1>2, LinksAssumption
<1>5. FacesOwned BY DEF LinkInv
<1>6. QED BY <1>1, <1>3, <1>4, <1>5 DEF FacesOwned

\* Every variable has its type.
THEOREM LinksTypeCorrect == LinksSpec => []LinksTypeOK
PROOF
<1>1. LinkInv => LinksTypeOK BY DEF LinkInv
<1>2. QED BY <1>1, LinksInvariant, PTL

\* Each face found goes to one track, the first of a person to that person's own, and a leave says
\* of a face that it is one person's, but for one whose person went.
THEOREM FacesToTheirPeople == LinksSpec => []FacesFindTheirPeople
PROOF
<1>1. LinkInv => FacesFindTheirPeople BY EachOnce, OneOwnerEach DEF FacesFindTheirPeople
<1>2. QED BY <1>1, LinksInvariant, PTL

-----------------------------------------------------------------------------
(* Regions                                                                 *)

Started(from, to, size, side) ==
  LET x == Trunc(from + to - size, 2) IN IF x < 0 THEN 0 ELSE IF x > side - size THEN Hi(0, side - size) ELSE x

\* A stretch of a side that is centred on a shorter one, as far as the side goes, holds it.
LEMMA StartHolds ==
  ASSUME NEW from \in Nat, NEW to \in Nat, NEW size \in Nat, NEW side \in Nat,
         from <= to, to <= side, to - from <= size, size <= side
  PROVE  LET x == Started(from, to, size, side) IN
         x \in Nat /\ x <= from /\ to <= x + size /\ x + size <= side
PROOF
<1> DEFINE a == from + to - size
<1>1. CASE a < 0
  <2>1. Trunc(a, 2) = -((-a) \div 2) BY <1>1 DEF Trunc
  <2>2. Trunc(a, 2) <= 0 /\ Trunc(a, 2) \in Int BY <1>1, <2>1
  <2>3. Started(from, to, size, side) = 0 BY <2>2 DEF Started, Hi
  <2>4. QED BY <1>1, <2>3
<1>2. CASE a >= 0
  <2>1. Trunc(a, 2) = a \div 2 BY <1>2 DEF Trunc
  <2> DEFINE x == a \div 2
  <2>2. x \in Nat /\ 2 * x <= a /\ a <= 2 * x + 1 BY <1>2
  <2>3. Started(from, to, size, side) = IF x > side - size THEN side - size ELSE x
    BY <2>1, <2>2 DEF Started, Hi
  <2> HIDE DEF x
  <2>4. x <= from /\ to <= x + size BY <2>2
  <2>5. QED BY <2>2, <2>3, <2>4
<1>3. QED BY <1>1, <1>2

\* How long the side of the region is: no shorter than the box, if it fits.
LEMMA SizeHolds ==
  ASSUME NEW longest \in Nat, MinRegion \in Nat, MinRegion >= 9, NEW short \in Nat, longest <= 4 * (short \div 4),
         NEW num \in Nat, NEW den \in Nat, <<num, den>> \in {<<27, 20>>, <<2, 1>>}
  PROVE  LET size == Lo(Hi(4 * ((longest * num) \div (den * 4)), MinRegion), 4 * (short \div 4)) IN
         size \in Nat /\ longest <= size /\ size <= short
PROOF
<1> DEFINE q == (longest * num) \div (den * 4)
           most == 4 * (short \div 4)
<1>1. q \in Nat /\ (longest < 9 \/ longest <= 4 * q)
  <2>1. CASE num = 27 /\ den = 20 BY <2>1
  <2>2. CASE num = 2 /\ den = 1 BY <2>2
  <2>3. QED BY <2>1, <2>2
<1>2. most \in Nat /\ most <= short OBVIOUS
<1> HIDE DEF q, most
<1>3. Hi(4 * q, MinRegion) \in Nat /\ longest <= Hi(4 * q, MinRegion) BY <1>1 DEF Hi
<1>4. longest <= most BY DEF most
<1>5. QED BY <1>2, <1>3, <1>4 DEF Lo, q, most

\* The region around a box that fits one, for a cluster or a second look, is a square inside the
\* frame that holds the box, wherever in the frame it stands.
THEOREM RegionHoldsItsBox ==
  ASSUME NEW x1 \in Nat, NEW y1 \in Nat, NEW x2 \in Nat, NEW y2 \in Nat, x1 <= x2, y1 <= y2,
         BoxInside(<<0, 0, Width, Height>>, <<x1, y1, x2, y2>>), Fitting(<<x1, y1, x2, y2>>),
         NEW num \in Nat, NEW den \in Nat, <<num, den>> \in {<<27, 20>>, <<2, 1>>}, MinRegion >= 9
  PROVE  LET region == CalculateRegion(<<x1, y1, x2, y2>>, num, den) IN
         /\ BoxInside(<<0, 0, Width, Height>>, region) /\ BoxInside(region, <<x1, y1, x2, y2>>)
         /\ region[3] - region[1] = region[4] - region[2]
         /\ region[1] \in Nat /\ region[2] \in Nat /\ region[3] \in Nat /\ region[4] \in Nat
PROOF
<1> DEFINE longest == Hi(x2 - x1, y2 - y1)
           size == Lo(Hi(4 * ((longest * num) \div (den * 4)), MinRegion), 4 * (Shorter \div 4))
           x0 == Started(x1, x2, size, Width)
           y0 == Started(y1, y2, size, Height)
<1>1. Width \in Nat /\ Height \in Nat /\ MinRegion \in Nat BY RegionsAssumption
<1>2. Shorter \in Nat /\ Shorter <= Width /\ Shorter <= Height BY <1>1 DEF Shorter, Lo
<1>3. longest \in Nat /\ x2 - x1 <= longest /\ y2 - y1 <= longest BY DEF Hi
<1>4. longest <= 4 * (Shorter \div 4)
  <2>1. longest < 4 * (Shorter \div 4) BY DEF Fitting
  <2> HIDE DEF longest
  <2>2. QED BY <1>2, <1>3, <2>1
<1>5. x2 <= Width /\ y2 <= Height BY DEF BoxInside
<1>6. CalculateRegion(<<x1, y1, x2, y2>>, num, den) = <<x0, y0, x0 + size, y0 + size>>
  BY DEF CalculateRegion, Started
<1>7. size \in Nat /\ longest <= size /\ size <= Shorter
  <2> HIDE DEF longest
  <2>1. QED BY <1>1, <1>2, <1>3, <1>4, SizeHolds
<1> HIDE DEF longest, size
<1>8. x2 - x1 <= size /\ y2 - y1 <= size /\ size <= Width /\ size <= Height BY <1>1, <1>2, <1>3, <1>7
<1>9. x0 \in Nat /\ x0 <= x1 /\ x2 <= x0 + size /\ x0 + size <= Width BY <1>1, <1>5, <1>7, <1>8, StartHolds
<1>10. y0 \in Nat /\ y0 <= y1 /\ y2 <= y0 + size /\ y0 + size <= Height BY <1>1, <1>5, <1>7, <1>8, StartHolds
<1> HIDE DEF x0, y0
<1> DEFINE region == <<x0, y0, x0 + size, y0 + size>>
<1>11. /\ BoxInside(<<0, 0, Width, Height>>, region) /\ BoxInside(region, <<x1, y1, x2, y2>>)
       /\ region[3] - region[1] = region[4] - region[2]
       /\ region[1] \in Nat /\ region[2] \in Nat /\ region[3] \in Nat /\ region[4] \in Nat
  BY <1>1, <1>7, <1>9, <1>10 DEF BoxInside
<1>12. QED BY <1>6, <1>11

\* The boxes gathered about one: it, and others that no cluster has.
LEMMA GatheredFacts ==
  ASSUME NEW B, NEW boxes \in Seq(B), NEW clusters, NEW b \in B
  PROVE  LET g == Gathered(boxes, clusters, b) IN
         /\ g \subseteq B /\ b \in g
         /\ \A x \in g : x = b \/ (x \in Range(boxes) /\ \A c \in clusters : x \notin c)
PROOF
<1> DEFINE N == Len(boxes)
           Free(i) == \A c \in clusters : boxes[i] \notin c
           gathered[i \in 0..N] ==
             IF i = 0 THEN {b}
             ELSE IF /\ \A c \in clusters : boxes[i] \notin c
                     /\ Joins(gathered[i - 1], ClusterBoundary(b), boxes[i])
                  THEN gathered[i - 1] \cup {boxes[i]} ELSE gathered[i - 1]
           Step(i, x) == IF Free(i) /\ Joins(x, ClusterBoundary(b), boxes[i]) THEN x \cup {boxes[i]} ELSE x
           S == SUBSET B
           base == {b}
           D == [p \in (1..N) \X S |-> Step(p[1], p[2])]
<1>1. N \in Nat /\ DOMAIN boxes = 1..N /\ \A i \in 1..N : boxes[i] \in B OBVIOUS
<1>2. Gathered(boxes, clusters, b) = gathered[N] BY DEF Gathered
<1>3. \A i \in 1..N, x \in S : Step(i, x) \in S BY <1>1
<1>4. D \in [(1..N) \X S -> S] BY <1>3
<1>5. base \in S OBVIOUS
<1>6. PICK h \in Computed(S, base, N, D) : TRUE
  <2> HIDE DEF D, N, S, base
  <2>1. QED BY <1>1, <1>4, <1>5, StepsExist
<1>7. h \in [0..N -> S] /\ h[0] = base /\ \A i \in 1..N : h[i] = D[<<i, h[i - 1]>>]
  BY <1>6 DEF Computed
<1>8. \A i \in 1..N : h[i] = Step(i, h[i - 1])
  <2>a. \A i \in 1..N : i - 1 \in 0..N
    <3> HIDE DEF N
    <3>1. QED BY <1>1
  <2>b. \A i \in 1..N : h[i - 1] \in S
    <3> HIDE DEF N, S, D, base
    <3>1. QED BY <1>7, <2>a
  <2>1. \A i \in 1..N : <<i, h[i - 1]>> \in (1..N) \X S
    <3> HIDE DEF N, S, D
    <3>1. QED BY <2>b
  <2>2. \A p \in (1..N) \X S : D[p] = Step(p[1], p[2]) OBVIOUS
  <2> HIDE DEF D, Step, N, S, base
  <2>3. \A i \in 1..N : D[<<i, h[i - 1]>>] = Step(i, h[i - 1]) BY <2>1, <2>2
  <2>4. QED BY <1>7, <2>3
<1>9. h = [i \in 0..N |-> IF i = 0 THEN {b}
             ELSE IF /\ \A c \in clusters : boxes[i] \notin c
                     /\ Joins(h[i - 1], ClusterBoundary(b), boxes[i])
                  THEN h[i - 1] \cup {boxes[i]} ELSE h[i - 1]]
  <2>1. \A i \in 0..N : i = 0 \/ i \in 1..N BY <1>1
  <2> HIDE DEF N, S, D
  <2>2. QED BY <1>7, <1>8, <2>1
<1>10. gathered = [i \in 0..N |-> IF i = 0 THEN {b}
             ELSE IF /\ \A c \in clusters : boxes[i] \notin c
                     /\ Joins(gathered[i - 1], ClusterBoundary(b), boxes[i])
                  THEN gathered[i - 1] \cup {boxes[i]} ELSE gathered[i - 1]]
  <2> HIDE DEF N
  <2>1. QED BY <1>9
<1> HIDE DEF gathered, D, N
<1>11. gathered[0] = {b} /\ \A i \in 1..N : gathered[i] = Step(i, gathered[i - 1])
  <2>1. 0 \in 0..N /\ \A i \in 1..N : i \in 0..N /\ i # 0 BY <1>1
  <2>2. QED BY <1>10, <2>1
<1> DEFINE Good(x) == /\ x \subseteq B /\ b \in x
                      /\ \A y \in x : y = b \/ (y \in Range(boxes) /\ \A c \in clusters : y \notin c)
           T == {n \in Nat : n <= N => Good(gathered[n])}
<1>12. 0 \in T BY <1>11
<1>13. ASSUME NEW n \in Nat, n \in T, n + 1 <= N PROVE Good(gathered[n + 1])
  <2>1. n + 1 \in 1..N /\ (n + 1) - 1 = n /\ n <= N
    <3> HIDE DEF T
    <3>1. QED BY <1>1, <1>13
  <2>2. Good(gathered[n]) BY <1>13, <2>1
  <2>3. gathered[n + 1] = Step(n + 1, gathered[n])
    <3> HIDE DEF Step, T
    <3>1. QED BY <1>11, <2>1
  <2>4. boxes[n + 1] \in B /\ boxes[n + 1] \in Range(boxes) BY <1>1, <2>1 DEF Range
  <2> DEFINE x == gathered[n]
             y == boxes[n + 1]
  <2>5. gathered[n + 1] = x \/ (gathered[n + 1] = x \cup {y} /\ \A c \in clusters : y \notin c) BY <2>3
  <2>6. y \in B /\ y \in Range(boxes) /\ Good(x) BY <2>2, <2>4
  <2> HIDE DEF x, y, T
  <2>7. QED BY <2>5, <2>6
<1>14. \A n \in Nat : n \in T <=> (n <= N => Good(gathered[n])) OBVIOUS
<1>15. \A n \in Nat : n \in T => n + 1 \in T
  <2> HIDE DEF T, Good
  <2>1. QED BY <1>13, <1>14
<1> HIDE DEF T
<1>16. N \in T BY <1>1, <1>12, <1>15, AllNumbers
<1>17. Good(gathered[N])
  <2> HIDE DEF Good
  <2>1. QED BY <1>1, <1>14, <1>16
<1>18. QED BY <1>2, <1>17

\* "Each box in exactly one group" (regions.py:84, cluster_candidates): the clusters of a list of
\* boxes are none of them empty, have the boxes of the list and no others, and no two share one.
THEOREM ClustersPartition ==
  ASSUME NEW B, NEW boxes \in Seq(B)
  PROVE  LET clusters == ClusterCandidates(boxes) IN
         /\ UNION clusters = Range(boxes) /\ {} \notin clusters
         /\ \A c, d \in clusters : c \cap d # {} => c = d
PROOF
<1> DEFINE N == Len(boxes)
           Has(x, i) == \E c \in x : boxes[i] \in c
           clusters[i \in 0..N] ==
             IF i = 0 THEN {}
             ELSE IF \E c \in clusters[i - 1] : boxes[i] \in c THEN clusters[i - 1]
             ELSE clusters[i - 1] \cup {Gathered(boxes, clusters[i - 1], boxes[i])}
           Step(i, x) == IF Has(x, i) THEN x ELSE x \cup {Gathered(boxes, x, boxes[i])}
           S == SUBSET SUBSET B
           base == {}
           D == [p \in (1..N) \X S |-> Step(p[1], p[2])]
<1>1. N \in Nat /\ DOMAIN boxes = 1..N /\ \A i \in 1..N : boxes[i] \in B OBVIOUS
<1>2. ClusterCandidates(boxes) = clusters[N] BY DEF ClusterCandidates
<1>3. \A i \in 1..N, x \in S : Step(i, x) \in S BY <1>1, GatheredFacts
<1>4. D \in [(1..N) \X S -> S]
  <2> HIDE DEF Step, S, N
  <2>1. \A p \in (1..N) \X S : Step(p[1], p[2]) \in S BY <1>3
  <2>2. QED BY <2>1
<1>5. base \in S OBVIOUS
<1>6. PICK h \in Computed(S, base, N, D) : TRUE
  <2> HIDE DEF D, N, S, base
  <2>1. QED BY <1>1, <1>4, <1>5, StepsExist
<1>7. h \in [0..N -> S] /\ h[0] = base /\ \A i \in 1..N : h[i] = D[<<i, h[i - 1]>>]
  BY <1>6 DEF Computed
<1>8. \A i \in 1..N : h[i] = Step(i, h[i - 1])
  <2>a. \A i \in 1..N : i - 1 \in 0..N
    <3> HIDE DEF N
    <3>1. QED BY <1>1
  <2>b. \A i \in 1..N : h[i - 1] \in S
    <3> HIDE DEF N, S, D, base
    <3>1. QED BY <1>7, <2>a
  <2>1. \A i \in 1..N : <<i, h[i - 1]>> \in (1..N) \X S
    <3> HIDE DEF N, S, D
    <3>1. QED BY <2>b
  <2>2. \A p \in (1..N) \X S : D[p] = Step(p[1], p[2]) OBVIOUS
  <2> HIDE DEF D, Step, N, S, base
  <2>3. \A i \in 1..N : D[<<i, h[i - 1]>>] = Step(i, h[i - 1]) BY <2>1, <2>2
  <2>4. QED BY <1>7, <2>3
<1>9. h = [i \in 0..N |-> IF i = 0 THEN {}
             ELSE IF \E c \in h[i - 1] : boxes[i] \in c THEN h[i - 1]
             ELSE h[i - 1] \cup {Gathered(boxes, h[i - 1], boxes[i])}]
  <2>1. \A i \in 0..N : i = 0 \/ i \in 1..N BY <1>1
  <2> HIDE DEF N, S, D
  <2>2. QED BY <1>7, <1>8, <2>1
<1>10. clusters = [i \in 0..N |-> IF i = 0 THEN {}
             ELSE IF \E c \in clusters[i - 1] : boxes[i] \in c THEN clusters[i - 1]
             ELSE clusters[i - 1] \cup {Gathered(boxes, clusters[i - 1], boxes[i])}]
  <2> HIDE DEF N
  <2>1. QED BY <1>9
<1> HIDE DEF clusters, D, N
<1>11. clusters[0] = {} /\ \A i \in 1..N : clusters[i] = Step(i, clusters[i - 1])
  <2>1. 0 \in 0..N /\ \A i \in 1..N : i \in 0..N /\ i # 0 BY <1>1
  <2>2. QED BY <1>10, <2>1
<1> DEFINE Good(x) == /\ {} \notin x /\ \A c \in x : c \subseteq Range(boxes)
                      /\ \A c, d \in x : c \cap d # {} => c = d
           T == {n \in Nat : n <= N => Good(clusters[n]) /\ \A i \in 1..n : Has(clusters[n], i)}
<1>12. 0 \in T BY <1>11
<1>13. ASSUME NEW n \in Nat, n \in T, n + 1 <= N
       PROVE  Good(clusters[n + 1]) /\ \A i \in 1..(n + 1) : Has(clusters[n + 1], i)
  <2>1. n + 1 \in 1..N /\ (n + 1) - 1 = n /\ n <= N /\ \A i \in 1..(n + 1) : i \in 1..n \/ i = n + 1
    <3> HIDE DEF T
    <3>1. QED BY <1>1, <1>13
  <2>2. Good(clusters[n]) /\ \A i \in 1..n : Has(clusters[n], i) BY <1>13, <2>1
  <2>3. clusters[n + 1] = Step(n + 1, clusters[n])
    <3> HIDE DEF Step, T
    <3>1. QED BY <1>11, <2>1
  <2> DEFINE x == clusters[n]
             y == boxes[n + 1]
             g == Gathered(boxes, x, y)
  <2>4. y \in B /\ y \in Range(boxes) BY <1>1, <2>1 DEF Range
  <2>5. /\ y \in g /\ \A z \in g : z = y \/ (z \in Range(boxes) /\ \A c \in x : z \notin c)
    BY <2>4, GatheredFacts
  <2>6. CASE Has(x, n + 1)
    <3>1. clusters[n + 1] = x BY <2>3, <2>6
    <3>2. Good(clusters[n + 1]) BY <2>2, <3>1
    <3>3. \A i \in 1..(n + 1) : Has(x, i) BY <2>1, <2>2, <2>6
    <3>4. QED BY <3>1, <3>2, <3>3
  <2>7. CASE ~Has(x, n + 1)
    <3>1. clusters[n + 1] = x \cup {g} BY <2>3, <2>7
    <3>2. \A c \in x : c \cap g = {} BY <2>5, <2>7
    <3>3. g # {} /\ g \subseteq Range(boxes) BY <2>4, <2>5
    <3>4. Good(x) /\ \A i \in 1..n : Has(x, i) BY <2>2
    <3>5. y \in g BY <2>5
    <3> HIDE DEF x, g, T
    <3>6. Good(x \cup {g}) BY <3>2, <3>3, <3>4
    <3>7. \A i \in 1..(n + 1) : Has(x \cup {g}, i) BY <2>1, <3>4, <3>5
    <3>8. QED BY <3>1, <3>6, <3>7
  <2>8. QED BY <2>6, <2>7
<1>14. \A n \in Nat : n \in T <=> (n <= N => Good(clusters[n]) /\ \A i \in 1..n : Has(clusters[n], i)) OBVIOUS
<1>15. \A n \in Nat : n \in T => n + 1 \in T
  <2> HIDE DEF T, Good, Has
  <2>1. QED BY <1>13, <1>14
<1> HIDE DEF T
<1>16. N \in T BY <1>1, <1>12, <1>15, AllNumbers
<1>17. Good(clusters[N]) /\ \A i \in 1..N : Has(clusters[N], i)
  <2> HIDE DEF Good, Has
  <2>1. QED BY <1>1, <1>14, <1>16
<1>18. UNION clusters[N] = Range(boxes) BY <1>1, <1>17 DEF Range
<1>19. QED BY <1>2, <1>17, <1>18

\* Boxes in the frame.
InFrame(b) ==
  /\ b[1] \in Nat /\ b[2] \in Nat /\ b[3] \in Nat /\ b[4] \in Nat /\ b[1] <= b[3] /\ b[2] <= b[4]
  /\ b[3] <= Width /\ b[4] <= Height

LEMMA MinOfSome == ASSUME NEW T \in SUBSET Nat, T # {} PROVE Min(T) \in T /\ \A t \in T : Min(T) <= t
PROOF BY LeastOf DEF Min

LEMMA MaxOfSome ==
  ASSUME NEW T \in SUBSET Nat, T # {}, NEW n \in Nat, \A t \in T : t <= n
  PROVE  Max(T) \in T /\ \A t \in T : t <= Max(T)
PROOF
<1> DEFINE U == {n - t : t \in T}
<1>1. U \subseteq Nat /\ U # {}
  <2>1. \A t \in T : n - t \in Nat
    <3>1. \A t \in T : t \in Nat /\ t <= n OBVIOUS
    <3>2. \A t \in Nat : t <= n => n - t \in Nat OBVIOUS
    <3>3. QED BY <3>1, <3>2
  <2>2. U \subseteq Nat
    <3>1. \A u \in U : \E t \in T : u = n - t OBVIOUS
    <3> HIDE DEF U
    <3>2. QED BY <2>1, <3>1
  <2>3. PICK t \in T : TRUE OBVIOUS
  <2>4. n - t \in U BY <2>3
  <2>5. QED BY <2>2, <2>4
<1>2. PICK u \in U : \A v \in U : u <= v
  <2> HIDE DEF U
  <2>1. QED BY <1>1, LeastOf
<1>3. PICK x \in T : u = n - x OBVIOUS
<1>4. \A t \in T : n - t \in U OBVIOUS
<1>5. \A t \in T : x >= t
  <2> HIDE DEF U
  <2>1. QED BY <1>2, <1>3, <1>4
<1>6. Max(T) \in T /\ \A t \in T : Max(T) >= t BY <1>5 DEF Max
<1>7. QED BY <1>6

\* A hull is in the frame, as its boxes are, and holds each of them.
LEMMA HullHolds ==
  ASSUME NEW c, c # {}, \A b \in c : InFrame(b)
  PROVE  LET hull == Hull(c) IN
         /\ InFrame(hull) /\ hull = <<hull[1], hull[2], hull[3], hull[4]>>
         /\ \A b \in c : BoxInside(hull, b)
PROOF
<1> DEFINE X1 == {b[1] : b \in c}
           Y1 == {b[2] : b \in c}
           X2 == {b[3] : b \in c}
           Y2 == {b[4] : b \in c}
<1>1. Width \in Nat /\ Height \in Nat BY RegionsAssumption
<1>2. X1 \subseteq Nat /\ Y1 \subseteq Nat /\ X2 \subseteq Nat /\ Y2 \subseteq Nat BY DEF InFrame
<1>3. X1 # {} /\ Y1 # {} /\ X2 # {} /\ Y2 # {} OBVIOUS
<1>4. (\A x \in X2 : x <= Width) /\ (\A y \in Y2 : y <= Height) BY DEF InFrame
<1>5. \A b \in c : b[1] \in X1 /\ b[2] \in Y1 /\ b[3] \in X2 /\ b[4] \in Y2 OBVIOUS
<1>6. Hull(c) = <<Min(X1), Min(Y1), Max(X2), Max(Y2)>> BY DEF Hull
<1> HIDE DEF X1, Y1, X2, Y2
<1>7. Min(X1) \in X1 /\ \A x \in X1 : Min(X1) <= x BY <1>2, <1>3, MinOfSome
<1>8. Min(Y1) \in Y1 /\ \A y \in Y1 : Min(Y1) <= y BY <1>2, <1>3, MinOfSome
<1>9. Max(X2) \in X2 /\ \A x \in X2 : x <= Max(X2) BY <1>1, <1>2, <1>3, <1>4, MaxOfSome
<1>10. Max(Y2) \in Y2 /\ \A y \in Y2 : y <= Max(Y2) BY <1>1, <1>2, <1>3, <1>4, MaxOfSome
<1> DEFINE hull == <<Min(X1), Min(Y1), Max(X2), Max(Y2)>>
<1>11. \A b \in c : BoxInside(hull, b) BY <1>5, <1>7, <1>8, <1>9, <1>10 DEF BoxInside
<1>12. InFrame(hull)
  <2>1. PICK b \in c : TRUE OBVIOUS
  <2>2. Min(X1) <= b[1] /\ b[1] <= b[3] /\ b[3] <= Max(X2) BY <1>5, <1>7, <1>9 DEF InFrame
  <2>3. Min(Y1) <= b[2] /\ b[2] <= b[4] /\ b[4] <= Max(Y2) BY <1>5, <1>8, <1>10 DEF InFrame
  <2>4. /\ b[1] \in Nat /\ b[2] \in Nat /\ b[3] \in Nat /\ b[4] \in Nat /\ Min(X1) \in Nat
        /\ Min(Y1) \in Nat /\ Max(X2) \in Nat /\ Max(Y2) \in Nat /\ Max(X2) <= Width /\ Max(Y2) <= Height
    BY <1>2, <1>4, <1>7, <1>8, <1>9, <1>10 DEF InFrame
  <2>5. QED BY <2>2, <2>3, <2>4 DEF InFrame
<1>13. QED BY <1>6, <1>11, <1>12

LEMMA SeqOfSet ==
  ASSUME NEW S, IsFiniteSet(S)
  PROVE  SetToSeq(S) \in Seq(S) /\ Range(SetToSeq(S)) = S
PROOF
<1> DEFINE n == Cardinality(S)
           q == SetToSeq(S)
<1>1. n \in Nat /\ ExistsBijection(1..n, S) BY FS_CardinalityType
<1>2. PICK f \in Bijection(1..n, S) : TRUE BY <1>1 DEF ExistsBijection
<1>3. f \in [1..n -> S] /\ IsInjective(f) BY <1>2 DEF Bijection, Injection
<1>4. q \in [1..n -> S] /\ IsInjective(q) BY <1>3 DEF SetToSeq
<1> HIDE DEF q
<1>5. q \in Injection(1..n, S) BY <1>4 DEF Injection
<1>6. Cardinality(1..n) = n
  <2> HIDE DEF n
  <2>1. QED BY <1>1, FS_Interval
<1>7. q \in Surjection(1..n, S) BY <1>5, <1>6, FS_Injection
<1>8. Range(q) = S BY <1>7 DEF Surjection, Range
<1>9. q \in Seq(S)
  <2> HIDE DEF n
  <2>1. QED BY <1>1, <1>4
<1>10. QED BY <1>8, <1>9 DEF q

\* "Regions covering every box" (regions.py:108, regions_for): each of a set of boxes in the frame
\* is inside a region, itself in the frame, where those of its cluster fit one together.
THEOREM RegionsCoverClusters ==
  ASSUME NEW B, IsFiniteSet(B), \A b \in B : InFrame(b), MinRegion >= 9,
         \A c \in ClusterCandidates(SetToSeq(B)) : Fitting(Hull(c))
  PROVE  \A b \in B : \E r \in RegionsFor(B) :
           BoxInside(r, b) /\ BoxInside(<<0, 0, Width, Height>>, r)
PROOF
<1> DEFINE boxes == SetToSeq(B)
           clusters == ClusterCandidates(boxes)
<1>1. boxes \in Seq(B) /\ Range(boxes) = B BY SeqOfSet
<1> HIDE DEF boxes
<1>2. UNION clusters = B /\ {} \notin clusters BY <1>1, ClustersPartition
<1> SUFFICES ASSUME NEW b \in B
             PROVE  \E r \in RegionsFor(B) : BoxInside(r, b) /\ BoxInside(<<0, 0, Width, Height>>, r)
  OBVIOUS
<1>3. PICK c \in clusters : b \in c BY <1>2
<1> DEFINE hull == Hull(c)
           x1 == hull[1]
           y1 == hull[2]
           x2 == hull[3]
           y2 == hull[4]
           r == CalculateRegion(hull, 27, 20)
<1>4. c # {} /\ \A o \in c : InFrame(o) BY <1>2, <1>3
<1>5. InFrame(hull) /\ hull = <<x1, y1, x2, y2>> /\ BoxInside(hull, b) BY <1>3, <1>4, HullHolds
<1>6. Fitting(hull) BY <1>3 DEF boxes
<1>7. ClusterRegion(c) = r BY DEF ClusterRegion
<1>8. r \in RegionsFor(B) BY <1>3, <1>7 DEF RegionsFor, boxes
<1> HIDE DEF hull
<1>9. /\ x1 \in Nat /\ y1 \in Nat /\ x2 \in Nat /\ y2 \in Nat /\ x1 <= x2 /\ y1 <= y2
      /\ x2 <= Width /\ y2 <= Height
  BY <1>5 DEF InFrame
<1>10. BoxInside(<<0, 0, Width, Height>>, <<x1, y1, x2, y2>>) BY <1>9 DEF BoxInside
<1>11. Fitting(<<x1, y1, x2, y2>>) BY <1>5, <1>6
<1>12. r = CalculateRegion(<<x1, y1, x2, y2>>, 27, 20) BY <1>5
<1> HIDE DEF x1, y1, x2, y2, r
<1>a. <<27, 20>> \in {<<27, 20>>, <<2, 1>>} /\ MinRegion >= 9 OBVIOUS
<1>13. /\ BoxInside(<<0, 0, Width, Height>>, r) /\ BoxInside(r, <<x1, y1, x2, y2>>)
       /\ r[1] \in Nat /\ r[2] \in Nat /\ r[3] \in Nat /\ r[4] \in Nat
  <2> DEFINE Holds(region, box) ==
               /\ BoxInside(<<0, 0, Width, Height>>, region) /\ BoxInside(region, box)
               /\ region[1] \in Nat /\ region[2] \in Nat /\ region[3] \in Nat /\ region[4] \in Nat
             Fitted(box) == BoxInside(<<0, 0, Width, Height>>, box) /\ Fitting(box)
  <2>1. ASSUME NEW a \in Nat, NEW e \in Nat, NEW f \in Nat, NEW g \in Nat, a <= f, e <= g,
               Fitted(<<a, e, f, g>>)
        PROVE  Holds(CalculateRegion(<<a, e, f, g>>, 27, 20), <<a, e, f, g>>)
    BY <1>a, <2>1, RegionHoldsItsBox
  <2> HIDE DEF Holds, Fitted
  <2>2. \A a, e, f, g \in Nat : a <= f /\ e <= g /\ Fitted(<<a, e, f, g>>)
                               => Holds(CalculateRegion(<<a, e, f, g>>, 27, 20), <<a, e, f, g>>)
    BY <2>1
  <2>3. Fitted(<<x1, y1, x2, y2>>) BY <1>10, <1>11 DEF Fitted
  <2>4. Holds(CalculateRegion(<<x1, y1, x2, y2>>, 27, 20), <<x1, y1, x2, y2>>)
    BY <1>9, <2>2, <2>3
  <2>5. QED BY <1>12, <2>4 DEF Holds
<1>14. BoxInside(r, hull) BY <1>5, <1>13
<1>15. BoxInside(r, b)
  <2>1. /\ hull[1] >= r[1] /\ hull[2] >= r[2] /\ hull[3] <= r[3] /\ hull[4] <= r[4]
        /\ b[1] >= hull[1] /\ b[2] >= hull[2] /\ b[3] <= hull[3] /\ b[4] <= hull[4]
    BY <1>5, <1>14 DEF BoxInside
  <2>2. /\ hull[1] \in Int /\ hull[2] \in Int /\ hull[3] \in Int /\ hull[4] \in Int
        /\ b[1] \in Int /\ b[2] \in Int /\ b[3] \in Int /\ b[4] \in Int
    BY <1>5 DEF InFrame
  <2>3. r[1] \in Int /\ r[2] \in Int /\ r[3] \in Int /\ r[4] \in Int
    BY <1>13
  <2>4. QED BY <2>1, <2>2, <2>3 DEF BoxInside
<1>16. QED BY <1>8, <1>13, <1>15

-----------------------------------------------------------------------------
(* The parts side by side                                                  *)

LEMMA VisionStepIsAPart ==
  VisionNext => /\ [MatchNext]_matchVars /\ [AnswersNext]_answersVars /\ [ParkingNext]_parkingVars
                /\ [ZonesNext]_zoneVars /\ [FaceNext]_faceVars /\ [KnownFacesNext]_faceDbVars
                /\ [HelperNext]_helperVars /\ [LinksNext]_linkVars /\ [Next]_vars
PROOF BY DEF VisionNext, On

\* A behaviour of the parts side by side is one of each of them, and of the camera event of a
\* person with their face.
LEMMA VisionHasItsParts ==
  VisionSpec => /\ MatchSpec /\ AnswersSpec /\ ParkingSpec /\ ZonesSpec /\ FaceSpec
                /\ KnownFacesSpec /\ HelperSpec /\ LinksSpec /\ Init /\ [][Next]_vars
PROOF
<1>1. VisionInit => /\ MatchInit /\ AnswersInit /\ ParkingInit /\ ZonesInit /\ FaceInit
                    /\ KnownFacesInit /\ HelperInit /\ LinksInit /\ Init
  BY DEF VisionInit
<1>2. [VisionNext]_visionVars =>
        /\ [MatchNext]_matchVars /\ [AnswersNext]_answersVars /\ [ParkingNext]_parkingVars
        /\ [ZonesNext]_zoneVars /\ [FaceNext]_faceVars /\ [KnownFacesNext]_faceDbVars
        /\ [HelperNext]_helperVars /\ [LinksNext]_linkVars /\ [Next]_vars
  BY VisionStepIsAPart DEF visionVars
<1>3. QED
  BY <1>1, <1>2, PTL DEF VisionSpec, MatchSpec, AnswersSpec, ParkingSpec, ZonesSpec, FaceSpec,
                         KnownFacesSpec, HelperSpec, LinksSpec

\* Faces are named from pictures of them, against the faces saved, and are their people's.
THEOREM FacesKnown == VisionSpec => []FacesAreKnown
PROOF
<1>1. FacesAreNamed /\ FacesAreThoseSaved /\ FacesFindTheirPeople => FacesAreKnown BY DEF FacesAreKnown
<1>2. QED BY <1>1, VisionHasItsParts, NamesAreEarned, SavedFacesAreKnown, FacesToTheirPeople, PTL

\* What is told of a vehicle was asked of it, and of its crop.
THEOREM VehiclesKnown == VisionSpec => []VehiclesAreKnown
PROOF
<1>1. AnswersAreAwaited /\ HelperAnswersItsCall => VehiclesAreKnown BY DEF VehiclesAreKnown
<1>2. QED BY <1>1, VisionHasItsParts, AnswersCome, AnswersBelong, PTL

\* The event of a person with their face follows both, and its leave names both.
THEOREM FaceKeepsInStep == VisionSpec => []FaceInStep
PROOF
<1>1. Inv => FaceInStep BY InvFacts DEF FaceInStep
<1>2. QED BY <1>1, VisionHasItsParts, StepsKeepInv, PTL
=============================================================================

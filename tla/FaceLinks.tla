------------------------------ MODULE FaceLinks ------------------------------
(***************************************************************************)
(* Whose face a face is (avclient.py).  Faces are found in the crops of    *)
(* people; a tick hands each face found to the face track of the person it *)
(* belongs to, whatever the tracker made of it, and then links each face   *)
(* track with a person and each person with a face track.  The leave of an *)
(* event says which face is whose.                                         *)
(*                                                                         *)
(* Tracks of people and of faces, one camera.  Where boxes lie is an       *)
(* observation: by whom a face was found or is held, and who moves.        *)
(***************************************************************************)
EXTENDS Integers, Sequences, FiniteSets, SequencesExt

CONSTANTS
  Person,  \* tracks of people, ever
  Face,    \* tracks of faces, ever
  NoneYet,
  MaxFound \* bound of the model: faces found in a tick

ASSUME LinksAssumption ==
  NoneYet \notin Person \cup Face /\ Person \cap Face = {} /\ MaxFound \in Nat

VARIABLES
  at,        \* each track: "new", "here", "recent" (closed, may resume), "gone"
  personTid, \* person_tid of each face's track
  faceTid,   \* face_tid of each person's
  strayed    \* history: faces whose track came to be linked with a second person

linkVars == <<at, personTid, faceTid, strayed>>

InView(S) == {t \in S : at[t] = "here"}

LinksInit ==
  /\ at = [t \in Person \cup Face |-> "new"]
  /\ personTid = [f \in Face |-> NoneYet] /\ faceTid = [p \in Person |-> NoneYet]
  /\ strayed = {}

-----------------------------------------------------------------------------
(* The faces found                                                         *)

\* A face found: the track the tracker gives it (raw); whose it is to the eye: the person whose
\* crop it was found in while their box still overlaps, or whose box holds it best; and whether it
\* is one found before in another crop.  In the order they are gone through, those at a head first.
Found == [raw : InView(Face) \cup {NoneYet}, seen : InView(Person) \cup {NoneYet}, twin : BOOLEAN]
Founds ==
  {s \in UNION {[1..n -> Found] : n \in 0..MaxFound} :
     \A i, j \in DOMAIN s : /\ s[i].twin => i > 1
                            /\ i # j => s[i].raw # s[j].raw \/ s[i].raw = NoneYet}

\* Failing that it is the only moving person's.
FaceOwner(d, moving) ==
  IF d.seen # NoneYet THEN d.seen
  ELSE IF Cardinality(moving) = 1 THEN CHOOSE p \in moving : TRUE ELSE NoneYet

\* What the tracker made of them: which each track is given (0: none) and which are unclaimed;
\* claimed, the people who have a face of this read.
Tracked(found) ==
  [matches |-> [f \in Face |-> IF \E i \in DOMAIN found : found[i].raw = f
                               THEN CHOOSE i \in DOMAIN found : found[i].raw = f ELSE 0],
   unclaimed |-> {i \in DOMAIN found : found[i].raw = NoneYet}, claimed |-> {}]

Unmatched(acc, i) ==
  [acc EXCEPT !.matches = [f \in Face |-> IF acc.matches[f] = i THEN 0 ELSE acc.matches[f]],
              !.unclaimed = @ \ {i}]

\* Given to f, and taken from the track that had it; what f had is unclaimed.
GiveFace(acc, i, f) ==
  [Unmatched(acc, i) EXCEPT !.matches[f] = i, !.unclaimed = @ \cup ({acc.matches[f]} \ {0, i})]

MatchOne(acc, i, d, owner) ==
  IF d.twin \/ owner \in acc.claimed THEN Unmatched(acc, i)
  ELSE IF owner = NoneYet THEN acc
  ELSE LET mine == [acc EXCEPT !.claimed = @ \cup {owner}] IN
       IF faceTid[owner] \in InView(Face) THEN GiveFace(mine, i, faceTid[owner]) ELSE mine

MatchFacesToPeople(found, moving) ==
  LET matched[i \in 0..Len(found)] ==
        IF i = 0 THEN Tracked(found)
        ELSE MatchOne(matched[i - 1], i, found[i], FaceOwner(found[i], moving))
  IN matched[Len(found)]

-----------------------------------------------------------------------------
(* The tick                                                                *)

\* A person's track begins, resumes, goes on, closes; or was dropped before it was confirmed, or
\* not resumed in time.
PersonStep == [new |-> {"new", "here"}, here |-> {"here", "recent", "gone"},
               recent |-> {"here", "recent", "gone"}, gone |-> {"gone"}]
PeopleSteps == {s \in [Person -> DOMAIN PersonStep] : \A p \in Person : s[p] \in PersonStep[at[p]]}

\* A face given none may close, unless its person is tracked and moves; those unclaimed begin a
\* track or resume one, or are nothing.
FaceStep(f, given, opened, attended) ==
  CASE f \in opened \/ f \in given -> {"here"}
    [] at[f] = "here" -> IF personTid[f] \in attended THEN {"here"} ELSE PersonStep["here"]
    [] OTHER -> PersonStep[at[f]] \ {"here"}
FaceSteps(given, opened, attended) ==
  {s \in [Face -> DOMAIN PersonStep] : \A f \in Face : s[f] \in FaceStep(f, given, opened, attended)}

\* Each face in view belongs to the person it is linked with while they are, else to one by its
\* place, if any; each person whose face is not in view has the first one linked with them.
LinkFaces ==
  LET people == {p \in Person : at'[p] = "here"}
      faces == {f \in Face : at'[f] = "here"}
      linked(p) == {f \in faces : personTid'[f] = p}
  IN /\ personTid' \in {r \in [Face -> Person \cup {NoneYet}] : \A f \in Face :
          r[f] # personTid[f] => f \in faces /\ personTid[f] \notin people /\ r[f] \in people}
     /\ faceTid' \in {r \in [Person -> Face \cup {NoneYet}] : \A p \in Person :
          IF p \in people /\ faceTid[p] \notin faces /\ linked(p) # {}
          THEN r[p] \in linked(p) ELSE r[p] = faceTid[p]}
     /\ strayed' = strayed \cup {f \in Face : personTid[f] \notin {NoneYet, personTid'[f]}}

\* What a read of faces comes to: who is given one, how many are left unclaimed.
Reads ==
  {LET m == MatchFacesToPeople(r.found, r.moving)
   IN [given |-> {f \in Face : m.matches[f] # 0}, unclaimed |-> Cardinality(m.unclaimed),
       moving |-> r.moving] : r \in [found : Founds, moving : SUBSET InView(Person)]}

FacesTick ==
  \E r \in Reads :
    \E opened \in SUBSET {f \in Face : at[f] \in {"new", "recent"}}, people \in PeopleSteps :
      /\ Cardinality(opened) <= r.unclaimed
      /\ \E faces \in FaceSteps(r.given, opened, {p \in r.moving : people[p] = "here"}) :
           at' = [t \in Person \cup Face |-> IF t \in Person THEN people[t] ELSE faces[t]]
      /\ LinkFaces

LinksNext == FacesTick

LinksSpec == LinksInit /\ [][LinksNext]_linkVars

\* Whose face the leave of an event of the members says a face is (by face_tid).
AssociateFaces(members) ==
  {<<p, faceTid[p]>> : p \in {q \in members \cap Person : faceTid[q] \in members}}

-----------------------------------------------------------------------------
(* Properties                                                              *)

LinksTypeOK ==
  /\ at \in [Person \cup Face -> {"new", "here", "recent", "gone"}]
  /\ personTid \in [Face -> Person \cup {NoneYet}] /\ faceTid \in [Person -> Face \cup {NoneYet}]
  /\ strayed \subseteq Face

\* Whatever is found, and whatever the tracker makes of it: a face goes to one track, or opens
\* one, or is a second picture of a face that does; and the first that is of a person goes to
\* that person's own face track, whose face goes nowhere else.
EachFaceOnce ==
  \A found \in Founds, moving \in SUBSET InView(Person) :
    LET m == MatchFacesToPeople(found, moving)
        owner(i) == FaceOwner(found[i], moving)
        second(i) == found[i].twin \/ \E j \in 1..(i - 1) :
                       owner(i) = owner(j) /\ owner(i) # NoneYet /\ ~found[j].twin
    IN \A i \in DOMAIN found :
         LET takers == {f \in Face : m.matches[f] = i} IN
         /\ Cardinality(takers) = IF second(i) \/ i \in m.unclaimed THEN 0 ELSE 1
         /\ ~(second(i) /\ i \in m.unclaimed)
         /\ LET own == IF owner(i) = NoneYet THEN NoneYet ELSE faceTid[owner(i)] IN
            ~second(i) /\ own \in InView(Face) /\ own \notin strayed => takers = {own}

\* Who the leave says a face belongs to is one person, except a face whose person went and who was
\* taken for another's since.
OneOwner ==
  \A l1, l2 \in AssociateFaces({t \in Person \cup Face : at[t] \in {"here", "recent"}}) :
    l1[2] = l2[2] /\ l1 # l2 => l1[2] \in strayed

FacesFindTheirPeople == EachFaceOnce /\ OneOwner
=============================================================================

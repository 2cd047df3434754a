------------------------------- MODULE MCVision -------------------------------
(* The parts of the AI Port that look at pictures, but for the tracks of the other runs; they    *)
(* share no state with one another.  And a person with their face before one camera.  A          *)
(* behaviour is one of one of them, `focus`.                                                     *)
EXTENDS Matching, MCRegions, VehicleAnswers, MCParking, Zones, FaceNames, KnownFaces,
        VehicleHelper, FaceLinks, Plates, CameraEvent, TLC

CONSTANTS p1, p2, f1, f2, c1, c2, s1, s2

VARIABLE focus

\* Two places beside each other; a thing of another size than the first, which overlaps the second.
Here1 == [type |-> "car", box |-> <<0, 40>>]
Here2 == [type |-> "car", box |-> <<30, 40>>]
Wide == [type |-> "car", box |-> <<39, 90>>]
MCScenes == {{Here1, Here2}, {Here1, Wide}, {Here2, Wide},
             {Here1, [type |-> "person", box |-> <<20, 40>>]}}
MCNorfairType == <<"car", "car">>

\* Two zones side by side with a slanted border, one for people across both, and two that are none.
Drawn(id, coord, listed) == [id |-> id, coord |-> coord, types |-> listed, dict |-> TRUE]
Left == Drawn(2, <<<<0, 0>>, <<4, 0>>, <<6, 4>>, <<0, 4>>>>, {"any"})
Right == Drawn(1, <<<<4, 0>>, <<9, 0>>, <<9, 4>>, <<6, 4>>>>, {"car", "person"})
People == Drawn(3, <<<<2, 1>>, <<8, 1>>, <<8, 3>>>>, {"person"})
Speck == Drawn(4, <<<<2, 1>>, <<8, 1>>>>, {"any"})
Broken == [Drawn(5, <<>>, {}) EXCEPT !.dict = FALSE]
MCZone == {Left, Right, People, Speck, Broken}
MCSettings == {Omitted, <<>>, <<Left, Right>>, <<People, Speck, Right>>, <<Right, Broken>>}
MCFoot == {<<2, 2>>, <<5, 2>>, <<7, 2>>}

\* A plate, as it is; with one character misread; without its last; and with two left.
MCPlateText == {<<1, 2, 3, 4>>, <<1, 2, 5, 4>>, <<1, 2, 3>>, <<1, 2>>}

\* The camera event is that of a person and their face.
MCPair == {p1, f1}
MCTypes == p1 :> "person" @@ f1 :> "face"

visionVars == <<focus, matchVars, regionVars, answersVars, parkingVars, zoneVars, faceVars,
                faceDbVars, helperVars, linkVars, plateVars, vars>>

Foci == {"matching", "regions", "answers", "parking", "zones", "names", "database",
         "helper", "links", "plates", "face"}

VisionInit ==
  /\ focus \in Foci
  /\ MatchInit /\ RegionsInit /\ AnswersInit /\ ParkingInit /\ ZonesInit /\ FaceInit
  /\ KnownFacesInit /\ HelperInit /\ LinksInit /\ PlatesInit /\ Init
  /\ focus # "matching" => tracker = "norfair" /\ scene = {Here1, Wide}
  /\ focus # "regions" => objects = {Car(1, 1)}

\* A step of part; nothing else changes.
On(part) ==
  /\ focus = part /\ UNCHANGED focus
  /\ IF part = "matching" THEN TRUE ELSE UNCHANGED matchVars
  /\ IF part = "regions" THEN TRUE ELSE UNCHANGED regionVars
  /\ IF part = "answers" THEN TRUE ELSE UNCHANGED answersVars
  /\ IF part = "parking" THEN TRUE ELSE UNCHANGED parkingVars
  /\ IF part = "zones" THEN TRUE ELSE UNCHANGED zoneVars
  /\ IF part = "names" THEN TRUE ELSE UNCHANGED faceVars
  /\ IF part = "database" THEN TRUE ELSE UNCHANGED faceDbVars
  /\ IF part = "helper" THEN TRUE ELSE UNCHANGED helperVars
  /\ IF part = "links" THEN TRUE ELSE UNCHANGED linkVars
  /\ IF part = "plates" THEN TRUE ELSE UNCHANGED plateVars
  /\ IF part = "face" THEN TRUE ELSE UNCHANGED vars

VisionNext ==
  \/ On("matching") /\ MatchNext
  \/ On("regions") /\ RegionsNext
  \/ On("answers") /\ AnswersNext
  \/ On("parking") /\ ParkingNext
  \/ On("zones") /\ ZonesNext
  \/ On("names") /\ FaceNext
  \/ On("database") /\ KnownFacesNext
  \/ On("helper") /\ HelperNext
  \/ On("links") /\ LinksNext
  \/ On("plates") /\ PlatesNext
  \/ On("face") /\ Next

VisionSpec == VisionInit /\ [][VisionNext]_visionVars

\* A face confirms and takes part with its person: the event follows both, and its leave names
\* both, also when the face outlives its own misses while the person is tracked.
FaceInStep == EventFollowsActive /\ LeavesNameEach

VisionTypeOK == CASE focus = "matching" -> MatchTypeOK
                  [] focus = "regions" -> RegionsTypeOK
                  [] focus = "answers" -> AnswersTypeOK
                  [] focus = "parking" -> ParkingTypeOK
                  [] focus = "zones" -> ZonesTypeOK
                  [] focus = "names" -> FaceTypeOK
                  [] focus = "database" -> KnownFacesTypeOK
                  [] focus = "helper" -> HelperTypeOK
                  [] focus = "links" -> LinksTypeOK
                  [] focus = "plates" -> PlatesTypeOK
                  [] focus = "face" -> TypeOK

\* A face is named from pictures of it, against the faces Protect sent, and is its person's: what
\* each part holds is only asked while that part is in focus.
FacesAreKnown == CASE focus = "names" -> FacesAreNamed
                   [] focus = "database" -> FacesAreThoseSaved
                   [] focus = "links" -> FacesFindTheirPeople
                   [] OTHER -> TRUE

\* What is told of a vehicle: its crop's answer is awaited and is its own.
VehiclesAreKnown == CASE focus = "answers" -> AnswersAreAwaited
                      [] focus = "helper" -> HelperAnswersItsCall
                      [] OTHER -> TRUE

\* What is measured comes out right: the regions looked at, the borders of zones, and the vote
\* on a plate.
PicturesAreRead == CASE focus = "regions" -> RegionsAreBacked
                     [] focus = "zones" -> BordersAreOwned
                     [] focus = "plates" -> NoMisreadSticks
                     [] OTHER -> TRUE
===============================================================================

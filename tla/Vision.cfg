SPECIFICATION VisionSpec
CONSTANTS
  p1 = p1  p2 = p2  f1 = f1  f2 = f2  c1 = c1  c2 = c2  s1 = s1  s2 = s2
  Scenes <- MCScenes  NorfairType <- MCNorfairType  MaxTracks = 2  MaxSeen = 2
  Width = 40  Height = 24  MinRegion = 12  CutEdge = 0  RedoMax = 3  Recheck = 2  Scene <- MCScene
  Vehicle = {c1, c2}  Spot = {s1}  QueueMax = 1  MaxCrops = 2  HoldFor = 1
  StillTicks = 2  ResumeTicks = 2  Sights <- MCSights
  Zone <- MCZone  Settings <- MCSettings  Omitted = Omitted  Foot <- MCFoot  DetectedType = "car"
  Subject = {s1, s2}  NoSubject = NoSubject  Hits = 2  HoldReads = 3  MaxShots = 3  MaxOffers = 2
  MaxCalls = 3  Person = {p1, p2}  Face = {f1, f2}  NoneYet = NoneYet  MaxFound = 2
  PlateText <- MCPlateText  Conf = {40, 95}  NoPlate = NoPlate  Keep = 4  Agree = 3
  Tid <- MCPair  ObjectType <- MCTypes
  MissTolerance = 1  ParkedTolerance = 1  StartupWindow = 1  EventMax = 2  MaxEvents = 2
INVARIANTS
  VisionTypeOK MatchesAreSound PicturesAreRead VehiclesAreKnown RejoinsOnEvidence ZonesAreAsDrawn
  FacesAreKnown FaceInStep
PROPERTIES
  FollowedKeepsTrack
CHECK_DEADLOCK FALSE

SPECIFICATION PortSpec
CONSTANTS
  t1 = t1  w1 = w1  w2 = w2  i1 = i1  i2 = i2  n1 = n1  n2 = n2  n3 = n3  p1 = p1  p2 = p2
  l1 = l1  l2 = l2  u1 = u1  u2 = u2  k1 = k1  k2 = k2
  Token = {t1}  Writer = {w1, w2}  None = None
  ClassicHost = TRUE  Ucp4Host = TRUE  Body <- MCBody
  Name = {i1, i2}  Process = {p1, p2}  Identity = {1, 2, 3, 4, 5}  MaxDisturbances = 1
  Nobody = Nobody
  LeaveId = {l1, l2}  LeaveCamera <- MCLeaveCamera  Snapshot = {n1, n2, n3}
  MapMax = 2  MaxNames = 2  MaxAsks = 1  Unsaid = Unsaid  NoLeave = NoLeave  NoRequest = NoRequest
  Line = {k1, k2}  Ends <- MCEnds  Spanning = {k1, k2}  Place <- MCPlace  MaxCrossings = 2
  JpegEvery = {1, 2}  JpegKeep = 2  Pictures <- MCPictures  NoPicture = NoPicture
INVARIANTS
  PortTypeOK AdoptionIsHonest AgreeAtRest NoticedIsLeftOnce RightCamera LinesAddUp OnePicture
PROPERTIES
  DestroyedIsGone
CHECK_DEADLOCK FALSE

SPECIFICATION InstanceSpec
CONSTANTS
  p1 = p1  p2 = p2  p3 = p3  c1 = c1  c2 = c2  NotTold = NotTold
  Proc = {p1, p2, p3}  MaxSignals = 2
  Camera = {c1, c2}  OnvifCamera = {c2}
  Health = {"good", "bad"}  Started = "good"  Stopped = "bad"
  Cost = {2}
  q1 = q1  q2 = q2  q3 = q3
  Pull <- MCPulls  NoPull = NoPull  Onvif = TRUE  MaxCount = 2
  video1 = video1  u1 = u1  u2 = u2  d1 = d1  d2 = d2  bad = bad
  Channel = {video1}  Slot = {1, 2}  Url = {u1, u2}  Destination = {d1, d2, bad}  Bad = {bad}
  NoUrl = NoUrl  NoDestination = NoDestination  NoPush = NoPush  Untouched = Untouched
INVARIANTS
  InstanceTypeOK NoOrphans SpeaksWhereTold
  OnePullUncrossed StoppedStaysUncrossed Supervised PushesAreOwned ResumesAsAsked
PROPERTIES
  AllOrNone HealthBecomesKnown BackoffGrows Recovers StoppedEnds

\* A push is stopped while it connects.
SPECIFICATION PushSpec
CONSTANTS
  video1 = video1  u1 = u1  u2 = u2  d1 = d1  d2 = d2  bad = bad
  Channel = {video1}
  Slot = {1, 2, 3}
  Url = {u1, u2}
  Destination = {d1, d2, bad}
  Bad = {bad}
  NoUrl = NoUrl  NoDestination = NoDestination  NoPush = NoPush  Untouched = Untouched
INVARIANTS StoppedPushesNothing

\* A stop in the middle of a restart.
SPECIFICATION PullSpec
CONSTANTS
  q1 = q1  q2 = q2  q3 = q3
  Pull <- MCPulls
  NoPull = NoPull
  Onvif = TRUE
  MaxCount = 3
INVARIANTS StoppedStays

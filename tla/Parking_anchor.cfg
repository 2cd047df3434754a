\* A vehicle whose spot always looks the same.
SPECIFICATION ParkingSpec
CONSTANTS
  StillTicks = 2
  ResumeTicks = 2
  Sights <- MCSights
INVARIANTS SameSpotStays
CHECK_DEADLOCK FALSE

SPECIFICATION RegionsSpec
CONSTANTS
  Width = 40  Height = 24  MinRegion = 12  CutEdge = 0  RedoMax = 3  Recheck = 2  Scene <- MCScene
INVARIANTS
  RegionsCover
CHECK_DEADLOCK FALSE

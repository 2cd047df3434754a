\* A track that never was in a zone closes while another has an event.
SPECIFICATION Spec
CONSTANTS
  p1 = p1  v1 = v1
  Tid <- MCMixed
  ObjectType <- MCTypes
  MissTolerance = 1
  ParkedTolerance = 1
  StartupWindow = 1
  EventMax = 2
  MaxEvents = 2
INVARIANTS FinishedWereZoned

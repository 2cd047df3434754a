\* Two people before one camera; the loop, its orphan and the receiver thread.
SPECIFICATION ControlSpec
CONSTANTS
  p1 = p1  p2 = p2  f1 = f1
  Tid <- MCPeople
  ObjectType <- MCTypes
  MissTolerance = 1
  ParkedTolerance = 1
  StartupWindow = 1
  EventMax = 1
  MaxEvents = 2
INVARIANTS ControlTypeOK StoppedIsLeft OneInProgress
PROPERTIES QuietAfterLeave
SYMMETRY MCSymmetry
VIEW MCView

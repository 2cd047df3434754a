\* A person and a car before one camera, over one event; MCVision has two of a person and a face,
\* and the proofs any number.
SPECIFICATION Spec
CONSTANTS
  p1 = p1  v1 = v1
  Tid <- MCMixed
  ObjectType <- MCTypes
  MissTolerance = 1
  ParkedTolerance = 1
  StartupWindow = 1
  EventMax = 2
  MaxEvents = 1
INVARIANTS TypeOK EventFollowsActive LeavesNameEach
PROPERTIES ImplementsProtocol

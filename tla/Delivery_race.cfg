\* The timer of a multi-tracker leave looks between the pop of a request and its mark.
SPECIFICATION DeliverySpec
CONSTANTS
  n1 = n1  n2 = n2  n3 = n3  l1 = l1  l2 = l2  u1 = u1  u2 = u2
  LeaveId = {l1, l2}  LeaveCamera <- MCLeaveCamera  Snapshot = {n1, n2, n3}
  MapMax = 2  MaxNames = 2  MaxAsks = 1  Unsaid = Unsaid  NoLeave = NoLeave  NoRequest = NoRequest
INVARIANTS AnsweredIsLeftOnce
CHECK_DEADLOCK FALSE

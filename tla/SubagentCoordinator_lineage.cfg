SPECIFICATION Spec
CONSTANTS
  Ids = {i1, i2}
  Sessions = {s1}
  Runs = {}
  Queriers = {}
  s1 = s1
  p1 = p1
  w1 = w1
  l1 = l1
  None = None
  Requests <- NestedRequests
  MaxConcurrent = 1
  LimitBehavior = "Queue"
  BufferCompletions = FALSE
  MaxCompleted = 2
  MaxBuffered = 0
SYMMETRY IdSymmetry
INVARIANTS StopReachesLineage
CHECK_DEADLOCK FALSE

SPECIFICATION Spec
CONSTANTS
  Ids = {i1, i2, i3}
  Sessions = {s1}
  Runs = {}
  Queriers = {}
  s1 = s1
  p1 = p1
  w1 = w1
  l1 = l1
  None = None
  Requests <- QueueRequests
  MaxConcurrent = 1
  LimitBehavior = "Queue"
  BufferCompletions = TRUE
  MaxCompleted = 2
  MaxBuffered = 1
SYMMETRY IdSymmetry
INVARIANTS TypeOK CapAndQueue ExitIsClean CallersServed
PROPERTIES NoOvertaking
CHECK_DEADLOCK FALSE

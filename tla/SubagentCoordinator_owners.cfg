SPECIFICATION Spec
CONSTANTS
  Ids = {i1, i2}
  Sessions = {s1}
  Runs = {w1}
  Queriers = {q1}
  s1 = s1
  p1 = p1
  w1 = w1
  l1 = l1
  None = None
  Requests <- OwnerRequests
  MaxConcurrent = 1
  LimitBehavior = "Queue"
  BufferCompletions = TRUE
  MaxCompleted = 1
  MaxBuffered = 1
SYMMETRY IdSymmetry
INVARIANTS StopHolds ParkedHaveCause CompletionsDelivered DeleteIsQuiet
CHECK_DEADLOCK FALSE

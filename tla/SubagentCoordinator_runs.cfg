SPECIFICATION RunSpec
CONSTANTS
  Ids = {i1, i2}
  Sessions = {s1}
  Runs = {w1}
  Queriers = {}
  s1 = s1
  p1 = p1
  w1 = w1
  l1 = l1
  None = None
  Requests <- EndingRequests
  MaxConcurrent = 1
  LimitBehavior = "Queue"
  BufferCompletions = FALSE
  MaxCompleted = 2
  MaxBuffered = 0
PROPERTIES QueueServed
CHECK_DEADLOCK FALSE

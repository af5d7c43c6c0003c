SPECIFICATION FairSpec
CONSTANTS
  Producers = {p1, p2}
  p1 = p1
  p2 = p2
  BufferSize = 3
  AssertMetricsBuffer = TRUE
  MaxEvents = 6
INVARIANT Conservation
PROPERTIES ImplementsQueue JoinReturns
CHECK_DEADLOCK FALSE

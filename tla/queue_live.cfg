SPECIFICATION FairSpec
CONSTANTS
  b1 = b1  b2 = b2  p1 = p1  p2 = p2
  Batches = {b1, b2}
  Pages = {p1, p2}
  Route <- MixedRoute
  Workers = {w1}
  Clis = {}
  Threads = {}
  MayRaise = {b2}
  MayBeBlank <- NoBlanks
  MaxLife = 3
  MaxCopies = 16
  None = None
INVARIANT HealthyNotStranded
INVARIANT GroupedAfterRead
PROPERTY DeadPassRequeued
PROPERTY HealthyBatchFinishes
CHECK_DEADLOCK FALSE

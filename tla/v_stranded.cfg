SPECIFICATION Spec
CONSTANTS
  b1 = b1  b2 = b2  p1 = p1  p2 = p2
  Batches = {b1}
  Pages = {p1}
  Route <- RowsRoute
  Workers = {w1}
  Clis = {}
  Threads = {}
  MayRaise = {b1}
  MayBeBlank <- NoBlanks
  MaxLife = 3
  MaxCopies = 16
  None = None
INVARIANT NotStranded
CHECK_DEADLOCK FALSE

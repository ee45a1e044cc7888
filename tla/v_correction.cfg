SPECIFICATION FairSpec
CONSTANTS
  b1 = b1  b2 = b2  p1 = p1  p2 = p2
  Batches = {b1}
  Pages = {p1}
  Route <- RowsRoute
  Workers = {w1}
  Clis = {}
  Threads = {t1}
  MayRaise = {}
  MayBeBlank <- NoBlanks
  MaxLife = 1
  MaxCopies = 16
  None = None
PROPERTY CorrectionIsRead
CHECK_DEADLOCK FALSE

SPECIFICATION Spec
CONSTANTS
  b1 = b1  b2 = b2  p1 = p1  p2 = p2
  Batches = {b1}
  Pages = {p1}
  Route <- RowsRoute
  Workers = {}
  Clis = {c1}
  Threads = {t1}
  MayRaise = {b1}
  MayBeBlank <- FirstBlank
  MaxLife = 1
  MaxCopies = 5
  None = None
INVARIANT TypeOK
PROPERTY AgreementLostOnlyToStaleCopy
CHECK_DEADLOCK FALSE

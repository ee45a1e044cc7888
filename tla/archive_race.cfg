SPECIFICATION Spec
CONSTANTS
  p1 = p1  d1 = d1  d2 = d2
  Threads = {t1, t2}
  Docs = {d1}
  Pages = {p1, p2}
  People = {}
  DocOf <- Together
  MaxItems = 1
  MaxVersion = 2
  None = None
INVARIANTS TypeOK ContentFollowsSidecar RegisteredItemsHaveText
SYMMETRY Alike
CHECK_DEADLOCK FALSE

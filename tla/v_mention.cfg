SPECIFICATION Spec
CONSTANTS
  p1 = p1  d1 = d1  d2 = d2
  Threads = {t1}
  Docs = {d1, d2}
  Pages = {p1, p2}
  People = {q1}
  DocOf <- OneEach
  MaxItems = 2
  MaxVersion = 3
  None = None
PROPERTY MentionsKeepPeople
CHECK_DEADLOCK FALSE

SPECIFICATION Spec
CONSTANTS
  Scenes = {"intake"}
  None = None  Invalid = Invalid
  p1 = p1  p2 = p2  c1 = c1  c2 = c2  c3 = c3
  b1 = b1  box = box  job = job
  t1 = t1  t2 = t2  s1 = s1  s2 = s2  r1 = r1  r2 = r2
INVARIANTS
  TypeOK StaleWorkFlagged

   
CHECK_DEADLOCK FALSE

SPECIFICATION Spec
CONSTANTS
  Scenes = {"pages", "story", "telling", "sign-in", "call", "reading", "review", "store", "race", "samples"}
  None = None  Invalid = Invalid
  p1 = p1  p2 = p2  c1 = c1  c2 = c2  c3 = c3
  b1 = b1  box = box  job = job
  t1 = t1  t2 = t2  s1 = s1  s2 = s2  r1 = r1  r2 = r2
INVARIANTS
  TypeOK
  NothingStaleSilently RecoveredBoxesFit
  PatchedAsRebuilt LinksResolve AssessmentGrounded
  CodeExchangedOnce LostAnswerIsReissued DoubtShownAlone WordsKept ReviewCloses
PROPERTIES
  TranscribingEnds JobLostOnlyToStaleCopy StatedDatesKept
  ImplementsLog CopiesNeverChange SomeVersionStays
   NumbersStandClear EvidenceFound RecordsReadBack TreeFileKept LayoutKept DocumentsKept
CHECK_DEADLOCK FALSE

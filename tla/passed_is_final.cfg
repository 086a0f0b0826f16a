SPECIFICATION Spec
CONSTANTS
  Ids = {s1,s2}
  Chapters = {c1}
  Requests = {r1}
  Workers = {w1,w2}
  LastDay = 0
  DAILY_SUBMISSION_LIMIT = 2
  MaxCrashes = 0
  MaxDuplicates = 0
  Overlap = FALSE
  InvokeMayFail = FALSE
  MayDrop = FALSE
  None = None
SYMMETRY Symmetry
CHECK_DEADLOCK FALSE
PROPERTY PassedIsFinal

SPECIFICATION Spec
CONSTANTS
  Ids = {s1}
  Chapters = {c1}
  Requests = {r1}
  Workers = {w1}
  LastDay = 0
  DAILY_SUBMISSION_LIMIT = 1
  MaxCrashes = 0
  MaxDuplicates = 0
  Overlap = FALSE
  InvokeMayFail = TRUE
  MayDrop = FALSE
  None = None
SYMMETRY Symmetry
CHECK_DEADLOCK FALSE
PROPERTY HandOffIsAtomic

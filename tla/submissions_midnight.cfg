SPECIFICATION Spec
CONSTANTS
  Ids = {s1,s2}
  Chapters = {c1,c2}
  Requests = {r1,r2}
  Workers = {w1,w2}
  LastDay = 1
  DAILY_SUBMISSION_LIMIT = 1
  MaxCrashes = 1
  MaxDuplicates = 0
  Overlap = FALSE
  InvokeMayFail = FALSE
  MayDrop = FALSE
  None = None
SYMMETRY Symmetry
CHECK_DEADLOCK FALSE
INVARIANTS AttemptsContiguous CollisionsStraddleMidnight NoOrphan StatusHasVerdict
PROPERTY ApprovalReachesItsDay

SPECIFICATION FairSpec
CONSTANTS
  Ids = {s1,s2}
  Chapters = {c1}
  Requests = {r1,r2}
  Workers = {w1,w2}
  LastDay = 0
  DAILY_SUBMISSION_LIMIT = 1
  MaxCrashes = 1
  MaxDuplicates = 1
  Overlap = TRUE
  InvokeMayFail = FALSE
  MayDrop = FALSE
  None = None

CHECK_DEADLOCK FALSE
INVARIANTS TypeOK NoLockCycle
PROPERTY EventuallySettled

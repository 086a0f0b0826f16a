SPECIFICATION Spec
CONSTANTS
  Ids = {s1,s2,s3}
  Chapters = {c1}
  Requests = {r1,r2}
  Workers = {w1,w2}
  LastDay = 0
  DAILY_SUBMISSION_LIMIT = 2
  MaxCrashes = 1
  MaxDuplicates = 1
  Overlap = FALSE
  InvokeMayFail = TRUE
  MayDrop = TRUE
  None = None
SYMMETRY Symmetry
CHECK_DEADLOCK FALSE
INVARIANTS DailyCap TicksExact AttemptsMatchVerdicts ResultExactlyWhenEvaluated

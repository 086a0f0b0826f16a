SPECIFICATION Spec
CONSTANTS
  s1 = s1
  s2 = s2
  t1 = t1
  t2 = t2
  Seeders = {s1, s2}
  Before = "before"
  None = None
  Texts = {t1, t2}
  Limit = 2
  WEEK_WITHOUT_MISSING_DAYS = 2
  Scenarios <- MCScenarios
SYMMETRY Symmetry
CHECK_DEADLOCK FALSE
INVARIANTS StoriesWhole StreaksAgree
PROPERTIES MilestonesStay

SPECIFICATION Spec
CONSTANTS
  Submissions = {s1, s2}
  Callers = {c1, c2}
  Lines = {hello, goodbye}
  Costs = {1, 2}
  Budget = 3
  MaxCalls = 5
  LastMonth = 1
  None = None
SYMMETRY Symmetry
CHECK_DEADLOCK FALSE
INVARIANTS TypeOK AnswersAreStored TokensOfBeat NoCallOnceSpent
PROPERTIES StoredLineStays

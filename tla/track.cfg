SPECIFICATION Spec
CONSTANTS
  NChapters = 3
  StoryEnds = {1, 3}
  Readers = {r1, r2}
  Writers = {w1, w2}
SYMMETRY ExecutionSymmetry
CHECK_DEADLOCK FALSE
INVARIANTS TypeOK OffersOpenChapters StoriesInTurn
PROPERTIES OpensInOrder StartedNeverReset

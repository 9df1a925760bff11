\* Two tabs, two conversations, three questions.
CONSTANTS
  Tabs = {t1, t2}
  Convs = {c1, c2}
  MaxRequests = 3
  MaxStarts = 3
SPECIFICATION SpecV
SYMMETRY SymmetryV
INVARIANT StoredTurnsBelong
INVARIANT OneQuestionAtATime
PROPERTY LoadingUnblocks
CHECK_DEADLOCK FALSE

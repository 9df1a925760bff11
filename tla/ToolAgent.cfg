\* Two files, three steps of up to two calls, one change of the index.
CONSTANTS
  f1 = f1
  f2 = f2
  Files <- MCFiles
  NGenerations = 2
  Ends <- MCEnds
  MaxRows = 2
  Budget = 3
  MaxChanges = 1
  MaxCycles = 3
  MaxCalls = 2
  MaxExecuted = 3
SPECIFICATION SpecT
INVARIANT EveryCallIsAnswered
INVARIANT RunsAreBounded
INVARIANT NamedFilesWereReturned
INVARIANT AnswersRestOnReads
INVARIANT TruncationIsTold
PROPERTY RunEnds
CHECK_DEADLOCK FALSE

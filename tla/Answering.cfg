\* Two files that change twice during a request, one rewrite.
CONSTANTS
  Files = {f1, f2}
  MaxGen = 2
  MaxChanges = 2
  MaxHits = 1
  MaxRewrites = 1
SPECIFICATION SpecA
INVARIANT CitesWereServed
INVARIANT NotIndexedIsTrue
INVARIANT TraceTellsTheTruth
INVARIANT HistoryIsTheAnswer
PROPERTY RequestEnds
CHECK_DEADLOCK FALSE

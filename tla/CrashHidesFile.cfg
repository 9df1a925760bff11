\* A crash after the commit that follows a first download.
CONSTANTS
  a = a
  b = b
  Blank = Blank
  Texts = {a, b, Blank}
  NoId = NoId
  ChunkIds = {c1, c2, c3}
  Files = {f1}
  Parts = {1}
  MaxEdits = 1
  EditWindow = "stopped"
  Faults = {"crash"}
  Interruptions = {}
  MaxOverlap = 0
SPECIFICATION SpecP
INVARIANT NothingPendingMeansIndexed

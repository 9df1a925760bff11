\* An edit synced while its file waits in INDEXING.
CONSTANTS
  a = a
  b = b
  Blank = Blank
  Texts = {a, b, Blank}
  NoId = NoId
  ChunkIds = {c1, c2, c3}
  Files = {f1}
  Parts = {1}
  MaxEdits = 1
  EditWindow = "stopped"
  Faults = {}
  Interruptions = {"timeout"}
  MaxOverlap = 0
SPECIFICATION SpecP
INVARIANT IndexedIsFresh

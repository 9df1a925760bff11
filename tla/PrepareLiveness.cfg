\* Every fault of the server, failed requests and expired polls.
CONSTANTS
  a = a
  b = b
  Blank = Blank
  Texts = {a, Blank}
  NoId = NoId
  ChunkIds = {c1, c2, c3}
  Files = {f1}
  Parts = {1}
  MaxEdits = 1
  EditWindow = "any"
  Faults = {"crash", "exception", "database"}
  Interruptions = {"timeout", "counts"}
  MaxOverlap = 2
SPECIFICATION FairSpecP
PROPERTY FlowEnds
PROPERTY DiscoveredGetsSettled

\* An edit between the download and the write of the document.
CONSTANTS
  a = a
  b = b
  Blank = Blank
  Texts = {a, b, Blank}
  NoId = NoId
  ChunkIds = {c1, c2, c3}
  Files = {f1}
  Parts = {1}
  MaxEdits = 1
  EditWindow = "any"
  Faults = {}
SPECIFICATION Spec
INVARIANT CurrentMeansFresh

\* One file of two chunks, every fault, edits at any moment.
CONSTANTS
  a = a
  b = b
  Blank = Blank
  Texts = {a, b, Blank}
  NoId = NoId
  ChunkIds = {c1, c2, c3}
  Files = {f1}
  Parts = {1, 2}
  MaxEdits = 2
  EditWindow = "any"
  Faults = {"crash", "exception", "database"}
SPECIFICATION FairSpec
INVARIANT IndexedIsCoherent
PROPERTY SkippedComesBackBySync
PROPERTY JobSettles
PROPERTY ServesWholeTexts

\* Two files, edits at any moment, polls time out.
CONSTANTS
  a = a
  b = b
  Blank = Blank
  Texts = {a, b, Blank}
  NoId = NoId
  ChunkIds = {c1, c2, c3}
  Files = {f1, f2}
  Parts = {1}
  MaxEdits = 1
  EditWindow = "any"
  Faults = {}
  Interruptions = {"timeout"}
  MaxOverlap = 0
SPECIFICATION SpecP
SYMMETRY SymmetryP
INVARIANT EarlyMeansSettled
INVARIANT ReadyMeansSettled
INVARIANT FreshUnlessDisturbed

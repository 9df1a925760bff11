\* Texts of up to six characters; three chunks in two files, budgets cut close.
CONSTANTS
  MaxText = 6
  MaxTarget = 6
  Divisor = 2
  NChunks = 3
  NFiles = 2
  FileOf <- MCFileOf
  Modified <- MCModified
  Scores = {1, 2}
  ListMax = 2
  Weight <- MCWeight
  RrfK = 60
  Denominator = 3782
  CandidateK = 1
  TopK = 2
  MinPercent = 15
  VectorMin = 1
  Lengths = {1, 2, 3, 9}
  GroundedLen = 3
  DraftMarkers = 2
  MaxContext = 26
  Fixed = 1
  QuestionLen = 1
  SummaryLen = 1
  Header = 1
  Ten = 3
  Margin = 1
  Slack = 3
  MinBudget = 4
  SummaryFiles = 2
  SummaryChunks = 2
SPECIFICATION SpecMC
INVARIANT NoTextIsLost
INVARIANT EveryChunkAddsText
PROPERTY ChunkingEnds
INVARIANT BetterEverywhereComesFirst
INVARIANT RejectedEvidenceWasOvertaken
PROPERTY PromptsFit
PROPERTY MarkersKeepTheirPassage
CHECK_DEADLOCK FALSE

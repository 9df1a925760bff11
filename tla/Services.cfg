\* Every service with the least instance that meets its limits twice.
CONSTANTS
  MaxConnection = 4
  MaxFileIds = 9
  Questions = {q1, q2, q3}
  Concurrency = 2
  RateLimit = 2
  Window = 2
  MaxBody = 1
  MaxTime = 4
  Logins = {l1, l2}
  Callbacks = {k1, k2, k3}
  MaxCodes = 2
  MaxExpired = 1
  BaselineRuns = {r1, r2}
  GoldFiles = {g1}
  NCases = 2
  MaxReindexed = 3
  Seconds = 1
  SmokeCases = 1
  MaxSteps = 2
  MaxSources = 2
  MaxSmokeRuns = 3
SYMMETRY Symmetric
SPECIFICATION SpecMC
INVARIANT StatusIsTheNewest
PROPERTY AdmissionIsExact
PROPERTY StatesLastAsLongAsLogins
PROPERTY BaselinesAreSound
INVARIANT NoCaseIsPaidTwice
CHECK_DEADLOCK FALSE

SPECIFICATION Spec

CONSTANTS
  j1 = j1
  j2 = j2
  NoJob = NoJob
  Jobs = {j1, j2}
  Dirs <- OneDirs
  Dir <- OneDir
  TokenJobs <- AllTokens
  MaxConcurrent = 2
  MaxRetries = 0
  IdleOnly = FALSE
  MaxRuns = 1
  Operations <- HazardOps
  SlowProbes = TRUE
  SlowStop = TRUE
  EarlyCalls = TRUE
  StartMayFail = FALSE
  ResumeOnStart = TRUE

SYMMETRY JobSymmetry

INVARIANTS
  OneWriterPerDir
PROPERTIES
  UserStopHolds

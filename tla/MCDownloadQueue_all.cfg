SPECIFICATION Spec

CONSTANTS
  j1 = j1
  j2 = j2
  j3 = j3
  NoJob = NoJob
  Jobs = {j1, j2, j3}
  Dirs <- OwnDirs
  Dir <- OwnDir
  TokenJobs = {}
  MaxConcurrent = 1
  MaxRetries = 1
  IdleOnly = FALSE
  MaxRuns = 1
  Operations <- AllOps
  SlowProbes = FALSE
  SlowStop = FALSE
  EarlyCalls = FALSE
  StartMayFail = TRUE
  ResumeOnStart = TRUE

SYMMETRY JobSymmetry

INVARIANTS
  TypeOK
  SlotLimit
  QueueInv
  Supervised
  RetryIsArmed

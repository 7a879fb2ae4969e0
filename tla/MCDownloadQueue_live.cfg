SPECIFICATION FairSpec

CONSTANTS
  j1 = j1
  j2 = j2
  NoJob = NoJob
  Jobs = {j1, j2}
  Dirs <- OwnDirs
  Dir <- OwnDir
  TokenJobs = {}
  MaxConcurrent = 1
  MaxRetries = 1
  IdleOnly = TRUE
  MaxRuns = 1
  Operations <- LiveOps
  SlowProbes = TRUE
  SlowStop = FALSE
  EarlyCalls = FALSE
  StartMayFail = FALSE
  ResumeOnStart = TRUE

INVARIANTS
  NoLostWakeup
  SlotLimit
PROPERTIES
  EverySettles

CHECK_DEADLOCK FALSE

SPECIFICATION FairSpec

CONSTANTS
  a = a
  a2 = a2
  b = b
  c = c
  A = A
  B = B
  C = C
  NoOne = NoOne
  Ownerless = Ownerless
  Clients = {a, a2, b, c}
  Processes = {A, B, C}
  Proc <- TwoOfA
  Timeouts = TRUE
  IoFaults = TRUE
  CrashPoints <- Anywhere

INVARIANTS
  TypeOK
  MutualExclusion
  RetiresWhatItClaimed
  LockInv
PROPERTIES
  ImplementsMutex
  OnlyAWreckBlocks

CHECK_DEADLOCK FALSE

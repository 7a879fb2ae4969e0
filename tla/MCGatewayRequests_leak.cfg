SPECIFICATION Spec

CONSTANTS
  a1 = a1
  a2 = a2
  a3 = a3
  a4 = a4
  b1 = b1
  o = o
  A = A
  B = B
  NoKey = NoKey
  Requests = {a1, a2, b1, o}
  Key <- KeyOf
  Keys = {A, B}
  Owners = {o}
  Metered = {b1}
  KeyMax = 1
  KeyQueueMax = 1
  ShareMax = 1
  OwnerShareMax = 0
  ShareQueueMax = 2
  Timeouts = TRUE
  Disconnects <- Anywhere

INVARIANTS
  NothingKept

CHECK_DEADLOCK FALSE

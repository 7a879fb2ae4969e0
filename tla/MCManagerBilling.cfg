SPECIFICATION Spec

CONSTANTS
  l1 = l1
  l2 = l2
  k1 = k1
  Llm = {l1, l2}
  Tts = {}
  RequestLimit = 1
  MaxCost = 1
  Policies <- AnyMode
  Entries = {k1}
  Delta <- Deltas
  MaxItems = 1

SYMMETRY RequestSymmetry

INVARIANTS
  TypeOK
  ServedIsGranted
  FileIsTheList
PROPERTIES
  PendingKept

SPECIFICATION StoreSpec

CONSTANTS
  l1 = l1
  l2 = l2
  t1 = t1
  t2 = t2
  k1 = k1
  k2 = k2
  Llm = {l1, l2}
  Tts = {t1, t2}
  RequestLimit = 1
  MaxCost = 2
  Policies <- AnyPolicy
  Entries = {k1, k2}
  Delta <- Deltas

SYMMETRY RequestSymmetry

INVARIANTS
  StoreTypeOK
  Solvent
  QuotaHolds
PROPERTIES
  ImplementsWallet

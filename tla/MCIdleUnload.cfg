SPECIFICATION Spec

CONSTANTS
  s1 = s1
  s2 = s2
  c1 = c1
  c2 = c2
  k1 = k1
  k2 = k2
  NoKey = NoKey
  Awake = Awake
  Slots = {s1, s2}
  Keyed = {s1}
  Callers = {c1, c2}
  Keys = {k1, k2}
  Cap = 1

SYMMETRY Symmetry

INVARIANTS
  TypeOK
  RecordsHaveKeys
  KeysHaveRecords

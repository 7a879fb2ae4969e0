SPECIFICATION FairSpec

CONSTANTS
  t1 = t1
  t2 = t2
  k1 = k1
  Llm = {}
  Tts = {t1, t2}
  RequestLimit = 1
  MaxCost = 1
  Policies <- HardOnly
  Entries = {k1}
  Delta <- Deltas
  Page = 2
  Unnamed = {t2}

INVARIANTS
  TypeOK
  ReceiptDecides
PROPERTIES
  SpeechSettles

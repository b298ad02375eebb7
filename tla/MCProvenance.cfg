CONSTANTS
  a = a
  b = b
  bank = bank
  p1 = p1
  p2 = p2
  good = good
  ill = ill
  v1 = v1
  v2 = v2
  Clients <- ProvenanceClients
  Sources = {bank}
  Payloads = {p1, p2}
  Contents = {good, ill}
  IllFormed = {ill}
  Versions = {v1, v2}
  Batches <- ProvenanceBatches
  Inputs <- ProvenanceInputs
  MaxRuns = 1
  MaxCaptures = 3
  MaxRot = 1
SPECIFICATION Spec
SYMMETRY Symmetric
INVARIANTS BatchesAreWhole ChainIsStored AnswersAreOriginal
PROPERTY RowsAreKept
CHECK_DEADLOCK FALSE

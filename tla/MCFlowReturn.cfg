SPECIFICATION Spec
CONSTANTS
  Observations <- ReturnObservations
  Joins <- ReturnJoins
  Sources = {"a", "b"}
  Window = 1
  Lateness = 0
  Unbounded = Unbounded
  MaxSilence = 2
  MaxCollisionMembers = 2
  Untils = {1, 3, 6}
  MaxPosition = 5
  MaxDuplicates = 1
INVARIANTS
  ClosedGainsNoNeighbour
  FinalsAgreeWithBatch
PROPERTIES
  FinalIsForever
CHECK_DEADLOCK FALSE

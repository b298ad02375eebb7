SPECIFICATION Spec
CONSTANTS
  Observations <- CrowdObservations
  Joins <- CrowdJoins
  Sources = {"s"}
  Window = 3
  Lateness = 1
  Unbounded = Unbounded
  MaxSilence = Unbounded
  MaxCollisionMembers = 2
  Untils = {4, 8}
  MaxPosition = 7
  MaxDuplicates = 0
INVARIANTS
  OpenIsUpToDate
  OneProofEach
  VerdictsIgnoreLimit
PROPERTIES
  AdvanceClosesRipe
CHECK_DEADLOCK FALSE

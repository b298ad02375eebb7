SPECIFICATION Spec
CONSTANTS
  Records <- BlockRecords
  DateDays = 1
  ReferenceDays = 3
  LatenessDays = 1
  Unbounded = Unbounded
  MaxComponentDays = Unbounded
  Days = {5, 6}
  Reconcile <- MCReconcile
  Table <- EngineTable
  AmountAbs = 5
  AmountRel = 0
  MaxAggregateSize = 2
  MaxBlockCandidates = 9
  MaxPosition = 5
  MaxDuplicates = 0
INVARIANTS
  FinalsAreOrderFree
  ClosedGainsNoNeighbour
  OneEffectiveDecision
  ReferenceBreakIsBeyondHorizon
  Settled
CHECK_DEADLOCK FALSE

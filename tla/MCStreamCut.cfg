SPECIFICATION FairSpec
CONSTANTS
  Records <- ChainRecords
  DateDays = 1
  ReferenceDays = 1
  LatenessDays = 0
  Unbounded = Unbounded
  MaxComponentDays = 2
  Days = {3, 7}
  Reconcile <- MCReconcile
  Table <- EngineTable
  AmountAbs = 5
  AmountRel = 0
  MaxAggregateSize = 2
  MaxBlockCandidates = 9
  MaxPosition = 4
  MaxDuplicates = 1
INVARIANTS
  ForcedIsPastHorizon
  OpenIsUpToDate
PROPERTIES
  FinalIsForever
  ImplementsLedger
  EverythingBecomesFinal
CHECK_DEADLOCK FALSE

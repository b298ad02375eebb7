SPECIFICATION Spec
CONSTANTS
  Records <- MCRecords
  DateDays = 1
  AmountAbs = 0
  AmountRel = 5
  MaxAggregateSize = 3
  MaxBlockCandidates = 3
INVARIANTS
  MatchesAreSound
  EveryPairHasOneReason
  ResultIsStable
  BatchAgrees
PROPERTIES
  CallReturns
CHECK_DEADLOCK FALSE

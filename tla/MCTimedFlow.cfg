SPECIFICATION Spec
CONSTANTS
  Observations <- TimedObservations
  Signals <- StartAndEnd
  Margin = 1
  MaxComponent = 2
  Span = 1
  LimitPermille = 400
  Unbounded = Unbounded
  MaxDuration = 2
  MaxSilence = Unbounded
  Sources = {"a", "b"}
  Lateness = 1
  Untils = {11, 16}
  MaxPosition = 6
INVARIANTS
  FinalsAgreeWithBatch
PROPERTIES
  NothingRipeStays
CHECK_DEADLOCK FALSE

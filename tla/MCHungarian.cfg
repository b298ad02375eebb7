SPECIFICATION Spec
CONSTANTS
  N = 4
  MCWeights = {0, 1, 2, 4}
  Costs <- MCCosts
  Infinity = Infinity
INVARIANTS
  PotentialsCertify
  SearchConverges
  RowsAreOptimal
CHECK_DEADLOCK FALSE

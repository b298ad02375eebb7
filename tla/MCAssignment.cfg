SPECIFICATION Spec
CONSTANTS
  Lefts = {l1, l2}
  Rights = {r1, r2, r3}
  Weights = {1, 2, 3}
  Margins = {0, 1, 5}
  MaxComponents = {2, 3}
INVARIANTS
  OnlyForcedIsDecided
SYMMETRY Sym
CHECK_DEADLOCK FALSE

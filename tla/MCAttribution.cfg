SPECIFICATION Spec
CONSTANTS
  None = None
  MinSampleSize = 10000
  Th <- RUN_001
  Measurements <- MCMeasurements
  MCDCovs = {0, 1, 500, 950, 983, 999, 1000}
  MCDAccs = {500, 965, 980, 991, 1000}
  MCCoverages = {940, 955, 970, 990, 1000}
  MCFailures = {0, 11}
  MCSizes = {9999, 10000}
INVARIANTS
  StrongVerdictsAreClear
  BorderlineIsGenuine
CHECK_DEADLOCK FALSE

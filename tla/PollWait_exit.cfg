SPECIFICATION FairSpec
CONSTANTS
  Asks <- JustExit
  MaxFaults = 0
  MaxLate = 3
INVARIANTS
  NilMeansMet
CHECK_DEADLOCK FALSE

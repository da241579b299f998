SPECIFICATION FairSpec
CONSTANTS
  Asks <- ExecWantsOne
  MaxFaults = 0
  MaxLate = 3
PROPERTIES
  LastingReadinessEndsTheWait
CHECK_DEADLOCK FALSE

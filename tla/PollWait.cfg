SPECIFICATION FairSpec
CONSTANTS
  Asks <- EveryAsk
  MaxFaults = 2
  MaxLate = 3
INVARIANTS
  PollInv
PROPERTIES
  GivesUpOnlyOnExpiry
  LastingReadinessEndsTheWait
  KeepsContract
CHECK_DEADLOCK FALSE

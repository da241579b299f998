SPECIFICATION FairSpec
CONSTANTS
  r1 = r1
  r2 = r2
  k1 = k1
  k2 = k2
  Runs <- OneRun
  Callers <- TwoCallers
  Background <- OneCaller
  Requests <- EveryShape
  MaxFaults = 1
  MaxCalls = 4
INVARIANTS
  ReleasedMeansGone
  TerminateFailsOnlyOnFailure
  CleanTerminateLeavesNothing
  SafetyInv
PROPERTIES
  KeepsLease
  BackgroundTerminateReleases
  TerminateEndsFollower
CHECK_DEADLOCK FALSE

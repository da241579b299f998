SPECIFICATION ScopeFairSpec
CONSTANTS
  t1 = t1
  t2 = t2
  Runs <- TwoTests
  Callers <- AllCallers
  Background <- CleanupCallers
  Requests <- BareShape
  Styles <- FourStyles
  MaxFaults = 1
  MaxCalls = 4
  MaxNetFaults = 1
  Parallel = FALSE
INVARIANTS
  ScopeInv
  ScopeLeavesNothing
PROPERTIES
  TestReleases
CHECK_DEADLOCK FALSE

SPECIFICATION Spec
CONSTANTS
  r1 = r1
  r2 = r2
  Runs <- OneRun
  Scripts <- EntrypointAndAlias
  Scalars <- MCScalars
  Maps <- MCMaps
  Appended <- WithAliases
  Replaced <- MCReplaced
  NotPassed <- NotPassedAliases
  Keys <- MCKeys
  Values <- MCValues
  Arrays <- MCArrays
  Content <- MCContent
  None = None
  Own = Own
INVARIANTS
  EveryOptionReachesCreate
CHECK_DEADLOCK FALSE

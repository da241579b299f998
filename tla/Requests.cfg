SPECIFICATION Spec
CONSTANTS
  r1 = r1
  r2 = r2
  Runs <- TwoRuns
  Scripts <- MCScripts
  Scalars <- MCScalars
  Maps <- MCMaps
  Appended <- MCAppended
  Replaced <- MCReplaced
  NotPassed <- MCNotPassed
  Keys <- MCKeys
  Values <- MCValues
  Arrays <- MCArrays
  Content <- MCContent
  None = None
  Own = Own
SYMMETRY Symmetry
INVARIANTS
  ToldWhatItAsked
PROPERTIES
  OnlyCmdArgsWrites
CHECK_DEADLOCK FALSE

SPECIFICATION NestedFairSpec
CONSTANTS
  s1 = s1
  s2 = s2
  s3 = s3
  Strategies <- ThreeStrategies
  MaxLen = 3
INVARIANTS
  AnyInv
  JoinedAfterAll
  TurnsHold
PROPERTIES
  ParkedSelectIsExact
  KeepsContract
  GoroutinesEnd
  ReturnsAfterAll
  OuterKeepsContract
CHECK_DEADLOCK FALSE

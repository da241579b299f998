SPECIFICATION FairSpec
CONSTANTS
  s1 = s1
  s2 = s2
  s3 = s3
  Strategies <- ThreeStrategies
PROPERTIES
  AnySuccessSucceeds
CHECK_DEADLOCK FALSE

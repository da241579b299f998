SPECIFICATION Spec
CONSTANTS
  r1 = r1
  r2 = r2
  Runs <- TwoRuns
  HostPorts <- TwoPorts
  Lists <- EveryList
INVARIANTS
  PortsInv
  EndpointReachesItsPort
PROPERTIES
  RefusedOnlyIfTaken
CHECK_DEADLOCK FALSE

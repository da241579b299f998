SPECIFICATION FairSpec
CONSTANTS
  Occurrences <- UpToTwo
  Cap = 2
  MaxLines = 4
INVARIANTS
  LogInv
  EofMeansTooFew
PROPERTIES
  EnoughLinesEndTheWait
  StreamEndEndsTheWait
  ScannerEnds
  KeepsContract
CHECK_DEADLOCK FALSE

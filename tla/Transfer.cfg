SPECIFICATION Spec
CONSTANTS
  c1 = c1
  c2 = c2
  Calls <- TwoCalls
  Kinds <- AllKinds
  Perms <- ThreePerms
  Readable <- ReadablePerms
  Invalid = Invalid
  NoFile = NoFile
  MaxEdits = 1
SYMMETRY Symmetry
INVARIANTS
  TransferInv
  NoTempLeft
  ArrivesAsAsked
  GetsWhatIsThere
CHECK_DEADLOCK FALSE

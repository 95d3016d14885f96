CONSTANTS
  Blocks = {a, b}
  NoBlock = NoBlock
  Align = 4
  NewAlign = 1
  WordSize = 32
  AddressSize = 64
  IndexSize = 2
  Bases <- MCBases
  Lengths <- MCLengths
  MaxMade = 4
SPECIFICATION Spec
INVARIANTS EveryBlockIsTracked AlignedStartsInside ShortRequestsFit
PROPERTIES ImplementsRegistry
CHECK_DEADLOCK FALSE

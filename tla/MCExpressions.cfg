CONSTANTS
  ByteBits = 2
  Symbols <- MCSymbols
  Structs <- MCStructs
  Profiles <- MCProfiles
  FrameBase = 16
  Excluded <- AllFaults
SPECIFICATION Spec
INVARIANTS TypeOK EaxKept StackBalanced MeansSame
CHECK_DEADLOCK FALSE

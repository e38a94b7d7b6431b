CONSTANTS
  ByteBits = 2
  Symbols <- MCSymbols
  Structs <- MCStructs
  Profiles <- MCProfiles
  FrameBase = 16
  Excluded <- AllButRollback
SPECIFICATION Spec
INVARIANTS MeansSame
CHECK_DEADLOCK FALSE

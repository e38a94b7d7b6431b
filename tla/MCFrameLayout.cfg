SPECIFICATION Spec
CONSTANTS
  Types <- MCTypes
  MAX_VARIABLE = 4
  USHRT = 32
INVARIANTS
  LayoutTypeOK
  TableKept
  CharsThenShorts
  NoOverlap
  InsideFrame
  ArgumentsReached
PROPERTY LayoutEnds
CHECK_DEADLOCK FALSE

SPECIFICATION DeclSpec
CONSTANTS
  Names = {a, b, c}
  Types <- MCTypes
  MAX_VARIABLE = 2
  MAX_SYMBOL_TABLE_G = 2
  Addresses = {4096}
  MAX_PARAM = 2
  USHRT = 65536
  MaxUnit = 8
SYMMETRY NameSymmetry
INVARIANTS
  DeclTypeOK
  SymbolsFound
  LabelsOnce
  UsesAgree
  CallsMatchBody
  RefusedTwice
CHECK_DEADLOCK FALSE

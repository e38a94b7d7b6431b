CONSTANTS
  FirstLabel = 3
  ExprLabels = {1}
  CaseValues = {}
  UserLabels = {}
  Programs <- DoPrograms
  ForForms <- Forms
  Dialect = {"break_in_do"}
  MaxNodes = 5
  MaxDepth = 4
SPECIFICATION Spec
INVARIANTS JumpsLand
CHECK_DEADLOCK FALSE

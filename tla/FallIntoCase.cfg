CONSTANTS
  FirstLabel = 3
  ExprLabels = {1}
  CaseValues = {1, 2}
  UserLabels = {}
  Programs <- CasePrograms
  ForForms <- Forms
  Dialect = {"fall_into_case"}
  MaxNodes = 6
  MaxDepth = 4
SPECIFICATION Spec
INVARIANTS FlowCorrect
CHECK_DEADLOCK FALSE

CONSTANTS
  FirstLabel = 3
  ExprLabels = {1}
  CaseValues = {1, 2}
  UserLabels = {1, 2}
  Programs <- MCPrograms
  ForForms <- Forms
  Dialect = {}
  MaxNodes = 6
  MaxDepth = 3
SPECIFICATION Spec
INVARIANTS TypeOK LabelsUnique JumpsLand RefusedRightly FlowCorrect
CHECK_DEADLOCK FALSE

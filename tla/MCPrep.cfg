SPECIFICATION Spec
CONSTANTS
  Files = {"c", "h", "g"}
  Main = "c"
  Contents <- MCContents
  MAX_INFILE = 3
  MAX_DEFINE = 2
  LongSymbols = {"L"}
  MAX_PARAMETER = 2
  MAX_BUFF = 12
  MAX_SYMBUF = 4
  MAX_LINE = 12
  MaxMain = 3
  MaxHeader = 2
INVARIANTS
  PrepTypeOK
  LinesInPlace
  CommentsAgree
  Whole
  Expanded
PROPERTY
  Terminates
CHECK_DEADLOCK FALSE

CONSTANTS
  N <- MCN
  Text <- MCText
  MAX_SRC_BUFFER_LEN = 24
  MAX_BUFF_LEN = 6
  MAX_STRING_LEN = 9
  MaxSaves = 1
  MaxLog = 2
SPECIFICATION SpecProbe
PROPERTIES RestoreReturns
CHECK_DEADLOCK FALSE

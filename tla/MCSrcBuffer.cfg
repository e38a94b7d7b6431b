CONSTANTS
  N <- MCN
  Text <- MCText
  MAX_SRC_BUFFER_LEN = 23
  MAX_BUFF_LEN = 5
  MAX_STRING_LEN = 9
  MaxSaves = 2
  MaxLog = 5
SPECIFICATION FairSpec
INVARIANTS TypeOK WindowIsPieceOfFile BuffersFit SavesValid LinebufStartsLine ListingInOrder
PROPERTIES ImplementsTape TokenReturns
CHECK_DEADLOCK FALSE

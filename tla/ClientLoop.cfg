SPECIFICATION Spec
CONSTANTS
  Settings <- OneOfThree
  MaxWaiting = 2
  MaxUnheard = 2
  Window = 14
  BUF_SIZE = 15
  BOARD_SIZE = 4
INVARIANT
  TypeOK
PROPERTIES
  HeardAsSent
  LostOnlyAtEnd
  LinesAsTyped
  CloseHeeded
  HeardUnlessTyping
CHECK_DEADLOCK FALSE

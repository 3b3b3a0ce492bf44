SPECIFICATION Spec
CONSTANTS
  Settings <- OnlyTyping
  MaxWaiting = 2
  MaxUnheard = 2
  Window = 14
  BUF_SIZE = 15
  BOARD_SIZE = 4
PROPERTY
  QuitAtAnyMoment
CHECK_DEADLOCK FALSE

SPECIFICATION Spec
CONSTANTS
  a = a
  b = b
  c = c
  d = d
  Conn = {a, b, c, d}
  Settings <- SomeAndMany
  MAX_CLIENTS = 3
  BUF_SIZE = 10
  BOARD_SIZE = 2
INVARIANTS
  TypeOK
  NoneTwice
PROPERTIES
  HandledAsSent
  
  NobodyOvertakes
  ReadReturns
  ServedUnlessHeldUp
CHECK_DEADLOCK FALSE

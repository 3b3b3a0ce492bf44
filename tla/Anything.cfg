SPECIFICATION Spec
CONSTANTS
  p1 = p1
  p2 = p2
  p3 = p3
  Proc = {p1, p2}
  Names <- SharedNames
  RoomIds = {1}
  Codes = {1, 2, 3, 4, 5, 6, 7}
  Commands <- AnythingCommands
  MaxInputs <- AnythingInputs
  MAX_CLIENTS = 2
  MAX_ROOMS = 4
  MAX_GAME_PLAYERS = 4
  Outcomes = {"REJECTED", "VALID_PLAY", "WON"}
  OperatorStops = FALSE
INVARIANTS
  TypeOK
  UniqueNames
  SocketsMatch
  SeatsLive
  
CHECK_DEADLOCK FALSE
SYMMETRY Swaps

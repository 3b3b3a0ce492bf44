SPECIFICATION Spec
CONSTANTS
  p1 = p1
  p2 = p2
  p3 = p3
  Proc = {p1, p2, p3}
  Names <- OwnNames
  RoomIds = {1}
  Codes = {1, 2, 3, 4, 5, 6, 7, 8}
  Commands <- RoomsCommands
  MaxInputs <- RoomsInputs
  MAX_CLIENTS = 3
  MAX_ROOMS = 4
  MAX_GAME_PLAYERS = 4
  Outcomes = {"REJECTED", "VALID_PLAY"}
  OperatorStops = FALSE
INVARIANTS
  RoomsInBounds
PROPERTIES
  ImplementsLobby
  
  MessagesReachTheRoom
CHECK_DEADLOCK FALSE

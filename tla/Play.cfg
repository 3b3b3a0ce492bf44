SPECIFICATION Spec
CONSTANTS
  p1 = p1
  p2 = p2
  p3 = p3
  Proc = {p1, p2, p3}
  Names <- SharedNames
  RoomIds = {1}
  Codes = {1, 2, 3, 4, 5, 6}
  Commands <- PlayCommands
  MaxInputs <- PlayInputs
  MAX_CLIENTS = 3
  MAX_ROOMS = 2
  MAX_GAME_PLAYERS = 3
  Outcomes = {"REJECTED", "VALID_PLAY"}
  OperatorStops = FALSE
INVARIANTS
  PlayInTurn
  NobodyForgotten
  Agreement
PROPERTIES
  ImplementsLobby
CHECK_DEADLOCK FALSE

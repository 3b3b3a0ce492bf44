SPECIFICATION Spec
CONSTANTS
  p1 = p1
  p2 = p2
  p3 = p3
  p4 = p4
  Proc = {p1, p2}
  Names <- OwnNames
  RoomIds = {1}
  Codes = {1, 2, 3, 4, 5, 6, 7, 8}
  Commands <- LateMoveCommands
  MaxInputs <- LateMoveInputs
  MAX_CLIENTS = 4
  MAX_ROOMS = 3
  MAX_GAME_PLAYERS = 4
  Outcomes = {"REJECTED", "VALID_PLAY"}
  OperatorStops = FALSE
INVARIANT
  NobodyForgotten
CHECK_DEADLOCK FALSE

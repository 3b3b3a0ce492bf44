SPECIFICATION Spec
CONSTANTS
  p1 = p1
  p2 = p2
  p3 = p3
  Proc = {p1, p2}
  Names <- SharedNames
  RoomIds = {1}
  Codes = {1, 2, 3, 4, 5}
  Commands <- AnswersCommands
  MaxInputs <- AnswersInputs
  MAX_CLIENTS = 2
  MAX_ROOMS = 2
  MAX_GAME_PLAYERS = 3
  Outcomes = {"REJECTED", "VALID_PLAY"}
  OperatorStops = TRUE
PROPERTIES
  Answered
  MoveAnswered
  ClientsEnd
CHECK_DEADLOCK FALSE

SPECIFICATION SpecBefore
CONSTANTS
  BOARD_SIZE = 4
  INITIAL_SEED = 4
INVARIANTS
  TypeOK
  SeedsConserved
  VerdictSound
  SeedsLeft
  BoardSeenFromOwnSide
PROPERTIES
  CaptureOnlyOpponent
  RowNotEmptied
  OnlyMoverWins
  ImplementsRules
  PlayReturns

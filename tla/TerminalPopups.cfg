SPECIFICATION FairSpec
CONSTANTS
  Commands = {x1, x2, x3}
  NoCommand = NoCommand
  Capacity = 2
  AnswerLength = 2
  MaxTurns = 2
INVARIANTS
  ApprovalIsGiven
  StatusIsTrue
PROPERTY TurnsAreShown
CHECK_DEADLOCK FALSE

SPECIFICATION Spec
CONSTANTS
  Commands = {x1, x2, x3}
  NoCommand = NoCommand
  Capacity = 2
  AnswerLength = 2
  MaxTurns = 2
INVARIANTS
  InstructionsStay
CHECK_DEADLOCK FALSE

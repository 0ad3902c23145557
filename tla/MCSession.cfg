SPECIFICATION Spec
CONSTANTS
  Turns = {1, 2}
  Service = "sql"
  MaxIterations = 2
INVARIANTS
  TypeOK
  NothingForgotten
  PromptKeepsTurn
CHECK_DEADLOCK FALSE

SPECIFICATION Spec
CONSTANTS
  Tasks <- Three
  Plans <- AllPlans
  MaxTasks = 3
  MaxParallel = 2
INVARIANTS
  NoTaskForgotten
  StartsAfterItsDependencies
  StreamTellsTheRecord
PROPERTIES
  RunEnds
CHECK_DEADLOCK FALSE

SPECIFICATION Spec
CONSTANTS
  Tasks <- Three
  Plans <- Chain
  MaxTasks = 3
  MaxParallel = 2
INVARIANTS
  DownstreamOfFailureSkipped
CHECK_DEADLOCK FALSE

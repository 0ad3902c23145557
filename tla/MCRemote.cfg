SPECIFICATION Spec
CONSTANTS
  Tasks <- Two
  Cancels <- One
  MaxCrashes = 1
  MaxFaults = 1
INVARIANTS
  BrokenStreamReported
PROPERTIES
  AnsweredCancelStops
CHECK_DEADLOCK FALSE

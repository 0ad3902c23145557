SPECIFICATION Spec
CONSTANTS
  Scripts <- AnswersOrFails
  Transports = {"grpc"}
  Browsers = {"b1"}
  MaxPolls = 2
  MaxFaults = 0
INVARIANTS
  CompletedSawTheEnd
CHECK_DEADLOCK FALSE

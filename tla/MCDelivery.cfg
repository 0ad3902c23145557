SPECIFICATION Spec
CONSTANTS
  Scripts <- AnswersOrFails
  Transports = {"http", "grpc"}
  Browsers = {"b1", "b2"}
  MaxPolls = 2
  MaxFaults = 2
INVARIANTS
  NothingSkippedNorRepeated
  NothingBehindTheEnd
  CompletedIsWhole
PROPERTIES
  EveryReaderLetGo
CHECK_DEADLOCK FALSE

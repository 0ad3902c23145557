SPECIFICATION Spec
CONSTANTS
  Script <- OneTail
  RunLimit = 2
  MaxDeaths = 1
INVARIANTS
  TypeOK
PROPERTIES
  EveryTurnRecovered
CHECK_DEADLOCK FALSE

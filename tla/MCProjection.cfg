SPECIFICATION Spec
CONSTANTS
  Scripts <- TurnByTurnScripts
  Workers = {"ticker", "bus"}
  Tickers = {"ticker"}
  MaxFailures <- OneOfEach
INVARIANTS
  TextOnce
  WholeTurns
  EveryTurnKept
PROPERTIES
  FinishedTurnRecovered
CHECK_DEADLOCK FALSE

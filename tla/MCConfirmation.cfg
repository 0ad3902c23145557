SPECIFICATION Spec
CONSTANTS
  r1 = r1
  r2 = r2
  Requests = {r1, r2}
  MaxRevision = 2
  MaxDeaths = 1
INVARIANTS
  ApprovalTellsOutcome
  OneDecisionPerKey
PROPERTIES
  LoopEnds
CHECK_DEADLOCK FALSE

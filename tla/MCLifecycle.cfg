SPECIFICATION Spec
CONSTANTS
  r1 = r1
  q1 = q1
  p1 = p1
  p2 = p2
  i1 = i1
  i2 = i2
  NoInstance = NoInstance
  NoRequest = NoRequest
  Runs = {r1}
  Requests = {q1}
  Principals = {p1, p2}
  Instances = {i1, i2}
  Handlers <- WithStranger
  Resumers <- Elsewhere
  ClientsLeave = TRUE
  MaxRevisions = 1
  WorkStatuses = {"planning", "awaiting_approval", "executing", "paused"}
  MaxSeq = 7
  MaxFencing = 2
INVARIANTS
  LedgerSaysExecuting
PROPERTIES
  UsesLedger
  FencedHandlerStops
  CancelStopsExecution
CHECK_DEADLOCK FALSE

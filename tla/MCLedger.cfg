SPECIFICATION Spec
CONSTANTS
  r1 = r1
  q1 = q1
  p1 = p1
  p2 = p2
  i1 = i1
  i2 = i2
  NoInstance = NoInstance
  NoRequest = NoRequest
  Runs = {r1}
  Requests = {q1}
  Principals = {p1, p2}
  Instances = {i1, i2}
  Handlers <- OneRunHandlers
  WorkStatuses = {"planning", "executing"}
  MaxSeq = 2
  MaxFencing = 3
INVARIANTS
  GapFreeSeq
  FencedOrder
  OneHolderPerToken
  CheckpointsFenced
  RequestIdempotent
PROPERTIES
  ImplementsEventLog
CHECK_DEADLOCK FALSE

SPECIFICATION Spec
CONSTANTS
  r1 = r1
  q1 = q1
  p1 = p1
  p2 = p2
  i1 = i1
  i2 = i2
  NoInstance = NoInstance
  NoRequest = NoRequest
  Runs = {r1}
  Requests = {q1}
  Principals = {p1, p2}
  Instances = {i1, i2}
  Handlers <- StreamAndResumeHere
  Resumers <- Here
  ClientsLeave = FALSE
  MaxRevisions = 0
  WorkStatuses = {"planning", "awaiting_approval", "executing", "paused"}
  MaxSeq = 6
  MaxFencing = 2
PROPERTIES
  ResumeNeverJoinsLiveExecution
CHECK_DEADLOCK FALSE

SPECIFICATION Spec
CONSTANTS
  Attempts = {"w1", "w2", "v1", "r1"}
  CallOf <- Requests
  Via <- Senders
  Approvals = {"p1", "p2", "q1"}
  ConsentTo <- Consented
  ReadOnly = {"r"}
  Limit = 1
  MaxFencing = 2
INVARIANTS
  ConsentSpentWithItsCall
  NoBlindRepeat
  DispatchFollowsLease
CHECK_DEADLOCK FALSE

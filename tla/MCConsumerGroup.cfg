SPECIFICATION Spec
CONSTANTS
  c1 = c1
  c2 = c2
  Consumers = {c1, c2}
  RunOf <- OneEntry
  Garbled = {1}
  Count = 1
  MaxAttempts = 2
  MaxFaults <- OneOfEach
SYMMETRY Symmetry
INVARIANTS
  NoEntryLost
CHECK_DEADLOCK FALSE

SPECIFICATION Spec
CONSTANTS
  c1 = c1
  c2 = c2
  Consumers = {c1}
  RunOf <- SameRun
  Garbled = {2}
  Count = 2
  MaxAttempts = 2
  MaxFaults <- OneOfEach
INVARIANTS
  CallsWithinBudget
  EffectOnceUnlessCrash
PROPERTIES
  EveryEntrySettled
CHECK_DEADLOCK FALSE

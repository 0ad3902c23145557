SPECIFICATION Spec
CONSTANTS
  o1 = o1
  o2 = o2
  Relays <- TwoRelays
  NoRelay = NoRelay
  AnyRelay = AnyRelay
  Runs = {"a"}
  BatchLimit = 2
  MaxRows = 3
  MaxFaults <- OneOfEach
INVARIANTS
  InOrderWithoutBackoff
  StreamNeverGoesBack
PROPERTIES
  EveryRowPublished
CHECK_DEADLOCK FALSE

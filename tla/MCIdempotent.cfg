SPECIFICATION Spec
CONSTANTS
  d1 = d1
  d2 = d2
  d3 = d3
  d4 = d4
  Deliveries <- All
  NoDelivery = NoDelivery
  Hash <- OneOther
  NoHash = 0
  MaxCrashes = 2
INVARIANTS
  AckedMeansEffect
PROPERTIES
  ImplementsSingleEffect
CHECK_DEADLOCK FALSE

SPECIFICATION Spec
CONSTANTS
  a = a
  b = b
  Producers = {"read", "claim"}
  Work <- ThreeAndTwo
  QueueSize = 2
  Workers = {1, 2, 3}
INVARIANTS
  OneWorkerPerRun
  HandledInOrder
PROPERTIES
  EveryTaskHandled
  StopTerminates
CHECK_DEADLOCK FALSE

SPECIFICATION PayloadSpec
CONSTANTS
  NStages = 2
  NSinks = 1
  CallerAdds = 1
  Faults <- NoFaults
  MaxRead = 1
  MaxErrs = 1
  Objects <- SomeObjects
  None = None
  Kinds <- OnlyKafka
  Normalizers <- LastStage
  Capacity = 1
INVARIANTS
  DeepCopy
CHECK_DEADLOCK FALSE

SPECIFICATION PayloadSpec
CONSTANTS
  NStages = 2
  NSinks = 2
  CallerAdds = 1
  Faults <- Discards
  MaxRead = 2
  MaxErrs = 1
  Objects <- SomeObjects
  None = None
  Kinds <- BothKinds
  Normalizers <- LastStage
  Capacity = 1
INVARIANTS
  HeapTypeOK
  Exclusive
  StorageGets
  OneRecord
  RabbitDay
CHECK_DEADLOCK FALSE

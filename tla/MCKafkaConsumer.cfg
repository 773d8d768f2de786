SPECIFICATION FairSpec
CONSTANTS
  Partitions <- TwoPartitions
  Initial <- FirstPartition
  Poison <- SecondMessage
  InFlight = 1
  Batch = 2
  Faults <- AllFaults
  MaxOffset = 3
  MaxCrashes = 1
INVARIANTS
  TypeOK
  PartitionPrefix
  Exposure
PROPERTIES
  AtLeastOnce
CHECK_DEADLOCK FALSE

SPECIFICATION FairSpec
CONSTANTS
  Strings <- TestStrings
  MaxSent = 3
  Malformed <- ThirdMessage
  ConsumerFaults <- AllConsumerFaults
  MaxCloses = 1
  PoolSize = 2
  Buffer = 1
  Names <- FileNames
  WriteFaults <- AllWriteFaults
  Paths <- TestPaths
  InFlight = 2
  MaxStarts = 2
INVARIANTS
  TypeOK
  LoadsAll
  OneWriter
  ValidatedFiles
  Overtaking
PROPERTIES
  LossHasCause
  AtMostOnceSpec
  LossNoticed
  AllStored
CHECK_DEADLOCK FALSE

SPECIFICATION Spec
CONSTANTS
  NStages = 2
  NSinks = 2
  CallerAdds = 1
  Faults <- DeployedFaults
  MaxRead = 3
  MaxErrs = 1
INVARIANTS
  TypeOK
  IInv
  GapFree
  InOrder
  FanoutSkew
  LateReads
PROPERTIES
  DeliverySpec
CHECK_DEADLOCK FALSE

SPECIFICATION Spec
CONSTANTS
  NStages = 1
  NSinks = 1
  CallerAdds = 1
  Faults <- DeployedFaults
  MaxRead = 2
  MaxErrs = 1
INVARIANTS
  DroppedBehindOthers
CHECK_DEADLOCK FALSE

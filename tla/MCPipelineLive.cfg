SPECIFICATION FairSpec
CONSTANTS
  NStages = 1
  NSinks = 2
  CallerAdds = 1
  Faults <- DeployedFaults
  MaxRead = 3
  MaxErrs = 1
PROPERTIES
  FailureCancels
  CancelStops
  Delivers
CHECK_DEADLOCK FALSE

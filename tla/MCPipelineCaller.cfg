SPECIFICATION FairSpec
CONSTANTS
  NStages = 1
  NSinks = 1
  CallerAdds = 1
  Faults <- DeployedFaults
  MaxRead = 2
  MaxErrs = 1
PROPERTIES
  Returns
CHECK_DEADLOCK FALSE

SPECIFICATION FairSpec
CONSTANTS
  NStages = 1
  NSinks = 1
  CallerAdds = 0
  Faults <- AllFaults
  MaxRead = 2
  MaxErrs = 1
PROPERTIES
  ExpiryReturns
CHECK_DEADLOCK FALSE

SPECIFICATION FairSpec
CONSTANTS
  NStages = 0
  NSinks = 1
  CallerAdds = 0
  Faults <- AllFaults
  MaxRead = 4
  MaxErrs = 1
INVARIANTS
  NoWorkerPanic
  InFlightBound
PROPERTIES
  Returns
CHECK_DEADLOCK FALSE

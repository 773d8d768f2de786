SPECIFICATION FairSpec
CONSTANTS
  Workers = {w1, w2}
  Free = free
  Batch = 2
  IndexOf <- TwoDays
  RetrySettings <- AnyRetries
  Faults <- AllFaults
  MaxRetry = 2
INVARIANTS
  TypeOK
  Whole
  Accounted
  IInv
PROPERTIES
  WriteReturns
CHECK_DEADLOCK FALSE

SPECIFICATION Spec
CONSTANTS
  Workers = {w1, w2}
  Free = free
  Batch = 2
  IndexOf <- TwoDays
  RetrySettings <- OneRetry
  Faults <- AllFaults
  MaxRetry = 2
INVARIANTS
  RetriesWhole
CHECK_DEADLOCK FALSE

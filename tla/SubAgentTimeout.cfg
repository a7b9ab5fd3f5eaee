SPECIFICATION Spec
CONSTANTS
  Timeout = 2
  RetryLimit = 2
  MaxElapsed = 5
INVARIANT EndsWithinTimeout
CHECK_DEADLOCK FALSE

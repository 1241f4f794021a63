SPECIFICATION Spec
CONSTANTS
  Requests = {r1, r2}
  Limit = 1
  MaxAttempts = 2
CHECK_DEADLOCK FALSE
INVARIANT ResponseOrError

SPECIFICATION FairSpec
CONSTANTS
  Requests = {r1, r2}
  Limit = 1
  MaxAttempts = 2
INVARIANTS
  IInv
  RunBounded
PROPERTIES
  NothingLeftBehind
  ImplementsRpc
  CallsEnd
  RunEnds
CHECK_DEADLOCK FALSE

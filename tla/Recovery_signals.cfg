SPECIFICATION Spec
CONSTANTS
  MaxTrips = 1
  Concurrency = 1
  RunLength = 2
  MaxAttempts = 1
  MaxFaults = 0
  MaxSent <- MCMaxSent
PROPERTIES
  AllSignalsReplayed
CHECK_DEADLOCK FALSE

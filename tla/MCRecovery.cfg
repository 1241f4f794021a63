SPECIFICATION FairSpec
CONSTANTS
  MaxTrips = 3
  Concurrency = 2
  RunLength = 1
  MaxAttempts = 2
  MaxFaults = 2
  MaxSent <- MCMaxSent
INVARIANTS
  AllRecovered
  OneActivityPerTrip
  NoEventTwice
  TripsOpenAgain
  IInv
PROPERTIES
  RecoverCompletes
CHECK_DEADLOCK FALSE

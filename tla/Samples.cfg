CONSTANTS
  MaxLost = 1
  MaxRuns = 2
  MaxRequests = 6
  MaxUnheard = 1
  MaxActions = 2
  MaxUpdates = 3
  MaxTime = 9
  MaxClock = 9
  MaxMessages = 3
  MaxTurns = 1
  MaxChats = 3
  MaxCalls = 2
  MaxDecisions = 3
  TickCount = 7
  KeepLast = 2
  TruncateEvery = 2
  MaxStreamAttempts = 3
  Executions = {1, 2, 3, 4}
  PageSize = 2
  MaxReads = 2
  CacheKeys = {"a", "b", "c", "d"}
  CacheSize = 3
  MaxHolds = 2
  MaxInits = 3
  MaxAttempts = 3
  MaxLostResults = 2
  BatchSize = 9
  MaximumAttempts = 5
  ErrorAttempts = 5
  PollsPerRun = 3
  MaxRestarts = 2
  MaxLostAnswers = 2
  Particles = {1, 2}
  SwarmSteps = 4
  ContinueAsNewEvery = 2
  NumberOfAttempts = 3
  RunCount = 5
  RemainingActions = 10
  Signals = 2
  MaxRecords = 5
  MaxWindow = 4
  MaxPartitions = 3
  GrpcCalls = {1, 2}
  Expiration = 5
  RegenLeeway = 3
  Pause = 1
SPECIFICATION Spec
INVARIANTS
  SessionsKept
  ReadsComplete
  ResultsEarned
  FailuresUndone
  BoundsKept
PROPERTIES
  DecisionsObeyed
  EverythingEnds
CHECK_DEADLOCK FALSE

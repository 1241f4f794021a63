SPECIFICATION FairSpec
CONSTANTS
  Senders = {s1, s2}
  NoSender = NoSender
  MaximumAttempts = 2
INVARIANTS
  MutualExclusion
  NoLostRequest
  IInv
PROPERTIES
  ImplementsLease
  WaiterServed
CHECK_DEADLOCK FALSE

CONSTANTS
  Decisions = {d1, d2}
  MaxFaults = 2
SPECIFICATION FairSpec
CHECK_DEADLOCK FALSE
INVARIANTS IInv PaidOnApproval
PROPERTIES DecisionTold PaymentCompletes

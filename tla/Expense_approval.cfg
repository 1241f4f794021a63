CONSTANTS
  Decisions = {d1}
  MaxFaults = 0
SPECIFICATION FairSpec
CHECK_DEADLOCK FALSE
PROPERTIES ApprovalTold

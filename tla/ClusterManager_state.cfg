SPECIFICATION Spec
CONSTANTS
  Nodes = {n1, n2}
  Jobs = {j1, j2}
  Free = Free
  Bad = Bad
  FailingNodes = {n1}
  Updates = {u1, u2}
  Sizes = {1, 2}
  MaxRuns = 2
PROPERTIES
  StatePassedOn
CHECK_DEADLOCK FALSE

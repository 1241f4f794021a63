SPECIFICATION FairSpec
CONSTANTS
  PageSize = 2
  SlidingWindowSize = 3
  Offset = 1
  MaximumOffset = 6
INVARIANTS
  WindowBound
  NoChildDropped
  NoSignalLost
  IInv
PROPERTIES
  ImplementsWindow
  BatchCompletes
CHECK_DEADLOCK FALSE

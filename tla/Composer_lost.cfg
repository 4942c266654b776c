SPECIFICATION Spec
CONSTANTS
  MaxSends = 2
  MaxItems = 2
  MaxFaults = 2
  MaxTouches = 1
INVARIANT NothingLost
CHECK_DEADLOCK FALSE

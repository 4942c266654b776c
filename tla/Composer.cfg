SPECIFICATION Spec
CONSTANTS
  MaxSends = 2
  MaxItems = 2
  MaxFaults = 2
  MaxTouches = 1
INVARIANTS KeptUntilSent PostedOnce WaitsForSomething
CHECK_DEADLOCK FALSE

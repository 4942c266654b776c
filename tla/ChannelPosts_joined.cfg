SPECIFICATION Spec
CONSTANTS
  Channels <- Growing
  PageSize = 2
  ProbePercent = 30
  Painted = 1
  Fetched = 2
INVARIANT Narrow
CHECK_DEADLOCK FALSE

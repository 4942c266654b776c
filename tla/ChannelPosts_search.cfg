SPECIFICATION Spec
CONSTANTS
  Channels <- FullPages
  PageSize = 2
  ProbePercent = 30
  Painted = 1
  Fetched = 2
PROPERTY SearchProvesCount
CHECK_DEADLOCK FALSE

SPECIFICATION Spec
CONSTANTS
  Channels <- OpenedChannels
  PageSize = 2
  ProbePercent = 30
  Painted = 1
  Fetched = 2
INVARIANTS ExactDistances RequestsOwned SearchNarrows
PROPERTY KnownPostsStay
CHECK_DEADLOCK FALSE

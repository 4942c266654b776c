SPECIFICATION Spec
CONSTANTS
  MaxReplies = 4
  Opened = 3
  Block = 1
  MaxFetch = 2
  Context = 1
  SeekDistance = 1
  MaxAsks = 2
  MaxTargets = 1
  MaxMoves = 4
INVARIANTS ExactRanks NoFalseAdjacency DemandsOwned
PROPERTY ConfirmedStays
CHECK_DEADLOCK FALSE
CONSTRAINT Followed

SPECIFICATION FairFallbackSpec
CONSTANTS
    MaxPosts = 3
    MaxOwn = 1
    MaxOutages = 2
    MaxPolls = 1
PROPERTY EveryPostShown
CHECK_DEADLOCK FALSE

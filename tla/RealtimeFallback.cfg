SPECIFICATION FairFallbackSpec
CONSTANTS
    MaxPosts = 4
    MaxOwn = 1
    MaxOutages = 3
    MaxPolls = 1
INVARIANTS
    OnePoll
PROPERTY ShownUnlessOwn
CHECK_DEADLOCK FALSE

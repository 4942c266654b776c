SPECIFICATION Spec
CONSTANTS
    MaxPosts = 3
    MaxCalls = 2
    MaxMarks = 1
    MaxDisturbances = 1
INVARIANT ReadNotUndone
CHECK_DEADLOCK FALSE

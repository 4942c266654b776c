SPECIFICATION Spec
CONSTANTS
    MaxPosts = 3
    MaxCalls = 2
    MaxMarks = 1
    MaxDisturbances = 1
INVARIANTS
    MarkShown
    ReadHeld
    AttentionSettles
CHECK_DEADLOCK FALSE

CONSTANTS
    MaxEvents = 3
    MaxStreams = 5
    MaxFaults = 2
    MaxLogins = 2
    MaxNudges = 1
    MaxRequest = 3
    Lossy = TRUE
SPECIFICATION FairSpec
INVARIANTS
    Recovers
    EndpointCurrent
    Consistent
    NothingForgotten
PROPERTIES
    DeliversInOrder
    ComesBack
CHECK_DEADLOCK FALSE

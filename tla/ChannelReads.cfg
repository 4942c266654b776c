SPECIFICATION Spec
CONSTANTS
    MaxPosts = 2
    MaxViews = 2
    MaxMarks = 1
    MaxFaults = 1
    Configs = {"default_on"}
    Preferences = {"none", "off"}
INVARIANTS
    UnreadShown
    ReadShown
CHECK_DEADLOCK FALSE

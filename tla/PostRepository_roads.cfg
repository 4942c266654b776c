SPECIFICATION Spec
CONSTANTS
    rootPost = rootPost
    replyPost = replyPost
    Posts = {rootPost}
    Page = page
    Reads = {rootPost, page}
    Root <- MCRoot
    MaxRev = 2
    MaxDispatch = 2
    MaxLoads = 1
    MaxEvictions = 0
    MaxRestarts = 1
    MaxRefreshes = 1
    MaxCalls = 1
    Horizons = {"hot", "cold"}
INVARIANTS
    ResidentNotBehind
    NoResurrection
PROPERTY CacheFillsOnlyAbsence
CHECK_DEADLOCK FALSE

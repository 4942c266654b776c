SPECIFICATION Spec
CONSTANTS
    rootPost = rootPost
    replyPost = replyPost
    Posts = {rootPost, replyPost}
    Page = page
    Reads = {rootPost, replyPost, page}
    Root <- MCRoot
    MaxRev = 2
    MaxDispatch = 3
    MaxLoads = 1
    MaxEvictions = 1
    MaxRestarts = 0
    MaxRefreshes = 0
    MaxCalls = 0
    Horizons = {"hot"}
INVARIANTS
    ResidentNotBehind
    NoResurrection
    RowsNotBehindInvalidation
    Converges
    NoLoadForgotten
CHECK_DEADLOCK FALSE
CONSTRAINT ReplyOnce

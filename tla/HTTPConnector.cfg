SPECIFICATION FairSpec
CONSTANTS
    main = main
    dialog = dialog
    page = page
    prefetch = prefetch
    post = post
    avatar = avatar
    upload = upload
    Connectors = {main, dialog}
    Requests = {page, prefetch, post, avatar, upload}
    Gets = {page, prefetch, avatar}
    Low = {prefetch, upload}
    Owner <- MCOwner
    MaxConcurrentRequests = 2
    MaxRestarts = 1
    MaxResets = 1
INVARIANTS
    SlotsServed
    Accounted
    WritesSentOnce
PROPERTY EveryCallReturns
CHECK_DEADLOCK FALSE

SPECIFICATION NavigationSpec
CONSTANTS
    None = None
    near = near
    side = side
    far = far
    root = root
    reply = reply
    away = away
    Channels = {near, side, far}
    Posts = {root, reply, away}
    Home <- MCHome
    RootOf <- MCRootOf
    Public = {far}
    Listed = {near, side}
    Strange = {far}
    MaxNavigations = 2
    MaxClicks = 1
    MaxFailures = 1
    MaxDrags = 1
INVARIANT AdmissionsEnd
CHECK_DEADLOCK FALSE

SPECIFICATION Spec
CONSTANTS
    c1 = c1  c2 = c2
    None = None
    RemoteAddr <- MCRemoteAddr
    Header <- MCHeader
    MaxRequests = 2
    Window = 3
    MaxTime = 8
INVARIANTS TypeOK WindowBound
PROPERTIES ImplementsSlidingWindow
CHECK_DEADLOCK FALSE

CONSTANTS
    h1 = h1
    h2 = h2
    Thread <- TwoThreads
    Kind = {"register", "verify"}
    MaxService = 3
    MaxLoads = 1
    CastMayFail = FALSE
SPECIFICATION Spec
INVARIANTS
    TypeOK
    ProxyWatched
    OneComponentPerCall
PROPERTIES
    LiveProxyKept
    CallsReturn
CHECK_DEADLOCK TRUE

CONSTANTS
    p1 = p1
    p2 = p2
    t1 = t1
    t2 = t2
    c1 = c1
    c2 = c2
    Pid <- OnePid
    Token <- OneToken
    TokensOf <- SingleToken
    ScId <- OneId
    Type = {"SAVE", "PASTE"}
    Caller <- OneCaller
    Calls = {"register", "update", "click"}
    EnhanceResult = {TRUE, FALSE}
    GrantResult = {TRUE, FALSE}
    UnloadResult = {TRUE}
    AppMgrMayDie = FALSE
    LateCalls = FALSE
    MaxComponents = 500
    MaxDialogs = 1
    RootPid = {}
    MaxFail = 1
    Path <- GrantPaths
    MaxSaveGrants = 2
    NoName = NoName
SPECIFICATION SafeSpec
INVARIANTS
    TypeOK
    CountMatchesDeque
    RecordReachesFile
    CleanStart
    FirstSaveAsks
PROPERTIES
    LeaseSafety
CHECK_DEADLOCK FALSE

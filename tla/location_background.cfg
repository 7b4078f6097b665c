CONSTANTS
    p1 = p1
    p2 = p2
    t1 = t1
    t2 = t2
    c1 = c1
    c2 = c2
    Pid <- OnePid
    Token <- OneToken
    TokensOf <- SingleToken
    ScId <- OneId
    Type = {"LOCATION"}
    Caller <- OneCaller
    Calls = {"register", "click"}
    EnhanceResult = {TRUE}
    GrantResult = {TRUE}
    UnloadResult = {TRUE}
    AppMgrMayDie = FALSE
    LateCalls = FALSE
    MaxComponents = 500
    MaxDialogs = 1
    RootPid = {}
    MaxFail = 3
    Path <- GrantPaths
    MaxSaveGrants = 0
    NoName = NoName
SPECIFICATION Spec
PROPERTIES
    BackgroundEndsGrant
CHECK_DEADLOCK FALSE

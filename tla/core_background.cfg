CONSTANTS
    p1 = p1
    p2 = p2
    t1 = t1
    t2 = t2
    c1 = c1
    c2 = c2
    Pid <- TwoPids
    Token <- TwoTokens
    TokensOf <- MixedTokens
    ScId <- OneId
    Type = {"LOCATION"}
    Caller <- OneCaller
    Calls = {"register", "click"}
    EnhanceResult = {TRUE}
    GrantResult = {TRUE, FALSE}
    UnloadResult = {TRUE}
    AppMgrMayDie = TRUE
    LateCalls = FALSE
    MaxComponents = 500
    MaxDialogs = 1
    RootPid = {}
    MaxFail = 3
    Path <- GrantPaths
    MaxSaveGrants = 0
    NoName = NoName
SPECIFICATION SafeSpec
INVARIANTS
    NoStrayRevoke
    WaitersRegistered
    HeldIsRecorded
    GrantsRevocable
    EntitiesMatchEntry
PROPERTIES
    TwoWaysToEscape
CHECK_DEADLOCK FALSE

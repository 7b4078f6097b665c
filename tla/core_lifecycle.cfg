CONSTANTS
    p1 = p1
    p2 = p2
    t1 = t1
    t2 = t2
    c1 = c1
    c2 = c2
    Pid <- TwoPids
    Token <- TwoTokens
    TokensOf <- OwnToken
    ScId <- TwoIds
    Type = {"LOCATION"}
    Caller <- OneCaller
    Calls = {"register", "preRegister", "unregister"}
    EnhanceResult = {TRUE}
    GrantResult = {TRUE}
    UnloadResult = {TRUE, FALSE}
    AppMgrMayDie = TRUE
    LateCalls = TRUE
    MaxComponents = 0
    MaxDialogs = 1
    RootPid <- OnePid
    MaxFail = 3
    Path <- GrantPaths
    MaxSaveGrants = 0
    NoName = NoName
SPECIFICATION SafeSpec
INVARIANTS
    NoComponentAfterExit
    ExitArmedWhenIdle
CHECK_DEADLOCK FALSE

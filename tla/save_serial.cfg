\* One grant path: grants of a token never overlap.
CONSTANTS
    t1 = t1
    t2 = t2
    Token <- TwoTokens
    Path <- ClickOnly
    MaxSaveGrants = 5
    NoName = NoName
SPECIFICATION Spec
INVARIANTS
    OwnTaskPending
    FiredIsFront
PROPERTIES
    LeaseSpec
\* No grant left, no task left: the behaviour stops at the bound.
CHECK_DEADLOCK FALSE

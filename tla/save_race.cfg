CONSTANTS
    t1 = t1
    t2 = t2
    Token <- TwoTokens
    Path <- ClickAndDialog
    MaxSaveGrants = 3
    NoName = NoName
SPECIFICATION Spec
PROPERTIES
    SaveExpires
CHECK_DEADLOCK FALSE

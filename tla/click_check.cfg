CONSTANTS
    Description <- AllDescriptions
    Report <- Reports
    Layout <- Layouts
    Screen <- Screens
    CreaseOffset = 30
    MaxTouchInterval = 2
    WordSize = 8
    MaxTime = 3
    UintSize = 256
SPECIFICATION Spec
INVARIANTS
    TypeOK
    ClickFresh
    ClickUncovered
    NoFalseCover
    TouchOnComponent
    RectNotDrifting
    BypassShowsToast
    ClickedIsOnScreen
    ClickedIsReadable
CHECK_DEADLOCK TRUE

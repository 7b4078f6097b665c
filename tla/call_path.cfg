CONSTANTS
    a = a
    b = b
    Thread <- TwoThreads
    MaxId = 1
    MaxEntry = 3
    NoThread = NoThread
SPECIFICATION Spec
INVARIANTS
    HeldIsListedAndKnown
    ListedIsAccounted
PROPERTIES
    CallsReturn

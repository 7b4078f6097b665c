CONSTANTS
    t1 = t1
    t2 = t2
    Pid <- TwoPids
    UidOf <- OneApplication
    Token <- TwoTokens
    MaxReports = 2
    MaxRecordTasks = 1
SYMMETRY TokenSymmetry
SPECIFICATION Spec
INVARIANTS
    ForegroundAdmitted
    ReportsSettleList
PROPERTIES
    RecordKeepsPromise

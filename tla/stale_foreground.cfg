CONSTANTS
    t1 = t1
    t2 = t2
    Pid = {1}
    UidOf <- OneApplication
    Token = {t1}
    MaxReports = 2
    MaxRecordTasks = 1
SPECIFICATION Spec
INVARIANTS
    BackgroundRefused

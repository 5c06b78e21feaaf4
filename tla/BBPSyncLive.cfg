SPECIFICATION FairSpec
CONSTANTS
    N = 2
    Absent = Absent
    Torn = Torn
    Faults = {"write"}
    CallerInserts = FALSE
    RetryAny = FALSE
    SaveDropped = FALSE
    MaxClock = 2
    MaxBackups = 3
PROPERTY RecoveryCompletes
PROPERTY CommitReturns

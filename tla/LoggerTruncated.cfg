SPECIFICATION Spec
CONSTANTS
    Names = {c1}
    Absent = Absent
    KeepLogs = 0
    CrashWindows = {"truncated"}
    Bids = {1, 2, 3, 4, 5, 6}
    MaxTx = 1
    MaxSeq = 0
    MaxStops = 2
    MaxFlushes = 0
INVARIANT Durable
CHECK_DEADLOCK FALSE

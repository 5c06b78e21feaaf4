SPECIFICATION Spec
CONSTANTS
    c1 = c1
    Names = {c1}
    Absent = Absent
    KeepLogs = 1
    CrashWindows = {}
    Bids = {1, 2, 3, 4, 5, 6}
    MaxTx = 2
    MaxSeq = 1
    MaxStops = 2
    MaxFlushes = 2
INVARIANT Durable
INVARIANT SequencesSurvive
INVARIANT EntriesFound
PROPERTY CleanupExact
CHECK_DEADLOCK FALSE

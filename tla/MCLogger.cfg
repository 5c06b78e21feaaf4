SPECIFICATION Spec
CONSTANTS
    c1 = c1
    c2 = c2
    Names = {c1, c2}
    Absent = Absent
    KeepLogs = 0
    CrashWindows = {}
    Bids = {1, 2, 3, 4, 5, 6, 7}
    MaxTx = 2
    MaxSeq = 0
    MaxStops = 2
    MaxFlushes = 1
SYMMETRY Symmetry
INVARIANT Durable
INVARIANT TypeOK
INVARIANT Bootable
INVARIANT SnapshotsPast
CHECK_DEADLOCK FALSE

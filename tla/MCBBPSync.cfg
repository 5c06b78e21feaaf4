SPECIFICATION Spec
CONSTANTS
    N = 2
    Absent = Absent
    Torn = Torn
    Faults = {"write", "move", "rename"}
    CallerInserts = TRUE
    RetryAny = FALSE
    SaveDropped = FALSE
    MaxClock = 3
    MaxBackups = 3
INVARIANT TypeOK
INVARIANT CheckpointIntact
INVARIANT FlagsMatchCheckpoint
INVARIANT LiveBackupsKept
INVARIANT BackupDirTells
PROPERTY AtomicCheckpoint

SPECIFICATION Spec
CONSTANTS
    s1 = s1
    s2 = s2
    Sessions = {s1, s2}
    a1 = a1
    a2 = a2
    b1 = b1
    A = A
    B = B
    Columns <- AllColumns
    Tables <- AllTables
    TableOf <- InTable
    Uses <- FewUses
    Reopened = FALSE
    Overtaking = FALSE
    MaxStamp = 4
    MaxEffort = 3
    MaxSchema = 1
SYMMETRY Symmetry
INVARIANT TypeOK
INVARIANT NoDangling
INVARIANT SnapshotReads
PROPERTY Serializable
CHECK_DEADLOCK FALSE

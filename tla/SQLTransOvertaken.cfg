SPECIFICATION Spec
CONSTANTS
    s1 = s1
    s2 = s2
    Sessions = {s1, s2}
    a1 = a1
    a2 = a2
    b1 = b1
    A = A
    B = B
    Columns <- AllColumns
    Tables <- AllTables
    TableOf <- InTable
    Uses <- FewUses
    Reopened = FALSE
    Overtaking = TRUE
    MaxStamp = 5
    MaxEffort = 2
    MaxSchema = 1
SYMMETRY Symmetry
PROPERTY NothingLost
CHECK_DEADLOCK FALSE

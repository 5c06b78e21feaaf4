SPECIFICATION Spec
CONSTANTS
    c1 = c1
    c2 = c2
    Nobody = Nobody
    Clients = {c1}
    Slots = {1, 2, 3}
    Limit = 1
    Graphs <- Threes
    Called <- Ones
    Faults = {"error", "graph", "create"}
    Depths <- Both
    Slow = {}
    MaxBlocks = 1
    MaxStops = 0
INVARIANT TypeOK
INVARIANT OnePlace
INVARIANT FreedLast
INVARIANT AllExecuted
INVARIANT TokenFinds
INVARIANT PoolSize
INVARIANT InputsReady
CHECK_DEADLOCK FALSE

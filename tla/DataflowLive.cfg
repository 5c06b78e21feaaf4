SPECIFICATION FairSpec
CONSTANTS
    c1 = c1
    c2 = c2
    Nobody = Nobody
    Clients = {c1, c2}
    Slots = {1, 2, 3}
    Limit = 1
    Graphs <- Calls
    Called <- Ones
    Faults = {}
    Depths <- Outer
    Slow = {c2}
    MaxBlocks = 2
    MaxStops = 1
INVARIANT TokenFinds
INVARIANT PoolSize
INVARIANT SpecificOwned
PROPERTY BlockEnds
PROPERTY StopEnds
CHECK_DEADLOCK FALSE

SPECIFICATION FairSpec
CONSTANTS
    c1 = c1
    c2 = c2
    Nobody = Nobody
    Clients = {c1, c2}
    Slots = {1, 2, 3}
    Limit = 1
    Graphs <- OneAndPair
    Called <- Ones
    Faults = {}
    Depths <- Inner
    Slow = {c2}
    MaxBlocks = 2
    MaxStops = 0
PROPERTY BlockEnds
CHECK_DEADLOCK FALSE

SPECIFICATION FairSpec
CONSTANTS
    Threads = {1, 2}
    Slots = {1, 2, 3}
    Addresses = {1, 2}
    Faults = {"load"}
    MaxCalls = 4
INVARIANT TypeOK
INVARIANT RefsCounted
INVARIANT HeapsHeld
INVARIANT SlotsOwned
INVARIANT Saved
PROPERTY CallsReturn
CHECK_DEADLOCK FALSE

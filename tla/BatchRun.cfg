CONSTANTS
    Size = 5
    Chunk = 2
    Requests = {0, 2, 3}
    Hardware = 0
    Empty = Empty
SPECIFICATION FairSpec
INVARIANTS
    DisjointSlots
    NoWorkerOutlivesCall
    StoppedForGood
    NothingLost
PROPERTIES
    ImplementsMap
CHECK_DEADLOCK FALSE

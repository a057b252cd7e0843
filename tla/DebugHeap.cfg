SPECIFICATION Spec
CONSTANTS
    t1 = t1
    t2 = t2
    own = own
    both = both
    HDR = 3
    NML = 1
    PTR = 2
    Threads <- TwoThreads
    Uses <- OwnAndBoth
    Limit = 26
    Bases = {0, 8, 17}
    Sizes = {1, 2}
    Aligns = {1, 4}
    PoolNodes = 2
    VerifyFrequency = 2
    MaxAllocations = 2
    MaxReallocations = 1
INVARIANTS
    TypeOK
    LiveNodesAreBlocks
    LeakReportExact
    IdsUnique
    BlocksWellLaid
    NoBlockTorn
    NoFalseAlarm
CHECK_DEADLOCK FALSE

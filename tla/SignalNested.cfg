SPECIFICATION AllSpec
CONSTANTS
    callee = callee
    v1 = v1
    v2 = v2
    a1 = a1
    a2 = a2
    memberA = memberA
    memberB = memberB
    memberC = memberC
    here = here
    there = there
    nil = nil
    Absent = Absent
    NoFunction = NoFunction
    Functions_ <- OneFunction
    MaxCallbacks = 3
    MaxDepth = 2
    MaxRemovals = 2
    HashValues <- TwoValues
    Keys <- FiveKeys
    Pairs <- OneWithBoth
    Hash <- ItsOwnHash
    MINIMUM_SIZE = 16
    LOAD_FACTOR_PERCENT = 60
    Reservations = {16}
    Sizes = {16, 32}
    Cells = {1, 2}
    Given <- UpToTwo
    Junk = 0
    Arrays <- TwoArrays
    Blocks = {1, 2, 3}
    NoData = 0
    MinAllocated = 2
    MaxCount <- ThreeAndOne
    N = 4
    BASE_SHIFT = 1
    MaxElements = 9
    Nodes = {1, 2, 3, 4}
    null = 0
    Sortable = {1, 2, 3, 4}
    Key <- Tie
    Lengths = {1, 2, 3, 4, 5}
    Threshold = 1
    MEMBERS <- ThreeMembers
    VariantValues = {1, 2}
    Empty = 0
    Variants <- TwoVariants
    MaxMade = 6
    Parts = {"signal"}
PROPERTIES
    RemovedAfterEmitting
CHECK_DEADLOCK FALSE

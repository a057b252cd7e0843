SPECIFICATION AllSpec
CONSTANTS
    t1 = t1
    t2 = t2
    t3 = t3
    s1 = s1
    s2 = s2
    w1 = w1
    w2 = w2
    n1 = n1
    n2 = n2
    n3 = n3
    main = main
    c1 = c1
    c2 = c2
    malloc = malloc
    pool = pool
    Threads <- ThreeThreads
    Nobody = Nobody
    Statics <- TwoStatics
    EpochStart <- LowestEpoch
    NativeWait = FALSE
    MaxAborts = 2
    Kinds = {"posix"}
    TryLocks = TRUE
    MaxDepth = 2
    Rounds = 2
    Parts = {"locks"}
    Casts <- AsInTheTest
    Latches = {TRUE}
    Notifiers <- TwoNotifiers
    Started <- MainAndTwo
    Main = main
    Allocators <- TwoAllocators
    MaxScopes = 2
INVARIANTS
    MutualExclusion
CHECK_DEADLOCK FALSE

SPECIFICATION AllSpec
CONSTANTS
    small = small
    large = large
    a1 = a1
    a2 = a2
    a3 = a3
    a4 = a4
    t = t
    u = u
    short = short
    long = long
    Garbage = Garbage
    p = p
    q = q
    r = r
    c1 = c1
    c2 = c2
    Null = Null
    PoolBlocks <- TwoBlocks
    ChunksOf <- TwoAndThree
    Addresses <- FourAddresses
    Threads <- TwoThreads
    Dirs <- TwoDirs
    Length <- Lengths
    MaxCalls = 2
    Writers <- ThreeWriters
    Consoles = {"COUT", "CERR"}
    Script <- Scripts
    BufferSize = 3
    Callers <- TwoCallers
    Names = {"a", "b", "d", "d/a"}
    Inside <- InDirectory
    Inodes = {1, 2, 3}
    Contents <- OneCharacter
    FirstDirs <- Given
    Provided = 6
    Lazy = 7
    MaxUsed = 9
    Requests = {1, 2, 3}
    TempStart = 4
    MaxTempSize = 24
    Start = 20
    Control = 6
    PoolOverhead = 2
    Overhead = 1
    MaxBlocks = 3
    Parts = {"arena", "pool", "memory", "directory", "consoles", "files"}
    Platforms = {"windows", "posix"}
    OneThread = TRUE
    TempRequests = {3, 5, 12}
    BlockRequests = {4, 10, 18}
INVARIANTS
    TypesOK
    ChunksConserved
    TemporaryIsSound
    PagesStayMapped
    NewPoolSuffices
    DirectoryIsCurrent
    MessagesArrive
    MoveLosesNothing
PROPERTIES
    KeepsContract
    OverwritesNothing
SYMMETRY
    Anywhere
CHECK_DEADLOCK FALSE

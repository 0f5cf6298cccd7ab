SPECIFICATION MCSpec
CONSTANTS
    Threads = {main, t1}
    Main = main
    Trackers = {a1, a2, a3}
    Blocks = {b1, b2, b3}
    NULL = NULL
    Size = 4
    UInt = 64
    MaxWritten = 9
    MaxIteration = 2
    DictKeys <- MCDictKeys
    HashFunc <- MCHashFunc
    InitialSizes = {0, 1, 3}
    MaxAdds = 5
    HashThreads = {"t1", "t2"}
    HashKeys = {"k1", "k2"}
    Sum <- MCSum
    Elements = 2
    MaxSets = 4
    MaxGets = 2
    Sizes = {1, 3}
    Pieces <- MCPieces
    MaxWrites = 4
INVARIANTS
    MemorySound
    RingSound
    KeysKept
    LooksRight
    TextKept
PROPERTY
    DeadMemoryFreed
CHECK_DEADLOCK FALSE

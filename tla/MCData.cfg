SPECIFICATION MCSpec
CONSTANTS
    Names <- MCNames
    NameLen <- MCNameLen
    Hash <- MCHash
    Keys <- MCMemberNames
    Strings <- MCStrings
    Threads = {t1, t2}
    InitSize = 1
    MaxIncr = 4
    MaxTokens = 5
    MaxBefore = 2
    MaxParts = 2
    MaxAllocs = 2
    MaxReads = 1
    MaxUnits = 5
    MaxText = 26
    ConstantSize = 2
    IdentLength = 9
    OperTypes = {0, 2}
    MaxOpers = 2
    CdbKeys = {"a", "b", "c"}
    CdbHash <- MCCdbHash
    CdbVals = {20}
    SheetsMax = 4
    RowsPerSheet = 2
    KeysPerRow = 1
    KernelPage = 32
    CountsPerPage = 3
    KvdataMaximum = 150
    CountsLists = {1, 2}
    MaxRecords = 3
    MaxCount = 2
    CdbThreads = {"t1", "t2", "t3"}
    Places = {1, 2}
    Swaps <- MCSwaps
    MaxCalls = 1
INVARIANTS
    LookupsRight
    JsonWhole
    MemoryAccounted
    ParseRight
    DispatchRight
    CdbSound
    InstancesExclusive
PROPERTY
    EnsembleCallsReturn
CHECK_DEADLOCK FALSE

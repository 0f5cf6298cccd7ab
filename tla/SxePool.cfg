SPECIFICATION FairPoolSpec
CONSTANTS
    Number = 2
    NLists = 2
    Threads = {1, 2}
    SpinMax = 1
    Shared = {0}
    MaxCount = 4
INVARIANTS
    PoolSound
    NoAbort
PROPERTIES
    AbsPoolSpec
    CallsReturn
CHECK_DEADLOCK FALSE

SPECIFICATION WalkerSpec
CONSTANTS
    Number = 3
    NLists = 2
    Threads = {1, 2}
    SpinMax = 1
    Shared = {0}
    MaxCount = 7
    Walker = 2
    Walked = 0
INVARIANT
    WalkComplete
CHECK_DEADLOCK FALSE

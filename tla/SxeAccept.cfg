SPECIFICATION FairSpec
CONSTANTS Number = 3  BufSize = 1  DeferredMax = 1  MaxIn = 0  MaxWaiting = 1  MaxStack = 2
    Calls = {"listen", "connect", "close"}
PROPERTY NoneLeftWaiting
CHECK_DEADLOCK FALSE

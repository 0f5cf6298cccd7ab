SPECIFICATION Spec
CONSTANTS Number = 1  BufSize = 2  DeferredMax = 1  MaxIn = 2  MaxWaiting = 1  MaxStack = 2
    Calls = {"connect", "resume"}
INVARIANT AssertionsHold
CHECK_DEADLOCK FALSE

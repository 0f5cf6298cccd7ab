SPECIFICATION MCSpec
CONSTANTS
    Number = 3
    NLists = 2
    Threads = {1, 2, 3}
    SpinMax = 2
    TimedNumber = 2
    NStates = 4
    Timeouts <- MCTimeouts
    Targets = {0, 2}
    TimeModulus = 16
    MaxClock = 5
    Commands = {"c1", "c2"}
    MaxFd = 7
    Inherited = {{0, 1, 2}, {2}, {1, 2}, {}}
INVARIANTS
    ListInv
    MutualExclusion
    TimeoutsRight
PROPERTIES
    AbsListSpec
    EndsTogether
CHECK_DEADLOCK FALSE

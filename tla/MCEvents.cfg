SPECIFICATION MCSpec
CONSTANTS
    Timers = {"t1", "t2", "t3", "t4", "t5", "t6"}
    Periodics = {"p1"}
    Prepares = {"n1"}
    Checks = {"c1"}
    Idles = {"i1", "i2"}
    Priority <- MCPriority
    After <- MCAfter
    Repeat <- MCRepeat
    Started <- MCStarted
    DHeap = 2
    MaxNow = 2
    MaxOps = 2
    IoWatchers = {"r", "w"}
    IoEvents <- MCIoEvents
    IoFd <- MCIoFd
    MaxFiles = 2
    MaxIoOps = 7
    Asyncs = {"a1"}
    Senders = {"t1", "handler"}
    Pids = {"p1", "p2"}
    MaxSends = 1
    MaxChanges = 2
    Watchers = {"w1", "w2"}
    Directories = {"d"}
    MaxQueued = 2
    ReadMost = 2
    MaxEvents = 3
    LogThreads = {"t1", "t2"}
    Files = {"f", "g"}
    MaxLevel = 2
    Environment <- MCEnvironment
    GlobalSetting = 1
    MaxLogCalls <- MCMaxCalls
    MaxDepth = 2
    Concurrency = 2
    Posters = {"s1", "s2"}
    MaxNew = 3
    MaxDatagrams = 2
INVARIANTS
    LoopSound
    EpollSound
    FirstWatcherTold
    LogSound
PROPERTIES
    AsyncsDelivered
    ChildrenReaped
    PostsHeard
CHECK_DEADLOCK FALSE

SPECIFICATION Spec
CONSTANTS Number = 1  BufSize = 2  DeferredMax = 2  MaxIn = 3  MaxWaiting = 1  MaxStack = 2
    Calls = {"listen", "connect", "close", "clear", "consume", "pause", "resume", "send", "notify", "sendfile"}
INVARIANTS ConnectionsSound BufferIsStream
CHECK_DEADLOCK FALSE

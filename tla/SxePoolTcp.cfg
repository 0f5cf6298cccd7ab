SPECIFICATION Spec
CONSTANTS
    Concurrency = 2
    NumSxes = 2
    Requests = {r1, r2}
    ConnectionRamp = 2
    FailureMax = 2
    InitializesInClose = FALSE
    MaxSegments = 2
INVARIANT TcpSound
PROPERTY RequestsEnd
CHECK_DEADLOCK FALSE

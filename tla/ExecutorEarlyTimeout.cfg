SPECIFICATION Spec
CONSTANTS
    Keys = {1, 2}
    Workers = 1
    QueuePer = 1
    Timeout = 2
    MaxRetries = 1
    Broken = {2}
    MayPanic = TRUE
    NoAnswer = NoAnswer
INVARIANT NoEarlyTimeout
CHECK_DEADLOCK FALSE

SPECIFICATION Spec
CONSTANTS
    Keys = {1, 2}
    Workers = 1
    QueuePer = 1
    Timeout = 2
    MaxRetries = 1
    Broken = {2}
    MayPanic = TRUE
    NoAnswer = NoAnswer
INVARIANTS OwnAnswer HandedOutOnce PoolNeverShort
PROPERTY BatchSpec
CHECK_DEADLOCK FALSE

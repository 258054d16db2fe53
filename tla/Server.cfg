SPECIFICATION Spec
CONSTANTS
    Clients = {"a", "b", "c"}
    Threads <- AllThreads
    Mixes <- WithoutScan
    ChannelSize = 2
    MaxBatch = 2
    QueueLimit = 0
    MaxFaults = 1
    MayLeave = {"a"}
    MayStop = TRUE
CHECK_DEADLOCK FALSE
INVARIANTS OkMeansDurable NoWaitCycle
PROPERTY EveryRequestAnswered

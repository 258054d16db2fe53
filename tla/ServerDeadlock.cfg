SPECIFICATION Spec
CONSTANTS
    Clients = {"a", "b", "c", "d"}
    Threads <- AllThreads
    Mixes <- WithScan
    ChannelSize = 2
    MaxBatch = 2
    QueueLimit = 2
    MaxFaults = 0
    MayLeave = {}
    MayStop = FALSE
CHECK_DEADLOCK FALSE
INVARIANT NoWaitCycle

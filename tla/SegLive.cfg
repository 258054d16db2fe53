SPECIFICATION FairSpec
CONSTANTS
    Ids = {i1}
    NoId = none
    Requests = {"insert", "delete", "checkpoint"}
    InsertsPerId = 4
    MaxObjects = 10
    SealThreshold = 1
    MaxSegments = 2
    QueueLimit = 1
    ValveOpens = FALSE
    SealThreads = {s1}
    MergeThreads = {m1}
PROPERTIES QueueDrains CeilingRestored WriterReturns

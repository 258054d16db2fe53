SPECIFICATION Spec
CONSTANTS
    Ids = {i1, i2}
    NoId = none
    Requests = {"insert", "delete"}
    InsertsPerId = 2
    MaxObjects = 12
    SealThreshold = 1
    MaxSegments = 2
    QueueLimit = 2
    ValveOpens = TRUE
    SealThreads = {s1}
    MergeThreads = {m1}
SYMMETRY Symmetry
PROPERTY AnswersHold

SPECIFICATION SearchSpec
CONSTANTS
    Ids = {i1, i2}
    NoId = none
    Requests = {"insert", "delete"}
    InsertsPerId = 3
    MaxObjects = 12
    SealThreshold = 1
    MaxSegments = 2
    QueueLimit = 0
    ValveOpens = FALSE
    SealThreads = {s1}
    MergeThreads = {m1}
    Readers = {r1}
SYMMETRY Symmetry
INVARIANTS NoResurrection SettledFound
CONSTRAINT InsertsInAll

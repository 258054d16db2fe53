SPECIFICATION Spec
CONSTANTS
    Ids = {i1, i2}
    NoId = none
    Requests = {"insert", "delete", "checkpoint"}
    InsertsPerId = 2
    MaxObjects = 12
    SealThreshold = 1
    MaxSegments = 2
    QueueLimit = 1
    ValveOpens = FALSE
    SealThreads = {s1, s2}
    MergeThreads = {m1, m2}
SYMMETRY Symmetry
CONSTRAINT InsertsInAll
INVARIANTS TypeOK AtMostOneLive TombstonesWithinData MergeInsertCannotFail
    SingleWorkers CheckpointSeesAll QueueBounded
PROPERTIES AnswersHoldInOrder ImplementsStore

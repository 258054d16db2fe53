SPECIFICATION FilteredSpec
CONSTANTS
    Ids = {i1, i2}
    NoId = none
    Requests = {"insert", "delete"}
    InsertsPerId = 3
    MaxObjects = 8
    SealThreshold = 1
    MaxSegments = 12
    QueueLimit = 0
    ValveOpens = FALSE
    SealThreads = {s1}
    MergeThreads = {}
    K = 1
    NumberFacts <- Prices
    TagFacts <- Tags
    FactsOf <- Versions
    Filters <- Three
    Limits = {0, 1}
SYMMETRY Symmetry
CONSTRAINT InsertsInAll
INVARIANTS DerivedIndexesAgree AnswersSound 

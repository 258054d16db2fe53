CONSTANTS
    Ids = {a, b}
    Configurations <- AllPolicies
    Faults = {"file", "gc"}
    MaxSegments = 2
    MaxBatch = 2
    InsertsPerId = 2
    MaxGeneration = 2
    MaxCrashes = 1
    MaxFaults = 1
SYMMETRY Symmetry
CONSTRAINT OneInterruption
SPECIFICATION Spec
INVARIANTS TypeOK RecoveryOpens MetadataFollows AnsweredSurvive
PROPERTY ImplementsDurableStore

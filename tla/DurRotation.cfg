CONSTANTS
    Ids = {a, b}
    Configurations <- GroupCommit
    Faults = {"manifest"}
    MaxSegments = 2
    MaxBatch = 2
    InsertsPerId = 2
    MaxGeneration = 2
    MaxCrashes = 1
    MaxFaults = 1
SYMMETRY Symmetry
CONSTRAINT FewWrites
SPECIFICATION Spec
INVARIANT AnsweredSurvive

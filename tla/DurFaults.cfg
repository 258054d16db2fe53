CONSTANTS
    Ids = {a, b}
    Configurations <- GroupCommit
    Faults = {"append", "commit", "file", "manifest", "gc"}
    MaxSegments = 2
    MaxBatch = 2
    InsertsPerId = 2
    MaxGeneration = 2
    MaxCrashes = 2
    MaxFaults = 1
SYMMETRY Symmetry
CONSTRAINT TwoInterruptions
SPECIFICATION Spec
INVARIANTS ManifestComplete StoredIsOnDisk

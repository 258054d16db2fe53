SPECIFICATION Spec
CONSTANTS
    Ids = {1, 2, 3, 4}
    Points = {0, 1, 3}
    ParallelThreshold = 3
    Threads = 2
    MaxLevel = 2
    M = 2
    MMax0 = 2
    EfConstruction = 2
    EfSearch = 2
    CompactPercent = 50
    Buckets = 4
    Bounds <- EndPoints
    CodeMax = 3
    MaxSlots = 4
    VectorsOf <- FewVectors
    FieldOf <- SignedZeros
INVARIANTS SlotsInStep SearchExact GraphWellFormed EntryTallest HnswAgrees HnswSearchSound FilteredComplete LoadRestores QuantizedTwin HistogramExact EstimateBrackets EnumerateExact
PROPERTY ImplementsMap

SPECIFICATION Spec
CONSTANTS
    Batches = {b1, b2}
    N = 2
    MaxConcurrency = 1
    MaxConcurrentTests = 2
    MaxStops = 1
SYMMETRY Symmetry
INVARIANTS
    OwnResultsOnly
    AllReportedByDone

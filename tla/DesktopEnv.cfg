SPECIFICATION FairSpec
CONSTANTS
    Batches = {b1}
    N = 3
    MaxConcurrency = 1
    MaxConcurrentTests = 2
    MaxStops = 1
    Kinds = {"xray", "full", "current"}
INVARIANTS
    ProbesInsideEnv
    NothingLeaks
PROPERTY TestReturns

SPECIFICATION Spec
CONSTANTS
    Batches = {b1}
    N = 2
    MaxConcurrency = 1
    MaxConcurrentTests = 2
    MaxStops = 1
    Kinds = {"full"}
PROPERTY CancelAbortsUnstarted

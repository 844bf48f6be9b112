SPECIFICATION Spec
CONSTANTS
    Requests <- DarwinRequests
    MaxStarts = 2
    GOOS = "darwin"
    StartOverRunning = FALSE
INVARIANT PublishedBoxIsUp
CHECK_DEADLOCK FALSE

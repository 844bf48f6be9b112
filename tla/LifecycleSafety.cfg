SPECIFICATION Spec
CONSTANTS
    Requests <- DarwinRequests
    MaxStarts = 3
    GOOS = "darwin"
    StartOverRunning = FALSE
INVARIANT RunsWhatIsPublished
INVARIANT SlotsHoldOpenSidecars
INVARIANT UnsetDNSIsOwed
CHECK_DEADLOCK FALSE

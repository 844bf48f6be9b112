SPECIFICATION Spec
CONSTANTS
    Requests <- TunRequests
    MaxStarts = 2
    GOOS = "linux"
    StartOverRunning = TRUE
INVARIANT ActiveTunExempt
CHECK_DEADLOCK FALSE

SPECIFICATION FairSpec
CONSTANTS
    Requests <- LinuxRequests
    MaxStarts = 2
    GOOS = "linux"
    StartOverRunning = FALSE
INVARIANT ActiveTunExempt
PROPERTY ImplementsService
CHECK_DEADLOCK FALSE

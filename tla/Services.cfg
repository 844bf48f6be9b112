SPECIFICATION MCSpec
CONSTANTS
    Requests = {"r1", "r2", "r3"}
    Attempts = 2
    Configs <- MCConfigs
    Gates = {"g1", "g2"}
    Links = {"wifi", "mobile"}
    GateCount = 3
    InboundPorts <- MCInboundPorts
    Ephemeral = {3, 4, 5, 6}
    GateWorkers = 2
    Dials = {"d1", "d2", "d3"}
    Tests = {1, 2}
    LastTag = 2
    CountrySlots = 1
    Endpoints = {"ovpn", "oc", "direct"}
    KindOf <- MCKindOf
    MaxChanges = 2
    Captures = {"c1", "c2"}
    Spellings <- MCSpellings
    HostOf <- MCHostOf
    DefaultHost = "default"
    MaxHosts = 3
    Ifcs = {"eth", "wlan"}
    IPv6 = {"six"}
    Original <- MCOriginal
    MaxSteps = 4
    MobileBoxes = {"m1", "m2"}
    XrayNeeds <- MCXrayNeeds
    NoBox = "nil"
    Loggers = {"l1", "l2"}
    Limits = {1, 2}
    MaxLines = 4
INVARIANTS
    ResponsesWhole
    TakersFindCarriersUp
    NothingOutlivesBox
    EgressFollowsDefault
    FanOutSettled
    ChildUnprivileged
    NothingLeftOfProcess
    HandleNeverReused
    ProgressIsLive
    SpeedTestSettled
    NoLostWakeup
    ProfilersStopped
    StopHitsTheCurrent
    OneUsableDevice
    OriginalRecoverable
    NewestIsProtected
    StackAroundBox
    OwnBoxResolves
    LinesAccounted
    NoLineStranded
PROPERTIES
    RequestsAnswered
    AllConnsClosed
CHECK_DEADLOCK FALSE

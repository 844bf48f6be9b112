SPECIFICATION FairSpec
CONSTANTS
    Handlers = {h1, h2}
    Bridges = {b1}
    Insts = {i1, i2}
    Idles = {"zero", "positive"}
    None = None
INVARIANTS
    InstanceOwned
PROPERTIES
    AcceptedIsServed
    CloseCompletes
    IdleInstanceGoesDown
    ImplementsGateService
CHECK_DEADLOCK FALSE

SPECIFICATION Spec
CONSTANTS
    Pollers = {p1, p2}
    MaxTotal = 3
INVARIANT RatesCountBytes
CHECK_DEADLOCK FALSE

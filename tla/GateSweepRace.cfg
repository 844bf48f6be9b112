SPECIFICATION Spec
CONSTANTS
    Handlers = {h1, h2}
    Bridges = {b1}
    Insts = {i1, i2}
    Idles = {"positive"}
    None = None
PROPERTY SweptOnlyWhenUnused
CHECK_DEADLOCK FALSE

SPECIFICATION Spec
CONSTANTS
    i1 = i1
    i2 = i2
    p1 = p1
    p2 = p2
    n1 = n1
    n2 = n2
    e1 = e1
    e2 = e2
    v1 = v1
    v2 = v2
    None = None
    Off = Off
SYMMETRY Symmetry
CHECK_DEADLOCK FALSE
INVARIANTS
    OperatorsSafe
PROPERTIES
    ActsOnWhatWasSeen

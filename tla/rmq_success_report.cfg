SPECIFICATION Spec
CONSTANTS
    Messages = {m1, m2}
    NoMsg = NoMsg
    Nobody = Nobody
    CacheCap = 1
    MaxConns = 2
SYMMETRY Symmetry
CHECK_DEADLOCK FALSE
INVARIANT SuccessMeansPublished

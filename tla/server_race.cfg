SPECIFICATION FairSpec
CONSTANTS
    Callers = {p1, p2}
    Hook = Hook
    Sock = Sock
    None = None
    Ops = {"start", "stop", "pair", "delete"}
    MaxCalls = 2
    MaxDrops = 1
    MaxLogouts = 0
CHECK_DEADLOCK FALSE
PROPERTIES NothingIsReplaced CallsReturn
INVARIANT ReadyIsAttached

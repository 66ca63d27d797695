SPECIFICATION Spec
CONSTANTS
    Callers = {p1}
    Hook = Hook
    Sock = Sock
    None = None
    Ops = {"start", "stop", "restart", "toggle", "save", "delete"}
    MaxCalls = 4
    MaxDrops = 0
    MaxLogouts = 1
CHECK_DEADLOCK FALSE
INVARIANTS TypeOK LiveIsCurrent

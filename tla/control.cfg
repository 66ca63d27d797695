SPECIFICATION Spec
CONSTANTS
    Tokens = {t1, t2}
    Stored = {t1}
    Any = p1
    Procs = {p1, p2}
    None = None
    RoutesOf <- Asked
    MaxRequests = 2
    MaxConns = 2
CHECK_DEADLOCK FALSE
INVARIANTS MemoryIsDatabase NoSessionIsOrphaned PanicsOnlyIfTorn RefusedChangesNothing

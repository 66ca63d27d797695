SPECIFICATION FairSpec
CONSTANTS
    Bots = {b1, b2}
    Strings = {s1, s2}
    Procs = {p1, p2}
    Nobody = Nobody
    MaxClients = 3
CHECK_DEADLOCK FALSE
INVARIANTS LiveIsRegistered RegisteredIsLive
PROPERTY GetReturns

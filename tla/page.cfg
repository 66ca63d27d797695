SPECIFICATION FairPageSpec
CONSTANTS
    s1 = s1
    s2 = s2
    r1 = r1
    Scanners = {s1, s2}
    Requests = {r1}
    Crews <- CrewsOf
    MaxCodes <- CodesOf
    Buffer = 1
CHECK_DEADLOCK FALSE
INVARIANTS HubNeverPanics
PROPERTIES ScannersEnd PageIsTold

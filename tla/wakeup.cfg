SPECIFICATION FairSpec
CONSTANTS
    Day = 14
    Hour = 4
    Window = 4
    Period = 2
    Lag = 1
    Duration = 12
    MaxTime = 36
CHECK_DEADLOCK FALSE
INVARIANTS TypeOK NoWindowPasses OnlineIsTimed
PROPERTIES OnceADay WakeUpEnds

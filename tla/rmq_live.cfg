SPECIFICATION FairSpec
CONSTANTS
    Messages = {m1}
    NoMsg = NoMsg
    Nobody = Nobody
    CacheCap = 1
    MaxConns = 2
CHECK_DEADLOCK FALSE
PROPERTIES CallsReturn CacheDrains CloseReturnsOrSticks

SPECIFICATION FairSpec
CONSTANTS
    Messages <- MCMessages
    Urls = {"b", "q"}
    Silent = {"b"}
    Type <- MCType
    Refuses <- MCRefuses
    Forwards = {"b", "q"}
    TrackId <- MCTrackId
    DispatchUnhandled = FALSE
    Requests = {"r", "s"}
    Ops = {"add", "remove"}
    MaxOps = 2
    Capacity <- MCCapacity
INVARIANTS OnceUnlessRemoved MemoryIsDatabase
PROPERTY EveryMessageServed

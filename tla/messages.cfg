SPECIFICATION SpecMessages
CONSTANTS
    i1 = i1
    i2 = i2
    i3 = i3
    p1 = p1
    p2 = p2
    r1 = r1
    r2 = r2
    r3 = r3
    NoId = NoId
    Ids <- MCIds
    Contents <- AdContents
    Procs <- MCProcs
    Receipts <- MCReceipts
    Scenes <- MCScenes
    CacheLength = 1
    CacheDays = 1
    DefaultDays = 2
    Modulus = 32
    MaxAppends = 4
    MaxTime = 2
SYMMETRY Symmetry
CHECK_DEADLOCK FALSE
INVARIANTS CounterAgrees LengthIsBounded DuplicatesAreDenied ReadIsReported ExactUnlessOverlapped

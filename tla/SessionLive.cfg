CONSTANTS
    a = a
    b = b
    o1 = o1
    o2 = o2
    o3 = o3
    r1 = r1
    r2 = r2
    w1 = w1
    w2 = w2
    v1 = v1
    v2 = v2
    Ids <- MCIds2
    Objs <- MCObjs2
    NoId = NoId
    None = None
    Requests <- MCRequests1
    Workers <- MCWorkers1
    Flusher = Flusher
    AutoFlush = TRUE
    Vals <- MCVals1
    Empty = Empty
    NoFile = NoFile
    Torn = Torn
    Live = Live
    Timeout = 0
    QueueSize = 1
    MaxTime = 1
    MaxVersion = 2
    MaxArrivals = 2
    MaxFailures = 1
    MaxExits = 0
SPECIFICATION FairSpec
PROPERTIES EventuallySaved ExpiredCollected
CHECK_DEADLOCK FALSE

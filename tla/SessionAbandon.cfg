CONSTANTS
    a = a
    b = b
    o1 = o1
    o2 = o2
    o3 = o3
    r1 = r1
    r2 = r2
    w1 = w1
    w2 = w2
    v1 = v1
    v2 = v2
    Ids <- MCIds2
    Objs <- MCObjs2
    NoId = NoId
    None = None
    Requests <- MCRequests2
    Workers <- MCWorkers1
    Flusher = Flusher
    AutoFlush = FALSE
    Vals <- MCVals1
    Empty = Empty
    NoFile = NoFile
    Torn = Torn
    Live = Live
    Timeout = 0
    QueueSize = 1
    MaxTime = 0
    MaxVersion = 4
    MaxArrivals = 3
    MaxFailures = 0
    MaxExits = 0
SPECIFICATION Spec
PROPERTIES DiscardedStaysGone
SYMMETRY MCSymmetry
CHECK_DEADLOCK FALSE

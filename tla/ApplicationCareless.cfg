CONSTANTS
    r1 = r1
    r2 = r2
    k1 = k1
    v1 = v1
    Servers <- MCServers2
    NoServer = NoServer
    Keys <- MCKeys
    Vals <- MCVals
    Absent = Absent
    NoCall = NoCall
    Unread = Unread
    Careless <- MCOne
    MaxCalls = 3
SPECIFICATION Spec
INVARIANTS Isolation
CHECK_DEADLOCK FALSE

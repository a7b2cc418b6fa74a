CONSTANTS
    r1 = r1
    r2 = r2
    r3 = r3
    p1 = p1
    v1 = v1
    v2 = v2
    v3 = v3
    q1 = q1
    q2 = q2
    None = None
    Deployments <- MCServer2
    DefaultRetained = 2
    MaxDepth = 2
    Requests <- MCRequests3
    Programs <- MCPrograms1
    VMs <- MCVMs3
    Pools <- MCPools1
SPECIFICATION FairSpec
PROPERTIES EveryRequestAnswered
CHECK_DEADLOCK FALSE

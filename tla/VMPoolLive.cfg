CONSTANTS
    r1 = r1
    r2 = r2
    r3 = r3
    p1 = p1
    v1 = v1
    v2 = v2
    v3 = v3
    q1 = q1
    q2 = q2
    None = None
    Deployments <- MCFastCGI
    DefaultRetained = 1
    MaxDepth = 1
    Requests <- MCRequests2
    Programs <- MCPrograms1
    VMs <- MCVMs2
    Pools <- MCPools1
SPECIFICATION FairSpec
PROPERTIES EveryRequestAnswered DetachedScriptEnds

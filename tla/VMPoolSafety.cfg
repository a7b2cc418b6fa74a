CONSTANTS
    r1 = r1
    r2 = r2
    r3 = r3
    p1 = p1
    v1 = v1
    v2 = v2
    v3 = v3
    q1 = q1
    q2 = q2
    None = None
    Deployments <- MCServerAndCaddy
    DefaultRetained = 1
    MaxDepth = 2
    Requests <- MCRequests2
    Programs <- MCPrograms1
    VMs <- MCVMs3
    Pools <- MCPools2
SPECIFICATION Spec
INVARIANTS SlotsAccounted OneOwner PoolFits NoOrphanPool WorkerInHand
PROPERTIES NothingAfterReturn
SYMMETRY MCSymmetry
CHECK_DEADLOCK FALSE

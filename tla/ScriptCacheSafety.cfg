CONSTANTS
    a = a
    b = b
    x = x
    y = y
    r1 = r1
    r2 = r2
    None = None
    Pages <- MCPages
    Includes <- MCIncludes
    Uses <- MCUses
    Size <- MCSize
    Fold <- MCFold
    Watched <- MCFiles
    Requests <- MCRequests
    MaxBytes = 2
    DepLimit = 1
    Window = 2
    Second = 2
    MaxTime = 3
    MaxEdits = 1
    MaxRestarts = 1
SPECIFICATION Spec
INVARIANTS MemoryAccounted DependenciesAgree CachedIsRegistered DiskHitCurrent
SYMMETRY MCSymmetry
CHECK_DEADLOCK FALSE

CONSTANTS
    a = a
    b = b
    x = x
    y = y
    r1 = r1
    r2 = r2
    None = None
    Pages <- MCPage
    Includes <- MCInclude
    Uses <- MCUsesOne
    Size <- MCSizeOne
    Fold <- MCFold
    Watched <- MCFiles
    Requests <- MCRequests
    MaxBytes = 2
    DepLimit = 1
    Window = 2
    Second = 2
    MaxTime = 3
    MaxEdits = 2
    MaxRestarts = 0
SPECIFICATION Spec
INVARIANTS EditsPickedUp
SYMMETRY MCSymmetry
CHECK_DEADLOCK FALSE

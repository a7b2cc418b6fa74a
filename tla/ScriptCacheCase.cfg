CONSTANTS
    a = a
    b = b
    x = x
    y = y
    r1 = r1
    r2 = r2
    None = None
    Pages <- MCPages
    Includes <- MCInclude
    Uses <- MCUsesCase
    Size <- MCSize
    Fold <- MCFoldCase
    Watched <- MCFiles
    Requests <- MCRequests
    MaxBytes = 3
    DepLimit = 2
    Window = 2
    Second = 2
    MaxTime = 3
    MaxEdits = 1
    MaxRestarts = 0
SPECIFICATION Spec
INVARIANTS Registered
SYMMETRY MCSymmetry
CHECK_DEADLOCK FALSE

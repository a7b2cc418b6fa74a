CONSTANTS
    Texts <- MCTexts
    CodePages <- MCCodePages
    CodePage0 = "65001"
    Limit = 2
    Names <- MCNames
    MaxOps = 6
SPECIFICATION Spec
INVARIANT DetachedSafely
CHECK_DEADLOCK FALSE

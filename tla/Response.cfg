CONSTANTS
    Texts <- MCTexts
    CodePages <- MCCodePages
    CodePage0 = "65001"
    Limit = 2
    Names <- MCNames
    MaxOps = 6
SPECIFICATION Spec
INVARIANTS ErrorLast BodyFaithful RedirectStands BufferBounded
CHECK_DEADLOCK FALSE

SPECIFICATION Spec
CONSTANTS
    Interval = 15
    Slices = 14
    IntLimit = 16777216
    FloatLimit = 1048576
    Saturates = FALSE
    Emitted <- Compile
    Programs <- MCPages
    Variables <- MCVariables
INVARIANTS MeaningKept StackBalanced
PROPERTIES Terminates

SPECIFICATION BothSpec
CONSTANTS
    Images <- MCImages
    NULL = NULL
CHECK_DEADLOCK FALSE
INVARIANTS
    InStep
    ChromaRight
    BmpWhole
    NumbersCanonical
    UnitsArrive

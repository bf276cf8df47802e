SPECIFICATION Spec
CONSTANTS
    NumSlots = 3
    SeqWrap = 3
    MaxPocLsb = 4
    SPSs <- MCSPSs
    Follows <- MCFollows
    NalTypes <- MCNalTypes
    RefSets <- MCRefSets
    MinPoc = 0
    MaxPoc = 1
    MaxAhead = 1
    UnreadEos = {FALSE}
    NULL = NULL
INVARIANTS
    SlotsServe
PROPERTY
    InOrder

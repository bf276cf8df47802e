SPECIFICATION HSpec
CONSTANTS
    Threads = {t1, t2}
    Iterators = {i1}
    Nodes = {n1, n2, n3}
    Items = {a, b}
    Capacity = 3
    Waits = {TRUE}
    NULL = NULL
SYMMETRY Symmetric
INVARIANTS NoLostWakeup LinksExact IteratorsOnTrack
PROPERTY AbstractSpec

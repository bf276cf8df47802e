SPECIFICATION HFairSpec
CONSTANTS
    k1 = k1  k2 = k2  k3 = k3  zero = zero  one = one  two = two
    Threads = {t1, t2}
    Keys = {k1, k2, k3}
    Bitmaps = {zero, one, two}
    MaxSize = 3
    NULL = NULL
    SizeOf <- MCSizeOf
INVARIANT Consistent
PROPERTIES AbstractSpec EvictsLeastRecent TrimsEnd

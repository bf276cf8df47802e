SPECIFICATION Spec
CONSTANTS
    one = one  two = two  big = big  NULL = NULL
    Threads = {t1, t2}
    Keys = {k1, k2}
    Bitmaps = {one, two}
    SizeOf <- MCPair
    Limit = 3
    Kinds = {"fifo", "lru", "largest", "usingFreq"}
    MaxListed = 2
    MaxUses = 1
CONSTRAINT Undisturbed
SYMMETRY Symmetric
INVARIANT
    StoredWithinLimit

SPECIFICATION Spec
CONSTANTS
    Keys = {k1, k2}
    Edits = {e1, e2}
    Lengths = {1, 2}
    MaxSize = 2
    MaxFileCount = 1
    CompactThreshold = 1
    MaxCalls = 3
    Env = {"crash", "spill", "writeError", "delete"}
    NULL = NULL
CHECK_DEADLOCK FALSE
CONSTRAINT LastCallDrifted
SYMMETRY Symmetric
INVARIANTS CountsExact JournalMirrorsMemory RecoveryWhole
PROPERTY StoreSpec

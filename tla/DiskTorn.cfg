SPECIFICATION Spec
CONSTANTS
    Keys = {k1, k2}
    Edits = {e1}
    Lengths = {1}
    MaxSize = 9
    MaxFileCount = 9
    CompactThreshold = 9
    MaxCalls = 3
    Env = {"crash", "spill"}
    NULL = NULL
CHECK_DEADLOCK FALSE
PROPERTIES StoredSurvivesClose

SPECIFICATION FairSpec
CONSTANTS
    a1 = a1  a2 = a2  b = b  uriA = uriA  uriB = uriB  NULL = NULL
    UriOf <- MCUriOf
    Options <- LivenessOptions
    Requests = {r1, r2}
    Views = {v1}
    Keys = {a1}
    PoolSize = 1
    MaxStops = 1
    MaxPauses = 1
    Env = {}
CHECK_DEADLOCK FALSE
PROPERTIES TasksEnd LatestAnswered

SPECIFICATION Spec
CONSTANTS
    a1 = a1  a2 = a2  b = b  uriA = uriA  uriB = uriB  NULL = NULL
    UriOf <- MCUriOf
    Options <- SafetyOptions
    Requests = {r1, r2}
    Views = {v1}
    Keys = {a1, a2}
    PoolSize = 1
    MaxStops = 1
    MaxPauses = 0
    Env = {"fail", "evict", "collect", "cancel", "empty", "deny", "gc", "noBitmap"}
CHECK_DEADLOCK FALSE
SYMMETRY SymmetricRequests
INVARIANTS TypeOK ListenerProtocol NoSilentLoss EngineTables
PROPERTY NeverShowsStale

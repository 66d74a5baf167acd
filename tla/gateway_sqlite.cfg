SPECIFICATION Spec
CONSTANTS
    Backend = "sqlite"
    t1 = t1
    t2 = t2
    k1 = k1
    c1 = c1
    c2 = c2
    Tenants = {t1, t2}
    Blank = Blank
    Keys = {k1}
    NoKey = NoKey
    MemoryIds = {m1, m2, m3}
    NoId = NoId
    Clients = {c1, c2}
    Requests <- Traffic
    Configured = {"write", "search", "recall", "explain", "end", "decay", "migrate"}
    AdminKeySet = TRUE
    Components = {"record_repo", "vector_index"}
    MaxSends <- Attempts
    MaxUpsets = 2
SYMMETRY IdSymmetry
INVARIANT
    FailuresRepeatable
CHECK_DEADLOCK FALSE

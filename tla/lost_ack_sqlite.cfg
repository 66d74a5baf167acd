SPECIFICATION Spec
CONSTANTS
    Backend = "sqlite"
    t1 = t1
    t2 = t2
    k1 = k1
    c1 = c1
    c2 = c2
    c3 = c3
    Tenants = {t1}
    Keys = {k1}
    NoKey = NoKey
    MemoryIds = {m1, m2, m3}
    Clients = {c1, c2}
    Request <- RaceForKey
    HasExtractionPort = TRUE
    NoId = NoId
    NoClient = NoClient
    MaxCalls = 1
    MaxFaults = 0
    MaxCrashes = 0
INVARIANTS
    AckedStored
CHECK_DEADLOCK FALSE

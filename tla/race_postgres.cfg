SPECIFICATION Spec
CONSTANTS
    Backend = "postgres"
    t1 = t1
    t2 = t2
    k1 = k1
    c1 = c1
    c2 = c2
    c3 = c3
    Tenants = {t1}
    Keys = {k1}
    NoKey = NoKey
    MemoryIds = {m1, m2, m3, m4}
    Clients = {c1, c2}
    Request <- RaceForKey
    HasExtractionPort = TRUE
    NoId = NoId
    NoClient = NoClient
    MaxCalls = 2
    MaxFaults = 2
    MaxCrashes = 1
SYMMETRY IdSymmetry
INVARIANTS
    EnrichmentFollowsWrite
    OutcomeEventsAgree
PROPERTIES
    StatusOnlyAdvances
    KeepsContract
CHECK_DEADLOCK FALSE

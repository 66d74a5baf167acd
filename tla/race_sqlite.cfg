SPECIFICATION FairSpec
CONSTANTS
    Backend = "sqlite"
    t1 = t1
    t2 = t2
    k1 = k1
    c1 = c1
    c2 = c2
    c3 = c3
    Tenants = {t1, t2}
    Keys = {k1}
    NoKey = NoKey
    MemoryIds = {m1, m2, m3}
    Clients = {c1, c2, c3}
    Request <- RaceBesideTenant
    HasExtractionPort = TRUE
    NoId = NoId
    NoClient = NoClient
    MaxCalls = 1
    MaxFaults = 2
    MaxCrashes = 0
INVARIANTS
    OneRecordPerKey
    OutcomeEventsAgree
    AckedFindable
PROPERTIES
    CallsReturn
    WrittenSettles
CHECK_DEADLOCK FALSE

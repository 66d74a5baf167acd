SPECIFICATION Spec
CONSTANTS
    t1 = t1
    t2 = t2
    x1 = x1
    x2 = x2
    c1 = c1
    c2 = c2
    Tenants = {t1, t2}
    Models = {x1, x2}
    Callers = {c1, c2}
    M = 3
    TenantOf <- Interleaved
    PrefixOf <- SharedPrefix
    DimensionsOf <- TwoSizes
    TableDimensions = 1536
    K = 2
    Requests <- Mix
    MaxUpsets = 1
INVARIANTS
    ResultsIsolated
    AnswersTrue
    SearchComplete
SYMMETRY Interchangeable

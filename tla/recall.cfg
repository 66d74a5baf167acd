SPECIFICATION Spec
CONSTANTS
    d1 = d1
    d2 = d2
    d3 = d3
    c1 = c1
    c2 = c2
    t1 = t1
    t2 = t2
    Documents = {d1, d2, d3}
    Tokens <- Sizes
    DefaultK = 2
    MinCandidates = 2
    Common = 238266
    Callers = {c1, c2}
    Tenants = {t1, t2}
    TenantOf <- OneStranger
    Owner = t1
    Requests <- Asked
    VectorOrder <- Nearness
    TextOrders <- Keywords
    WeightChoices <- Policies
    MaxTraces = 2
    MaxUpsets = 1
INVARIANTS
    TypeOK
    EvidenceRules
    NothingLost
    BudgetHonest
    ObserversKnow
    ExplanationTrue

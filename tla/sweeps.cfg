SPECIFICATION FairSpec
CONSTANTS
    N = 3
    p1 = p1
    p2 = p2
    w1 = w1
    w2 = w2
    w3 = w3
    Principals = {p1, p2}
    NoPrincipal = NoPrincipal
    PrincipalOf <- TwoOwners
    SectorOf <- TwoSectors
    PolicySectors <- SectorOrder
    Threshold = 2
    MaxItems = 2
    ListLimit = 3
    Workers = {w1, w2, w3}
    Role <- LoopsAndSession
    ScopeOf <- SessionOfFirst
    Saved = {1, 2}
    MaxUpsets = 1
    PolicyChoices <- Choices
INVARIANTS
    LineageKept
    RepeatsExcused
    TransitionsAudited
    SqliteSummariesPrivate
PROPERTIES
    BacklogWorkedOff

SPECIFICATION FairSpec
CONSTANTS
    Tenants = {t1, t2}
    Callers = {a, b}
    TaskIds = {k1, k2, k3}
    NoTask = NoTask
    NoTenant = NoTenant
INVARIANTS
    RegistryExact
    NoLoopAfterStop
PROPERTIES
    StopReturns
    LoopKeepsSweeping

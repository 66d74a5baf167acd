SPECIFICATION Spec
CONSTANTS
    Backend = "sqlite"
    Records = {1, 2}
    f1 = f1
    f2 = f2
    f3 = f3
    f4 = f4
    t1 = t1
    t2 = t2
    Facts = {f1, f2, f3}
    NoFact = NoFact
    Topics = {t1, t2}
    TopicOf <- SameTopic
    Confident = {f1, f2, f3}
    MaxConcurrent = 1
    MaxFaults = 0
    MaxCrashes = 0
INVARIANTS
    ContradictionResolved
CHECK_DEADLOCK FALSE

SPECIFICATION Spec
CONSTANTS
    Backend = "postgres"
    Records = {1, 2, 3}
    f1 = f1
    f2 = f2
    f3 = f3
    f4 = f4
    t1 = t1
    t2 = t2
    Facts = {f1, f2, f3, f4}
    NoFact = NoFact
    Topics = {t1, t2}
    TopicOf <- OtherTopic
    Confident = {f1, f2, f4}
    MaxConcurrent = 2
    MaxFaults = 1
    MaxCrashes = 1
INVARIANTS
    EventsTruthful
    NothingSilent
    CurrentUnlessCutOff
PROPERTIES
    HistoryKept
CHECK_DEADLOCK FALSE

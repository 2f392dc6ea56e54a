SPECIFICATION FairSpec
CONSTANTS
    TestPlans <- TwoPlans
    Spawnable <- SpawnedPlans
    Backends = {"statsd", "datadog"}
    MaxHarnesses = 4
    Horizon = 5
    MaxMiscount = 1
INVARIANTS
    TypeOK
    CallsAreCounted
    LaunchesAddUp
    StopsWhenOver
PROPERTIES
    StopsUnlessRaised
    CountIsKept
CHECK_DEADLOCK FALSE

SPECIFICATION FairSpec
CONSTANTS
    c1 = c1
    c2 = c2
    Clients = {c1, c2}
    Origins = {o1, o2}
    Plans <- AllPlans
    Faults = {"late", "post", "drop", "uaid"}
    Cycles = 2
    Days = 3
    Qty = 2
INVARIANTS
    TypeOK
    NothingIsRefused
    FailuresHaveCauses
    NothingIsLeftBehind
    GivenOnce
    MetricsAreTrue
    OnlySharedClaimsExpire
PROPERTY RunOnceEnds

SPECIFICATION Spec
CONSTANTS
    Calls = {c1, c2, c3}
    Servers = 2
    MaxAttempts = 2
    Threshold = 2
    Workloads <- MCWorkloads
    MaxRequests = 5
    Keys = {k1}
    Limit <- MCLimit
    Window = 2
    LastTick = 5
    Ids = {1, 2, 3, 4}
    KindOf <- MCKindOf
    Queries <- MCQueries
    LastTime = 3
    MaxWrites = 2
SYMMETRY Symmetry
INVARIANT TypeOK
INVARIANT WriteTakesEffectOnce
INVARIANT FailoverIsSound
INVARIANT BreakerIsSound
INVARIANT LimitIsFair
PROPERTY WalkIsComplete
CHECK_DEADLOCK FALSE

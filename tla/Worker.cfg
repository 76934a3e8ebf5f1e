SPECIFICATION FairSpec
CONSTANTS
    Deliveries = {d1}
    Workers = {w1, w2}
    None = None
    MaxAttempts = 2
    Lease = 2
    Backoff <- MCBackoff
    MaxFaults = 1
    MaxTries = 2
INVARIANT LeasesHold
INVARIANT PostedUnderClaim
PROPERTY DeliveryEnds
PROPERTY JobIsFreed
CHECK_DEADLOCK FALSE

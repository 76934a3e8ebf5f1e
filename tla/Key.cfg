SPECIFICATION FairSpec
CONSTANTS
    Requests = {"r1", "r2", "r3"}
    Payloads = {"p1", "p2"}
    PayloadOf <- MCPayloadOf
    None = None
    MaxFaults = 1
    MaxTimeouts = 1
    TimeoutOutlivesRequest = TRUE
INVARIANT CommitsAreBought
INVARIANT RepliesAreHonest
PROPERTY EventuallyServed

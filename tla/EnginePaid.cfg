SPECIFICATION Spec
CONSTANTS
    Settlements = {"s1", "s3"}
    Shares = {"x1"}
    Envelopes = {"e1", "e2"}
    Submitters = {"w1"}
    Checkers = {"legacy", "api", "reconcile"}
    Owners <- MCOwners
    None = None
    ShareOf <- MCShareOf
    KeyOf <- MCKeyOf
    SettlementOf <- MCSettlementOf
    KindOf <- MCKindOf
    OwnerOf <- MCOwnerOf
    MaxAttempts = 1
    ReconMax = 2
    MaxSigns = 2
    MaxCrashes = 0
    MaxOverruns = 2
INVARIANT ConfirmedIsPaid
INVARIANT SettledShareIsPaid
PROPERTY ConfirmedLostOnlyToBlindWrite
CHECK_DEADLOCK FALSE

SPECIFICATION FairSpec
CONSTANTS
    Settlements = {"s4"}
    Shares = {"x1"}
    Envelopes = {"e1"}
    Submitters = {"w1", "w2"}
    Checkers = {"reconcile", "sync"}
    Owners <- MCOwners
    None = None
    ShareOf <- MCShareOf
    KeyOf <- MCKeyOf
    SettlementOf <- MCSettlementOf
    KindOf <- MCKindOf
    OwnerOf <- MCOwnerOf
    MaxAttempts = 2
    ReconMax = 2
    MaxSigns = 1
    MaxCrashes = 1
    MaxOverruns = 1
INVARIANT OneDriver
INVARIANT AttemptBudget
PROPERTY AcceptedIsResolved
CHECK_DEADLOCK FALSE

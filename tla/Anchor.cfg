SPECIFICATION FairSpec
CONSTANTS
    Calls = {"c1", "c2"}
    Pollers = {"w1", "w2"}
    Hooks = {"h1"}
    Txs = {"t1"}
    Reports <- MCReports
    None = None
    MaxAttempts = 2
    MaxCrashes = 1
    LeaseOutlivesPoll = TRUE
INVARIANT ClosedAsReported
PROPERTY SessionStaysClosed
PROPERTY WithdrawalLostOnlyToDeadLetter
PROPERTY PollingEnds
PROPERTY StrandedOnlyByCrash
CHECK_DEADLOCK FALSE

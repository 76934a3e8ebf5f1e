SPECIFICATION FairSpec
CONSTANTS
    Accounts = {t1, t2, payer, payee}
    NoSource = NoSource
    Skew = 1
    Decimals = 2
    MaxOperations = 10
    Intents = {i1}
    r1 = r1
    r2 = r2
    Requests = {r1, r2}
    TreasuryAccounts = {t1, t2}
    CoSigners = {s1, s2}
    Payer = payer
    Payee = payee
    Stranger = stranger
    None = None
    Amounts <- MCAmounts
    k1 = k1
    k2 = k2
    Reconcilers = {k1, k2}
    TxTimeout = 1
    Workloads <- MCWorkloads
    MinAge = 1
    Grace = 2
    MaxConfigs = 2
    MaxFaults = 1
INVARIANT PaidAsAgreed
INVARIANT OutcomeIsTrue
INVARIANT IssuedIsAccepted
PROPERTY PaidIsRecorded
PROPERTY CacheCatchesUp
CHECK_DEADLOCK FALSE

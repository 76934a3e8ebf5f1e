SPECIFICATION Spec
CONSTANTS
    Challenges = {c1, c2}
    Accounts = {a}
    Wallet <- MCWallet
    Requests = {r1, r2}
    Tokens = {t1, t2, t3}
    None = None
    Validity = 0
    Skew = 1
    Grace = 0
    Retention = 6
    LookupTime = 1
    Jitter = 0
    TokenTTL = 2
    AccessTTL = 5
    MaxClock = 4
SYMMETRY Symmetry
INVARIANT OneLoginPerChallenge
PROPERTY SessionSpec
CHECK_DEADLOCK FALSE

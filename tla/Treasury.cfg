SPECIFICATION MultisigFairSpec
CONSTANTS
    Members = {"a", "b", "c"}
    Signings = {"r1", "r2", "r3"}
    Carries <- MCCarries
    Thresholds = {1, 2}
    Loads <- MCLoads
    Unlocked = Unlocked
    MaxAborts = 1
INVARIANT PaidByThreshold
PROPERTY ApprovalLostOnlyToRace
PROPERTY SignedIsSent
CHECK_DEADLOCK FALSE

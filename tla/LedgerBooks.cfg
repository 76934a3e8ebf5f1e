SPECIFICATION LedgerSpec
CONSTANTS
    u1 = u1
    u2 = u2
    u3 = u3
    xlm = xlm
    usdc = usdc
    NoRow = NoRow
    Parties = {u1, u2, u3}
    Assets = {xlm, usdc}
    Target = usdc
    Bills <- MCBills
    Amounts = {2}
    Rates = {4, 15}
    RateScale = 10
    Cent = 100
    Expenses = {1, 2}
    Settlements = {1, 2}
    MaxRows = 3
    Handlers = {r1, r2}
SYMMETRY Symmetry
CHECK_DEADLOCK FALSE
INVARIANT BooksNet

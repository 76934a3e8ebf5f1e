SPECIFICATION Spec
CONSTANTS
    Users = {u1, u2, u3}
    Creator = u1
    Requests = {r1, r2}
    None = None
    MaxUses = 1
SYMMETRY Symmetry
PROPERTY LastAdminNeedsRace
CHECK_DEADLOCK FALSE

SPECIFICATION Spec
CONSTANTS
    a1 = a1
    r1 = r1
    r2 = r2
    e1 = e1
    e2 = e2
    w1 = w1
    None = None
    Apps = {a1}
    Requests = {r1, r2}
    EventIds = {e1, e2}
    Workers = {w1}
    MaxSends = 1
    DeliveryLimit = 1
    MaxFaults = 0
    MaxRestarts = 1
    ExpiringLocks = {}
    DriverCode = "ER_DUP_ENTRY"
SYMMETRY Symmetry
INVARIANTS
    AcceptedNumbersUnique
CHECK_DEADLOCK FALSE

SPECIFICATION Spec
CONSTANTS
    a1 = a1
    r1 = r1
    r2 = r2
    e1 = e1
    e2 = e2
    w1 = w1
    w2 = w2
    None = None
    Apps = {a1}
    Requests = {r1, r2}
    EventIds = {e1, e2}
    Workers = {w1, w2}
    MaxSends = 2
    DeliveryLimit = 1
    MaxFaults = 1
    MaxRestarts = 1
    ExpiringLocks = {e1, e2}
    DriverCode = "ER_DUP_ENTRY"
SYMMETRY Symmetry
INVARIANTS
    StoredNumbersUnique
    CountNeverAhead
PROPERTIES
    ImplementsEventStore
CHECK_DEADLOCK FALSE

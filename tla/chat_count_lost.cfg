SPECIFICATION FairSpec
CONSTANTS
    a1 = a1
    r1 = r1
    e1 = e1
    w1 = w1
    w2 = w2
    None = None
    Apps = {a1}
    Requests = {r1}
    EventIds = {e1}
    Workers = {w1, w2}
    MaxSends = 1
    DeliveryLimit = 1
    MaxFaults = 1
    MaxRestarts = 0
    ExpiringLocks = {}
    DriverCode = "ER_DUP_ENTRY"
PROPERTIES
    CountsConverge
CHECK_DEADLOCK FALSE

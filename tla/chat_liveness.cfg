SPECIFICATION FairSpec
CONSTANTS
    a1 = a1
    r1 = r1
    r2 = r2
    e1 = e1
    e2 = e2
    w1 = w1
    w2 = w2
    None = None
    Apps = {a1}
    Requests = {r1, r2}
    EventIds = {e1, e2}
    Workers = {w1, w2}
    MaxSends = 2
    DeliveryLimit = 1
    MaxFaults = 1
    MaxRestarts = 0
    ExpiringLocks = {}
    DriverCode = "ER_DUP_ENTRY"
PROPERTIES
    EveryEventSettles
    AcceptedEventuallyStored
CHECK_DEADLOCK FALSE

SPECIFICATION Spec
CONSTANTS
    a1 = a1
    c1 = c1
    c2 = c2
    m1 = m1
    e1 = e1
    e2 = e2
    u1 = u1
    w1 = w1
    None = None
    Apps = {a1}
    ChatRequests = {c1, c2}
    MessageRequests = {m1}
    EventIds = {e1, e2}
    ChatWorkers = {u1}
    MessageWorkers = {w1}
    MaxSends = 2
    DeliveryLimit = 1
    MaxFaults = 1
    ExpiringLocks = {e1, e2}
    DriverCode = "ER_DUP_ENTRY"
SYMMETRY Symmetry
INVARIANTS
    OneRowPerEvent
    NothingLost
    AckedAreCounted
    
PROPERTY
    BothAreEventStores
CHECK_DEADLOCK FALSE

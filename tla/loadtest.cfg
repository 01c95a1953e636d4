SPECIFICATION FairSpec
CONSTANTS
    u1 = u1
    u2 = u2
    Users = {u1, u2}
    OperationsPerUser = 1
    MessagesPerChat = 2
    ConsistencyRetries = 2
    MaxFaults = 1
    MaxMalformed = 1
INVARIANTS
    TypeOK
    RetriedBeforeGivingUp
    FoundStaysFound
    ReportAddsUp
PROPERTIES
    TestEnds
CHECK_DEADLOCK FALSE

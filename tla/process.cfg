SPECIFICATION FairSpec
CONSTANTS
    Messages <- MCMessages
    Malformed = {"chat2"}
    Queues = {"chats", "messages"}
    QueueOf <- MCQueueOf
    Prefetch = 1
    DeliveryLimit = 3
    MaxErrors = 1
    MaxLosses = 2
INVARIANTS
    TypeOK
    UnackedIsHandled
    DeathsBoundedByLosses
    InnocentNotParked
PROPERTIES
    EveryEventSettles
CHECK_DEADLOCK FALSE

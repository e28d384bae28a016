SPECIFICATION FairSpec
CONSTANTS
    log = log
    admin1 = admin1
    admin2 = admin2
    Threads <- MCThreads
    Queues <- MCQueues
    QueueOf <- MCQueueOf
    Batch = 1
    MaxEvents = 3
    WakeMayFail = FALSE
INVARIANTS
    Inv
    NoLostWakeup
PROPERTIES
    EventsDrained

SPECIFICATION FairSpec
CONSTANTS
    Messages = {m1, m2}
    WorkerCount = 1
    QueueSize = 1
    MaxAttempts = 2
    MaxExits = 1
INVARIANTS
    TypeOK
    DuplicatesWithinRetries
    SuccessAccounted
PROPERTIES
    EveryMessageEnds

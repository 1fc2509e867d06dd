SPECIFICATION FairSpec
CONSTANTS
    Workers = {w1, w2}
    QueueSize = 1
    MaxAttempts = 2
    MaxReceived = 3
PROPERTIES
    ShutdownEnds
    EveryMessageSettled

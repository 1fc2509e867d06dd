SPECIFICATION FairSpec
CONSTANTS
    Messages = {m1}
    WorkerCount = 1
    QueueSize = 1
    MaxAttempts = 2
    MaxExits = 1
PROPERTIES
    HandlerSurvivesReconnect

SPECIFICATION PipelineSpec
CONSTANTS
    MaxReadings = 1
    MaxLosses = 1
    Messages <- Copies
    WorkerCount = 1
    QueueSize = 1
    MaxAttempts = 2
    MaxExits = 1
CONSTRAINT
    OneProcessFails
INVARIANTS
    RowsEndToEnd
    SuccessTraceable

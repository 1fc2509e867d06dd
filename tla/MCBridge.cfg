SPECIFICATION Spec
CONSTANTS
    Workers = {w1, w2}
    QueueSize = 1
    MaxAttempts = 3
    MaxReceived = 5
SYMMETRY WorkerSymmetry
INVARIANTS
    TypeOK
    Conservation
    GaugeExact
    CleanShutdown
    CrashNeedsLateDelivery
    RetryBudget
PROPERTIES
    ImplementsLedger

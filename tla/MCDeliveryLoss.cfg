SPECIFICATION Spec
CONSTANTS
    Messages = {m1, m2, m3, m4}
    WorkerCount = 1
    QueueSize = 1
    MaxAttempts = 1
    MaxExits = 1
SYMMETRY Symmetry
INVARIANTS
    TakenLossBounded

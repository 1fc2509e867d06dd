SPECIFICATION Spec
CONSTANTS
    Workers = {w1}
    QueueSize = 1
    MaxAttempts = 2
    MaxReceived = 2
INVARIANTS
    NoSendAfterDisconnect

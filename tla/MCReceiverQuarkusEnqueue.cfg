\* Quarkus in enqueue mode answers 200 for a record its client refused.
CONSTANTS
    Requests = {r1, r2}
    Bids <- MCOneBid
    Configs <- MCQuarkusEnqueue
    MaxAttempts = 1
    QueueCapacity = 1
SPECIFICATION Spec
INVARIANT
    EnqueuedIsInPipeline
CHECK_DEADLOCK FALSE

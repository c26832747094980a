\* Whatever lane reports its refusals implements the contract.
CONSTANTS
    Requests = {r1, r2}
    Bids <- MCContractBids
    Configs <- MCReporting
    MaxAttempts = 2
    QueueCapacity = 1
SPECIFICATION FairSpec
INVARIANTS
    EnqueuedIsInPipeline
PROPERTIES
    ImplementsContract
    AnswersAndLogAreFinal
    EveryRequestIsAnswered
    StopEnds
CHECK_DEADLOCK FALSE

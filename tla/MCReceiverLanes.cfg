\* All lanes, modes and acks; every kind of body; two requests.
CONSTANTS
    Requests = {r1, r2}
    Bids <- MCBids
    Configs <- MCAllLanes
    MaxAttempts = 2
    QueueCapacity = 1
SPECIFICATION Spec
SYMMETRY RequestSymmetry
INVARIANTS
    TypeOK
    ConfirmedIsLogged
    OnlyBidsAreLogged
    RefusedIsNotLogged
    StopFlushes
    SafetyInv
CHECK_DEADLOCK FALSE

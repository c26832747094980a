CONSTANT
    AllServices <- MCAllServices
    StrictServices <- MCAllServices
    ServiceLists <- MCServiceLists
    WidePartitions = 3
    NameOrder <- MCAllServices
    Dirs = {1, 2, 3}
    StampOf <- MCStampOf
    Callers <- MCCallers
    Checkouts = {"c1"}
    Recorded <- MCRecorded
    Outcomes <- MCOutcomes
    Host <- MCHost
    Repeats = 1
    MaxCollations = 2
SPECIFICATION Spec
INVARIANT
    TypeOK
    NearestWins
    LikeWithLike
    FilesAgree
    RankingIsEarned
PROPERTY
    MissedOnlyBehindAborted
CHECK_DEADLOCK FALSE

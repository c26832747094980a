\* Every environment, four lists of lanes, one of them with a lane twice.
CONSTANTS
    AllServices <- MCAllServices
    StrictServices <- MCStrictServices
    ServiceLists <- MCServiceLists
    WidePartitions = 3
    Callers <- Environments
    Repeats = 2
SPECIFICATION FairSpec
INVARIANTS
    TypeOK
    StrictMeansStrict
    ReportIsComplete
    MeasuredAlone
    HttpOnlyNeedsNoKafka
PROPERTIES
    RunEnds
    ComparesFairly
CHECK_DEADLOCK FALSE

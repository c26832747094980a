CONSTANTS
    AllServices <- MCAllServices
    StrictServices <- MCStrictServices
    ServiceLists <- MCServiceLists
    WidePartitions = 3
    Callers <- Environments
    Repeats = 2
SPECIFICATION FairSpec
INVARIANT TopologyIsConstant
CHECK_DEADLOCK FALSE

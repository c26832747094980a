\* A failed bid that neither the table nor the dead-letter topic has.
CONSTANTS
    p1 = p1
    p2 = p2
    Partitions = {p1}
    MaxRecords <- MCOnePartition
    DlqCapacity = 1
    MaxResumes <- MCOneStart
SPECIFICATION Spec
INVARIANT
    FailedBidsReachTheDlq
CHECK_DEADLOCK FALSE

\* Two partitions, crashes, lost partitions and replays, a dead-letter buffer of one.
CONSTANTS
    p1 = p1
    p2 = p2
    Partitions = {p1, p2}
    MaxRecords <- MCMaxRecords
    DlqCapacity = 1
    MaxResumes <- MCMaxResumes
SPECIFICATION FairSpec
INVARIANTS
    TypeOK
    NothingIsSkipped
    OneRowPerResume
    DeadLettersFailed
PROPERTIES
    ProgressIsKept
    DeliversAtLeastOnce
    
CHECK_DEADLOCK FALSE

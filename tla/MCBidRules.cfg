\* Where the seven handlers differ, over every abstract body,
\* and in what they make of their environment.
CONSTANT
    UnderTest = {"rust", "go", "python", "node", "quarkus", "spring", "spring-virtual"}
    IntMax = 127
    ExactMax = 8192
    LingerFloor = 10
    Cores = 4
    Default <- MCDefault
    Samples <- MCSamples
    Numbers <- MCNumbers
SPECIFICATION Spec
INVARIANT
    LanesDivergeOnlyAsKnown
    LanesReadKnobsAlike
    TimeoutCoversAttempts
CHECK_DEADLOCK FALSE

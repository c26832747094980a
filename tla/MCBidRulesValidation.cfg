\* The claim that all lanes validate alike.
CONSTANT
    UnderTest = {"rust", "go", "python", "node", "quarkus", "spring", "spring-virtual"}
    IntMax = 127
    ExactMax = 8192
    LingerFloor = 10
    Cores = 4
    Default <- MCDefault
    Samples <- MCSamples
    Numbers <- MCNumbers
SPECIFICATION Spec
INVARIANT
    SameValidation
CHECK_DEADLOCK FALSE

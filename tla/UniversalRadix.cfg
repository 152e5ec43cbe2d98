CONSTANTS
    MaxU32 = 2147483647
    Instances <- RadixInstances
    Threads = {t1}
    Epsilon = Epsilon
    Nothing = Nothing
SPECIFICATION SearchSpec
CHECK_DEADLOCK FALSE
INVARIANTS
    RadixSuffices

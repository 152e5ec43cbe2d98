CONSTANTS
    MaxU32 = 60
    Instances <- NarrowInstances
    Epsilon = Epsilon
    Nothing = Nothing
SPECIFICATION SearchSpec
CHECK_DEADLOCK FALSE
INVARIANT NoStateNeverEmitted

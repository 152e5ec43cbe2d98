CONSTANTS
    MaxU32 = 100
    Instances <- LimitedInstances
    CharKind <- KindOf
    CharFold <- FoldOf
    Nothing = Nothing
SPECIFICATION Spec
INVARIANT LengthLimitRespected

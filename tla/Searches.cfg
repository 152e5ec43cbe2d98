CONSTANTS
    MaxU32 = 2147483647
    LevenshteinInstances <- LevenshteinQueries
    UniversalInstances <- UniversalQueries
    PhoneticInstances <- PatternQueries
    Texts <- ShortTexts
    WidthFloor = 100
    PerDistance = 10
    Epsilon = Epsilon
    Nothing = Nothing
SPECIFICATION Spec
CHECK_DEADLOCK FALSE
INVARIANTS
    ExactDistance
    NoDeadContinuation

CONSTANTS
    StateIdLimits <- Limits
    LevenshteinInstances <- NarrowLevenshtein
    UniversalInstances <- NarrowUniversal
    PhoneticInstances <- NarrowPhonetic
    FzfInstances <- NarrowFzf
    Threads = {t1, t2}
    WidthFloor = 6
    PerDistance = 4
    CharKind <- KindOf
    CharFold <- FoldOf
    Epsilon = Epsilon
    Nothing = Nothing
SPECIFICATION Spec
SYMMETRY Symmetry
INVARIANTS
    AnswersStable
    EmittedStatesValid
    ArcsDenote
    RegistriesCanonical

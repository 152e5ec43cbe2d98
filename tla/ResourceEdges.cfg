SPECIFICATION Spec
CONSTANTS
    PageLen = 3
    MaxEdges = 7
    MaxReport = 8
INVARIANTS
    TypeOK
    NoGapNoRepeat
    PageInBounds
    CompleteOrFault
    CallbacksBounded

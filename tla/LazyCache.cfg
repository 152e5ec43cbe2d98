CONSTANTS
    States = {s1, s2, s3, s4}
    NoState = NoState
    Sizes = {0, 1, 3}
    MaxClock = 7
    HeapFactor = 1
    HeapFloor = 5
SPECIFICATION Spec
INVARIANTS
    TypeOK
    HeapIndexesEntries
    WithinCapacity
    EnsuredReadable
PROPERTIES
    EvictsOldestFirst
    ImplementsRecencyCache

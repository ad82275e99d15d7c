\* Four keys in a cache of three, two buffers.
SPECIFICATION Spec
CONSTANTS
    Keys <- FourKeys
    Data = {d1, d2}
    None = None
    LenMax = 3
INVARIANTS
    SortedUnique
    InvalidatedStaysGone
PROPERTIES
    EvictsLeastRecent
    ImplementsContract
CHECK_DEADLOCK FALSE

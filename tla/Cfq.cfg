SPECIFICATION FairSpec
CONSTANTS
    Values <- Letters
    N = 4
INVARIANTS
    SlotExclusive
    IInv
PROPERTIES
    ImplementsFifo
    Drains
CHECK_DEADLOCK TRUE

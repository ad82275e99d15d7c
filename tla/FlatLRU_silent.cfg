\* Expected to fail: an entry is lost without being returned.
SPECIFICATION Spec
CONSTANTS
    Keys <- ThreeKeys
    Data = {d1}
    None = None
    LenMax = 2
PROPERTIES
    NothingLostSilently
CHECK_DEADLOCK FALSE

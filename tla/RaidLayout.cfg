SPECIFICATION Spec
CONSTANTS
    Levels     <- AllLevels
    Devices    <- ThreeFour
    StripSizes <- OneTwoFour
    MaxOffset  = 14
    MaxLength  = 14
INVARIANTS
    Placed
    Covered
    ParityAligned
CHECK_DEADLOCK FALSE

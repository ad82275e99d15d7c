SPECIFICATION FairSpec
CONSTANTS
    NCmds     = 6
    Op        <- MCOp
    Chain     <- MCChain
    W         = 3
    RingCap   = 2
    AckCap    = 1
    MaxErrors = 1
INVARIANTS
    CountersAgree
    AckedOnce
    AckTruthful
PROPERTIES
    Answered
CHECK_DEADLOCK FALSE

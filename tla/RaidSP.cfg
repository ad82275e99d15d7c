\* Three overlapping writes and an error; or two, with a read, a second error or a
\* restart.
SPECIFICATION MCSpec
CONSTANTS
    w1 = w1
    w2 = w2
    w3 = w3
    r1 = r1
    Old = Old
    P = P
    Writes = {w1, w2, w3}
    Reads = {r1}
    Stripes <- MCStripes
    Strips <- MCStrips
    Cells <- MCCells
    StripOf <- MCStripOf
    Span <- MCSpan
    RSpan <- MCRSpan
    MaxErrors = 2
    MaxRestarts = 1
INVARIANTS
    TypeOK
    StripeExclusive
    LockHeld
    CoherentParity
    AckedWriteDurable
    ErrorsReachFsm
    ReadFresh
    IInv
PROPERTIES
    WritesAnswered
CHECK_DEADLOCK FALSE

\* Both handlers over both kinds of target: two writes and a read, or a write and
\* two reads, and an error.
SPECIFICATION MCSpec
CONSTANTS
    w1 = w1
    w2 = w2
    r1 = r1
    r2 = r2
    Old = Old
    Junk = Junk
    None = None
    Writes = {w1, w2}
    Reads = {r1, r2}
    NChunks = 2
    Cells <- MCCells
    WSpan <- MCWSpan
    RSpan <- MCRSpan
    Modes = {"rwi", "rwt"}
    Targets = {"bare", "raid"}
    MaxErrors = 1
INVARIANTS
    TypeOK
    CacheCoherent
    ReadFresh
    AckedWriteDurable
    ChunkLocked
PROPERTIES
    RequestsAnswered
CHECK_DEADLOCK FALSE

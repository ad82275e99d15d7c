\* Expected to fail: a write-through cache over a RAID unlocks a chunk twice.
SPECIFICATION Spec
CONSTANTS
    w1 = w1
    w2 = w2
    r1 = r1
    r2 = r2
    Old = Old
    Junk = Junk
    None = None
    Writes = {w1, w2}
    Reads = {r1}
    NChunks = 2
    Cells <- MCCells
    WSpan <- MCWSpan
    RSpan <- OneRSpan
    Modes = {"rwt"}
    Targets = {"raid"}
    MaxErrors = 1
INVARIANTS
    NeverUnlocksFree
CHECK_DEADLOCK FALSE

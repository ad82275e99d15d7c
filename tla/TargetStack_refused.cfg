\* Expected to fail: what a RAID offline refuses is answered with success.
SPECIFICATION MCSpec
CONSTANTS
    w1 = w1
    w2 = w2
    r1 = r1
    f1 = f1
    Zero = Zero
    Top = Top
    Kinds <- AllKinds
    NGroups = 2
    NMirrors = 2
    StripLen = 2
    ReadStrip = 2
    NCells = 6
    MaxOps = 5
    Writes = {w1, w2}
    Reads = {r1}
    Flushes = {f1}
    First <- MCFirst
    Last <- MCLast
    Sizes = {0, 6}
    MaxErrors = 1
    MaxRestarts = 1
INVARIANTS
    RefusedReported
CHECK_DEADLOCK FALSE

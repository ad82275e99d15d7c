\* Two names, two pids, devices of one name, four calls of map().
SPECIFICATION Spec
CONSTANTS
    Names = {"a", "b"}
    Suffixes = {"0"}
    Pids = {1, 2}
    MaxTargets = 3
    MaxMaps = 4
INVARIANTS
    TypeOK
    TargetKept
    NoOrphans
PROPERTIES
    Released
CHECK_DEADLOCK FALSE

SPECIFICATION FairSpec
CONSTANTS
    None = None
    Unknown = Unknown
    Files = {f}
    Dirs = {d}
    Root = Root
    Outside = Outside
    StartTrees <- SmallTrees
    MaxChanges = 2
    MaxFaults = 1
INVARIANTS TypeOK CaughtUpIsTrue
PROPERTIES LagsOnly Heals
CHECK_DEADLOCK FALSE

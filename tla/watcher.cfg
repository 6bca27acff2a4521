SPECIFICATION FairSpec
CONSTANTS
    None = None
    Unknown = Unknown
    Top = Top
    Files = {"f"}
    Dirs = {"d"}
    FolderOf <- FolderOfFile
    StartTrees <- SmallTrees
    MaxChanges = 2
    MaxFaults = 1
    MaxRefreshes = 1
    MaxQueue = 2
INVARIANTS TypeOK CaughtUpIsTrue RefreshHolds
PROPERTIES LagsOnly Heals NoDeletesWithoutRoot
CHECK_DEADLOCK FALSE

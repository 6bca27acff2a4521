SPECIFICATION Spec
CONSTANTS
    None = None
    Unknown = Unknown
    Top = Top
    Files = {"f", "g"}
    Dirs = {"d"}
    FolderOf <- FolderOfFile
    StartTrees <- SmallTrees
    MaxChanges = 2
    MaxFaults = 0
    MaxRefreshes = 0
    MaxQueue = 2
INVARIANT AbsenceIsDeletion

CHECK_DEADLOCK FALSE

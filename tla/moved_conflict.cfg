SPECIFICATION HandlerSpec
CONSTANTS
    None = None
    Names = {"a", "b", "d", "e", "x", "copy", "copy2"}
    Contents = {"c1", "c2", "c3", "c4", "c5", "c6"}
    Plannable <- PlansOf
    Worlds <- RenamedAndEdited
    Concurrency = 1
    MaxRetries = 1
    Faults = {}
    Users = {}
    RacyUser = FALSE
    MaxEdits = 0
    MaxCrashes = 0
    MaxPlans = 9
    MaxStops = 0
    UserPaths = {}
    CopyNames = {"copy", "copy2"}
    Resolutions = {"keep_local", "keep_remote", "keep_both"}
    MaxChoices = 0
INVARIANTS NothingMissed
CHECK_DEADLOCK FALSE

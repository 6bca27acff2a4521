SPECIFICATION HandlerSpec
CONSTANTS
    None = None
    Names = {"a", "b", "d", "e", "x", "copy", "copy2"}
    Contents = {"c1", "c2", "c3", "c4", "c5", "c6"}
    Plannable <- PlansOf
    Worlds <- Raced
    Concurrency = 2
    MaxRetries = 1
    Faults = {"lost"}
    Users = {"edit", "create", "delete", "rename", "remote edit", "remote trash", "remote restore", "remote move", "remote delete"}
    RacyUser = FALSE
    MaxEdits = 1
    MaxCrashes = 1
    MaxPlans = 2
    MaxStops = 0
    UserPaths <- Places
    CopyNames = {"copy", "copy2"}
    Resolutions = {}
    MaxChoices = 0
PROPERTIES NothingLost LocalNewsKept
CHECK_DEADLOCK FALSE

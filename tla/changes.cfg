SPECIFICATION HandlerSpec
CONSTANTS
    None = None
    Names = {"a", "b", "d", "e", "x", "copy", "copy2"}
    Contents = {"c1", "c2", "c3", "c4", "c5", "c6"}
    Plannable <- PlansOf
    Worlds <- Pairs
    Concurrency = 1
    MaxRetries = 1
    Faults = {}
    Users = {}
    RacyUser = FALSE
    MaxEdits = 0
    MaxCrashes = 0
    MaxPlans = 9
    MaxStops = 1
    UserPaths = {}
    CopyNames = {"copy", "copy2"}
    Resolutions = {"keep_local", "keep_remote", "keep_both"}
    MaxChoices = 2
INVARIANTS Converges ChoiceObeyed
PROPERTIES NewsKept OnlyTrashTrashes
CHECK_DEADLOCK FALSE

SPECIFICATION Spec
CONSTANTS
    None = None
    Names = {"a", "b", "d", "e", "x"}
    Contents = {"c1", "c2", "c3", "c4", "c5", "c6"}
    Plannable <- PlansOf
    Worlds <- OneOfEach
    Concurrency = 2
    MaxRetries = 2
    Faults = {"retryable", "auth", "other", "disk_full", "lost"}
    Users = {"delete", "remote trash", "remote restore", "remote delete"}
    RacyUser = FALSE
    MaxEdits = 1
    MaxCrashes = 2
    MaxPlans = 1
    MaxStops = 1
    UserPaths = {}
INVARIANTS TypeOK TasksJournaled NoneStranded BaselineTruthful NothingMissed
PROPERTIES WriteAhead NoRepeatedRevision ComesToRest
CHECK_DEADLOCK FALSE

SPECIFICATION Spec
CONSTANTS
    None = None
    Pids = {p, q}
    Locals = {"home", "other"}
    Remotes = {"mine", "new"}
    FirstPair <- MCFirstPair
    MaxStarts = 3
    MaxSetups = 1
    MaxCrashes = 2
INVARIANTS TypeOK OneUnlessRaced Reachable OldRowsArchived
PROPERTIES NothingForgotten
CHECK_DEADLOCK FALSE

SPECIFICATION Spec
CONSTANTS
    None = None
    edited = edited
    deleted = deleted
    trashed = trashed
    LocalDiffs = {edited, deleted}
    RemoteDiffs = {trashed}
    Destructive = {deleted, trashed}
    Conflicting = {edited}
    BrakeLimit = 0
    Commands = {"confirm", "reject", "resolve"}
    Failures = {"throttle", "throw"}
    LoggedIn = {TRUE}
    StartPaused = {FALSE}
    MaxChanges = 1
    MaxCommands = 2
    MaxFailures = 1
INVARIANTS TypeOK RestIsTruthful ConfirmedOnly
CHECK_DEADLOCK FALSE

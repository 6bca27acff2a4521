SPECIFICATION Spec
CONSTANTS
    None = None
    edited = edited
    deleted = deleted
    trashed = trashed
    LocalDiffs = {edited}
    RemoteDiffs = {trashed}
    Destructive = {trashed}
    Conflicting = {edited}
    BrakeLimit = 1
    Commands = {"pause", "resume", "sync", "release", "stop", "login"}
    Failures = {"auth", "session", "connection", "listing", "preflight",
                "item", "disk_full", "root"}
    LoggedIn = {TRUE, FALSE}
    StartPaused = {TRUE, FALSE}
    MaxChanges = 1
    MaxCommands = 2
    MaxFailures = 1
PROPERTIES StopLeads Served Recovers
CHECK_DEADLOCK FALSE

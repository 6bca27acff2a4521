SPECIFICATION FairSpec
CONSTANTS
    None = None
    Requests <- MCRequests
    Owner <- MCOwner
    Idempotent <- MCIdempotent
    MaxAttempts = 2
    MaxLogins = 2
    MaxCalls = 2
    MaxFaults = 2
INVARIANTS TypeOK SessionKept AppliedOnce
PROPERTIES RefreshesWhenRejected EveryRequestEnds
CHECK_DEADLOCK FALSE

SPECIFICATION Spec
CONSTANTS
    Callers <- TwoCallers
    Period = 2
    Burst = 2
    Timeout = 3
    MaxRetries = 1
    Backoffs <- Delays
    MaxTime = 4
    MaxRequests = 4
INVARIANTS
    GrantsWithinRate
CHECK_DEADLOCK FALSE

SPECIFICATION Spec
CONSTANTS
    c1 = c1
    c2 = c2
    Calls <- MCCalls
    Count <- MCCount
    MaxAttempts = 2
    RetryDelay = 1
    PollDelay = 1
    ApprovalTime = 2
    ConnectTime = 2
    Horizon = 2
    MaxEvents = 2
CHECK_DEADLOCK FALSE
INVARIANT
    ServedInOrder
PROPERTIES
    GivenUpLate
    AbortStops
    EndsUnlessSilent
    KeepsSigningPromise

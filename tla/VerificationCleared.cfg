\* The comment at the static variables.  Attempts are bounded.
SPECIFICATION Spec
CHECK_DEADLOCK FALSE
CONSTANTS
    Peers = {p1}
    MaxAttempts = 2
    MaxFailures = 0
    LossyPut = FALSE
    MayLackMasterKey = FALSE
    Null = Null
INVARIANTS MemorySafe

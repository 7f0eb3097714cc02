\* The comment at NewOlmSessionOut.  Messages are bounded.
SPECIFICATION Spec
CHECK_DEADLOCK FALSE
CONSTANTS
    Devices = {d1, d2}
    NUM_OLM_SESSIONS = 2
    MaxReceived = 2
    MaxFailures = 0
    VerifiedFirst = TRUE
    KeyMayMiss = FALSE
    OtkMayRunOut = FALSE
    Null = Null
INVARIANTS SessionsAreLabelled

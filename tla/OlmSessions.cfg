\* Two devices and a table of two.  Messages are bounded, and a crashed client
\* stops.
SPECIFICATION Spec
CHECK_DEADLOCK FALSE
CONSTANTS
    Devices = {d1, d2}
    NUM_OLM_SESSIONS = 2
    MaxReceived = 3
    MaxFailures = 1
    VerifiedFirst = FALSE
    KeyMayMiss = TRUE
    OtkMayRunOut = TRUE
    Null = Null
SYMMETRY Symmetry
INVARIANTS TypeOK EachHandledOnce SentIsReadable
PROPERTIES TableAppendOnly SlotSticks

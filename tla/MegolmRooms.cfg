\* Two rooms that can have several sessions each, and a table of three, so that
\* a slot has one before and one after it.  Messages, keys, seconds and failed
\* requests are bounded, and a crashed client stops.
SPECIFICATION Spec
CHECK_DEADLOCK FALSE
CONSTANTS
    Rooms = {r1, r2}
    Devices = {d1}
    NUM_MEGOLM_SESSIONS = 3
    MaxSent = 2
    MaxShared = 2
    MaxSeconds = 1
    MaxFailures = 1
SYMMETRY Symmetry
INVARIANTS TypeOK CountHoldsUntilFull KeyHolderReads StaleOnlyWhereSpoiled
INVARIANTS OneSessionPerRoom MissingOnlyInSameSecond

\* The comment on NewMegolmInSession, with the tables of two that matrix.h gives
\* the library.  No request fails.  Messages, keys and seconds are bounded, and a
\* crashed client stops.
SPECIFICATION Spec
CHECK_DEADLOCK FALSE
CONSTANTS
    Rooms = {r1, r2}
    Devices = {d1}
    NUM_MEGOLM_SESSIONS = 2
    MaxSent = 2
    MaxShared = 2
    MaxSeconds = 1
    MaxFailures = 0
SYMMETRY Symmetry
INVARIANTS StoredKeysOpen

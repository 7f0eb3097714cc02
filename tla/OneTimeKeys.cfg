\* The limits in the order of the library's, scaled.  A crashed client stops, and
\* the keys that are generated are bounded.
SPECIFICATION Spec
CHECK_DEADLOCK FALSE
CONSTANTS
    Devices = {d1, d2}
    RandomKeys = 2
    RequestCap = 3
    ListCap = 4
    MaxKeys = 5
    MaxGenerated = 7
    NoList = NoList
INVARIANTS KeysUsable OfferedInTime
SYMMETRY Perms

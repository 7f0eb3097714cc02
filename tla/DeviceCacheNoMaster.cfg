\* The same comment for the master key of an account that has none.
SPECIFICATION Spec
CHECK_DEADLOCK FALSE
CONSTANTS
    Devices = {d1, d2}
    Gens = {g1}
    NUM_DEVICES = 2
    Irregular <- NoMasterOnly
    Master = Master
    NoKey = NoKey
    Garbage = Garbage
    Pending = Pending
SYMMETRY Symmetry
INVARIANTS MasterKeyFromServer

\* As many devices as the table holds (garbled ids come on top), all irregular
\* answers.  A crashed client stops.
SPECIFICATION Spec
CHECK_DEADLOCK FALSE
CONSTANTS
    Devices = {d1, d2}
    Gens = {g1, g2}
    NUM_DEVICES = 2
    Irregular <- AllIrregular
    Master = Master
    NoKey = NoKey
    Garbage = Garbage
    Pending = Pending
INVARIANTS TypeOK TableSound KeysBelong MissExplained
PROPERTIES KeysPinned ImplementsDirectory

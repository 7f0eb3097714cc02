\* Events and failures are bounded.
SPECIFICATION Spec
CONSTANTS
    MaxRetry = 3
    Cap = 2
    Nul = Nul
    MaxEvents = 3
    Orders <- FirstOrLast
    MaxFailures = 1
INVARIANTS TypeOK ReadsOneAnswer HandledOnce FailureIsFinal
PROPERTIES EventHandled

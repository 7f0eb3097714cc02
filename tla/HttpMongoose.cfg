\* Four calls over connections that go at any time.  Calls are bounded, and a
\* call that lost its connection waits for ever.
SPECIFICATION FairSpec
CHECK_DEADLOCK FALSE
CONSTANTS
    MaxRequests = 4
    Nothing = Nothing
INVARIANTS TypeOK AnswerMatches CutShortReconnects WritesToConnection
PROPERTIES OneConnection CallReturns

\* Two peers, each of which may give up and ask again, and a GET that fails.
\* Attempts are bounded.
SPECIFICATION FairSpec
CHECK_DEADLOCK FALSE
CONSTANTS
    Peers = {p1, p2}
    MaxAttempts = 2
    MaxFailures = 1
    LossyPut = TRUE
    MayLackMasterKey = TRUE
    Null = Null
INVARIANTS TypeOK SafeUntilAskedAgain NoSasLeak VouchesForConfirmed RepliesPaired
PROPERTIES AnswersEvent RequestCompletes

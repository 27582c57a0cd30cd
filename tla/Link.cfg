SPECIFICATION FairSpec
CONSTANTS
    Channel <- Channels
    Plans <- BothPlans
    SeqMod = 4
    NoSeq = NoSeq
    MaxFaults = 1
    FailsLater = FALSE
INVARIANT TypeOK
PROPERTIES KeepsPromise HangUpIsHeard NothingLeftBehind
\* The users need not write, and the daemon need not answer: the link may rest.
CHECK_DEADLOCK FALSE

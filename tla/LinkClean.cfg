SPECIFICATION FairSpec
CONSTANTS
    Channel <- Channels
    Plans <- MixedPlan
    SeqMod = 4
    NoSeq = NoSeq
    MaxFaults = 1
    FailsLater = TRUE
PROPERTY NextChannelsStartClean
\* The users need not write, and the daemon need not answer: the link may rest.
CHECK_DEADLOCK FALSE

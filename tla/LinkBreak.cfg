SPECIFICATION Spec
CONSTANTS
    Channel <- Channels
    Plans <- AgainPlan
    SeqMod = 4
    NoSeq = NoSeq
    MaxFaults = 0
    FailsLater = FALSE
INVARIANT BreakOnlyWhenDamaged
\* The users need not write, and the daemon need not answer: the link may rest.
CHECK_DEADLOCK FALSE

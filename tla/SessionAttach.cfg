\* Two relays, two chunks of output.  The system may stop: the shell exited and
\* nobody attached.
CONSTANTS
    r1 = r1
    r2 = r2
    Relay = {r1, r2}
    MaxChunk = 2

SPECIFICATION FairSpec
INVARIANTS
    TypeOK
    NothingLost
PROPERTIES
    ScreenCatchesUp
    ExitIsTold
CHECK_DEADLOCK FALSE

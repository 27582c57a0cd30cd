\* Two clients of any of three builds and three daemon processes at a time.
\* The system may stop: nobody comes any more.
CONSTANTS
    c1 = c1
    c2 = c2
    d1 = d1
    d2 = d2
    d3 = d3
    NoProc = NoProc
    Every = Every
    Client = {c1, c2}
    Proc = {d1, d2, d3}
    Build = {0, 1, 2}

SPECIFICATION FairSpec
INVARIANTS
    TypeOK
    OneDaemon
    FailsOnlyIfStopped
PROPERTIES
    StopsOnlyOlder
    NewestTakesOver
CHECK_DEADLOCK FALSE

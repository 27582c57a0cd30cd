\* Every kind of source, each with one trouble, for a file of three bytes in pieces
\* of two.  The system may stop: the placement gone, its source ended.
SPECIFICATION FairSpec
CONSTANTS
    Size = 3
    Window = 1
    Room = 2
    Keep = 1
    NoTarget = NoTarget
    Sources <- Everything
    Piece = 2
    Announce = 1
    OnDemand = 1
    MaxWanted = 1
INVARIANTS TypeOK FrontIsWhole OnlyArrivedIsOffered BufferInPlace
PROPERTIES ReadIsServed PictureSettles StopIsFinal EndReachesPlayer ListenerEnds
CHECK_DEADLOCK FALSE

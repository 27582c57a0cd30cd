\* A still picture whose stream is three chunks: is it shown, whenever Som comes?
SPECIFICATION FairSpec
CONSTANTS
    Size = 3
    Window = 3
    Room = 2
    Keep = 1
    NoTarget = NoTarget
    Sources <- StillPicture
    Piece = 1
    Announce = 1
    OnDemand = 1
    MaxWanted = 1
PROPERTIES EveryPictureIsShown
CHECK_DEADLOCK FALSE

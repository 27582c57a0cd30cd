\* Two relays, the second while the threads of the first still run; no
\* pane knows its cell.
CONSTANTS
    r1 = r1
    r2 = r2
    small = small
    large = large
    placeholder = placeholder
    Relay = {r1, r2}
    Size = {small, placeholder}
    Placeholder = placeholder
    StartSize = small
    NoSize = NoSize
    Cell = {}
    NoRelay = NoRelay
    MaxAttempts = 2
    MaxResizes = 2
    MaxUnread = 2

SPECIFICATION FairSpec
INVARIANTS
    TypeOK
    SizesAgree
PROPERTIES
    PlaceholderIsLastResort
    SizeFollowsItsAuthor
CHECK_DEADLOCK FALSE

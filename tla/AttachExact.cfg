\* One relay: is every chunk on its screen once?
CONSTANTS
    r1 = r1
    r2 = r2
    Relay = {r1}
    MaxChunk = 2

SPECIFICATION Spec
INVARIANTS
    ScreenIsExact
CHECK_DEADLOCK FALSE

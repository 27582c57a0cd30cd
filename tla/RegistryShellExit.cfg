\* One pane, one connection: does the relay end with the shell it serves?
CONSTANTS
    here = here
    there = there
    c1 = c1
    c2 = c2
    s1 = s1
    s2 = s2
    NoSession = NoSession
    Pane = {there}
    LocalPane = {}
    TmuxPane = {there}
    Slot = {c1}
    Session = {s1}
    IdleTicks = 1

SPECIFICATION FairSpec
PROPERTIES
    RelayEndsWithShell
CHECK_DEADLOCK FALSE

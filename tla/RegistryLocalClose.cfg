\* One local pane, one connection: is nothing left of a pane once closed?
CONSTANTS
    here = here
    there = there
    c1 = c1
    c2 = c2
    s1 = s1
    s2 = s2
    NoSession = NoSession
    Pane = {here}
    LocalPane = {here}
    TmuxPane = {here}
    Slot = {c1}
    Session = {s1}
    IdleTicks = 1

SPECIFICATION Spec
INVARIANTS
    ClosedLocalPaneIsEmpty
CHECK_DEADLOCK FALSE

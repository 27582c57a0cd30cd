\* One pane, a local or a remote one, with two connections and two sessions.  The
\* system may stop: the pane closed, the daemon gone.
CONSTANTS
    here = here
    there = there
    c1 = c1
    c2 = c2
    s1 = s1
    s2 = s2
    NoSession = NoSession
    Pane = {here, there}
    LocalPane = {here}
    TmuxPane = {here, there}
    Slot = {c1, c2}
    Session = {s1, s2}
    IdleTicks = 0

SPECIFICATION OnePaneSpec
INVARIANTS
    TypeOK
    SurvivesDetach
    NoStrayShell
    CorpseOnlyAfterOwnExit
PROPERTIES
    IdleExitTakesOnlyNewcomers
    CloseReachesSession
    IdleDaemonLeaves
CHECK_DEADLOCK FALSE

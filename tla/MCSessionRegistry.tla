-------------------------- MODULE MCSessionRegistry --------------------------
(* Small instances of SessionRegistry.                                      *)
EXTENDS SessionRegistry, TLC

CONSTANTS here, there, c1, c2, s1, s2

\* One pane of the instance is used, local or remote; the others were closed
\* before.
OnePane ==
    /\ Init
    /\ \E p \in Pane : \A q \in Pane : pane[q] = "shut" <=> q = p
OnePaneSpec == OnePane /\ [][Next]_vars /\ Fairness

=============================================================================

--------------------------- MODULE MCSessionAttach ---------------------------
(* Two relays that serve the same pane, the second while the first may not  *)
(* be gone yet.                                                             *)
EXTENDS SessionAttach, TLC

CONSTANTS r1, r2
=============================================================================

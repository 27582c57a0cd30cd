---------------------------- MODULE MCSessionSize ----------------------------
(* Panes of two real sizes, besides the placeholder.                        *)
EXTENDS SessionSize, TLC

CONSTANTS r1, r2, small, large, placeholder
=============================================================================

--------------------------- MODULE MCDaemonStart ---------------------------
(* A small instance of DaemonStart.                                        *)
EXTENDS DaemonStart, TLC

CONSTANTS c1, c2, d1, d2, d3

=============================================================================

--------------------------- MODULE MCPortForward ---------------------------
(***************************************************************************)
(* PortForward for TLC: one rule.                     *)
(***************************************************************************)
EXTENDS PortForward

CONSTANTS r1, r2, q1, k1, k2, p1, p2
=============================================================================

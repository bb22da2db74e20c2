--------------------------- MODULE MCSSHLifecycle ---------------------------
(***************************************************************************)
(* SSHLifecycle for TLC.                                                   *)
(***************************************************************************)
EXTENDS SSHLifecycle

CONSTANTS c1, c2, k1, k2, g1, g2, p1, p2
=============================================================================

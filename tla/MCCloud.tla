------------------------------- MODULE MCCloud ------------------------------
(***************************************************************************)
(* Cloud for TLC.  Calls are interchangeable, and so are loops: the second *)
(* of each begins only while the first is in use.                          *)
(***************************************************************************)
EXTENDS Cloud

CONSTANTS c1, c2, l1, l2

InTurn(first, second) ==
  threads[first] = Idle /\ threads[second] = Idle => threads'[second] = Idle

MCCloudNext == CloudNext /\ InTurn(c1, c2) /\ InTurn(l1, l2)

MCCloudSpec == CloudInit /\ [][MCCloudNext]_cloudVars /\ CloudFairness
=============================================================================

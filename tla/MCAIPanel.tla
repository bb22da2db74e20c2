----------------------------- MODULE MCAIPanel -----------------------------
(***************************************************************************)
(* AIPanel by itself for TLC, with nobody at the keys.                     *)
(***************************************************************************)
EXTENDS AIPanel
=============================================================================

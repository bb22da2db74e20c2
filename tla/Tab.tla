-------------------------------- MODULE Tab --------------------------------
(***************************************************************************)
(* What the panels of a connection window share: the connection of the tab *)
(* in front.  DockviewWorkspace.tsx hands it to every open panel as its    *)
(* connID, and hands over another one when the tab changes.                *)
(***************************************************************************)
CONSTANTS
  Conns,   \* ids of the connections of the window
  None     \* no connection, no file, no block, ...

VARIABLE connID   \* connID prop of the panels
=============================================================================

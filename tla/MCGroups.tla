------------------------------ MODULE MCGroups ------------------------------
(***************************************************************************)
(* The connections in their groups and the native windows of groups, for   *)
(* TLC: SSHLifecycle and Windows.  What a window tells the service when it *)
(* has closed is a CloseGroup, which SSHLifecycle takes at any time; so in *)
(* a behaviour one of the two is used.                                     *)
(***************************************************************************)
EXTENDS SSHLifecycle, Windows, TLC

CONSTANT g1

VARIABLE used   \* the part that is used

\* Ids of groups, threads and places of windows are named as connections, calls and
\* clients, so that few permutations serve both.  Connections, calls and clients are
\* interchangeable; the default group is not one of several.
Interchangeable == Permutations(Clients) \cup Permutations(Calls) \cup Permutations(Conns)

groupsVars == <<used, vars, windowsVars>>

GroupsInit ==
  /\ used \in {"connections", "windows"}
  /\ Init /\ WindowsInit
  /\ used = "windows" => \A c \in Conns : store[c] = "absent"

UseConnections == used = "connections" /\ Next /\ UNCHANGED <<used, windowsVars>>
UseWindows == used = "windows" /\ WindowsNext /\ UNCHANGED <<used, vars>>

GroupsNext == UseConnections \/ UseWindows
GroupsSpec == GroupsInit /\ [][GroupsNext]_groupsVars
=============================================================================

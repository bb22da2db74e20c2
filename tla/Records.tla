------------------------------ MODULE Records ------------------------------
(***************************************************************************)
(* What the connection storage promises, by the host, port and user of a   *)
(* connection: a connection that is shown as saved is there after the next *)
(* start, unless it was deleted or could not be written since.             *)
(***************************************************************************)
CONSTANT Keys

VARIABLES
  kept,      \* what the next start finds
  shown,     \* what is shown as saved
  excused    \* deleted or not written since the start

recordVars == <<kept, shown, excused>>

\* Everything that is shown as saved, K, is kept with the rest, or cannot be written.
Save(K) ==
  /\ shown' = K
  /\ \/ kept' = kept \cup K /\ excused' = excused \ K
     \/ kept' = kept /\ excused' = excused \cup K

\* Deleting forgets one connection, or cannot write that.
Forget(k) ==
  /\ kept' \in {kept \ {k}, kept}
  /\ shown' \in SUBSET shown
  /\ excused' = excused \cup {k}

\* Unmarking forgets nothing.
Hide ==
  /\ shown' \in SUBSET shown
  /\ UNCHANGED <<kept, excused>>

\* A start shows what is kept; a stop within a write may lose it.
Begin ==
  /\ kept' \in {kept, {}}
  /\ shown' = kept' /\ excused' = {}

RecordsInit == kept \in SUBSET Keys /\ shown = kept /\ excused = {}
RecordsNext ==
  \/ \E K \in SUBSET Keys : Save(K)
  \/ \E k \in Keys : Forget(k)
  \/ Hide \/ Begin
RecordsSpec == RecordsInit /\ [][RecordsNext]_recordVars

\* What is shown as saved is kept, or excused.
ShownIsKept == shown \subseteq kept \cup excused
=============================================================================

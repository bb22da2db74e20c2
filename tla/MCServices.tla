----------------------------- MODULE MCServices -----------------------------
(***************************************************************************)
(* Two services of the backend for TLC: the AI chat, of a connection whose *)
(* turns ask for tools, and port forwarding, of a local rule and a remote  *)
(* one.  They share nothing, so in a behaviour one of them is used.        *)
(***************************************************************************)
EXTENDS AIChat, PortForward, TLC

CONSTANT theServer

VARIABLE used   \* the service that is used

OneServer == [c \in Conns |-> theServer]

\* Slots of workers are named as runs of rules, so that few permutations serve both.  The
\* rules are of different kinds.
Interchangeable == Permutations(Calls) \cup Permutations(Runs)

\* Bound: calls overlap on one rule at most; each property speaks of one rule.
OneRaced == Cardinality(raced) <= 1

servicesVars == <<used, vars, pfVars>>

ServicesInit == used \in {"chat", "forwards"} /\ Init /\ PFInit

UseChat == used = "chat" /\ Next /\ UNCHANGED <<used, pfVars>>
UseForwards == used = "forwards" /\ PFNext /\ UNCHANGED <<used, vars>>

ServicesNext == UseChat \/ UseForwards
ServicesSpec == ServicesInit /\ [][ServicesNext]_servicesVars
=============================================================================

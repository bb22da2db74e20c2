------------------------------ MODULE MCAIChat ------------------------------
(***************************************************************************)
(* AIChat for TLC: the connections share one server, and so one session.   *)
(* Behaviours with tools and long ones without are explored side by side.  *)
(***************************************************************************)
EXTENDS AIChat

CONSTANTS c1, c2, k1, s1, s2

VARIABLE withTools

OneServer == [c \in Conns |-> k1]

\* Bound: where tools are asked for there are two messages and no clear, and where the
\* history is cleared there are two messages.
InBounds ==
  /\ IF withTools THEN \A c \in Conns : sent'[c] <= 2 /\ clears'[c] = 0
                  ELSE \A w \in Worker : calls'[w] = 0
  /\ \A c \in Conns : clears'[c] = 0 \/ sent'[c] <= 2

chatVars == <<vars, withTools>>

TurnsInit == Init /\ withTools \in BOOLEAN
TurnsNext == Next /\ InBounds /\ UNCHANGED withTools

\* The bounds leave every worker some step.
TurnsSpec == TurnsInit /\ [][TurnsNext]_chatVars /\ Fairness
=============================================================================

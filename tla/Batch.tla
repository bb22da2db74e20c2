------------------------------- MODULE Batch -------------------------------
(***************************************************************************)
(* The panel that runs one command on several connections,                 *)
(* components/ssh/BatchCommandPanel.tsx.  It lives in a window whose list  *)
(* of connections changes while calls are waited for.                      *)
(***************************************************************************)
EXTENDS Tab, Naturals, Functions

CONSTANTS Strokes   \* bound: clicks and changes of the list or of the tab

ASSUME BatchAssumption == Strokes \in Nat

VARIABLES
  connections, storeLoading,   \* what the store has of the window
  selectedConnIDs,
  initialized,                 \* initializedSelectionRef
  typed,                       \* whether there is a command
  running,
  results,                     \* status of the rows
  rounds,                      \* runs made so far
  waiting,                     \* connections a run in progress has no answer of
  strokes

batchVars == <<connID, connections, storeLoading, selectedConnIDs, initialized, typed,
               running, results, rounds, waiting, strokes>>

selectedConnections == connections \cap selectedConnIDs

\* Fault: the run button does not wait.
BatchOffersAgain ==
  {"type"} \cup (IF connections = {} THEN {} ELSE {"all", "check"})
           \cup (IF selectedConnIDs = {} THEN {} ELSE {"clear"})
           \cup (IF selectedConnections = {} \/ ~typed THEN {} ELSE {"run"})

BatchOffers ==
  {"type"} \cup (IF connections = {} THEN {} ELSE {"all", "check"})
           \cup (IF selectedConnIDs = {} THEN {} ELSE {"clear"})
           \cup (IF running \/ selectedConnections = {} \/ ~typed THEN {} ELSE {"run"})

Strike == strokes < Strokes /\ strokes' = strokes + 1
Use(what) == what \in BatchOffers /\ Strike

\* The effect on connID, connections and loading: the first connection known is chosen,
\* and what belongs to a connection that is gone is dropped.
KeepKnown ==
  IF storeLoading' THEN UNCHANGED <<selectedConnIDs, initialized, results>>
  ELSE /\ results' = Restrict(results, DOMAIN results \cap connections')
       /\ IF ~initialized /\ connID' \in connections'
          THEN selectedConnIDs' = {connID'} /\ initialized' = TRUE
          ELSE /\ selectedConnIDs' = selectedConnIDs \cap connections'
               /\ UNCHANGED initialized

\* The store gets a list, or its first reload has failed; or the tab changes.
WindowChanges ==
  /\ Strike
  /\ \/ /\ connections' \in SUBSET Conns /\ storeLoading' = FALSE
        /\ connID' = connID
     \/ connID' \in Conns \ {connID} /\ UNCHANGED <<connections, storeLoading>>
  /\ KeepKnown
  /\ UNCHANGED <<typed, running, rounds, waiting>>

Choose ==
  /\ \/ Use("all") /\ selectedConnIDs' = connections
     \/ Use("clear") /\ selectedConnIDs' = {}
     \/ /\ Use("check")
        /\ \E c \in connections :
             selectedConnIDs' \in {selectedConnIDs \cup {c}, selectedConnIDs \ {c}} \ {selectedConnIDs}
  /\ UNCHANGED <<connID, connections, storeLoading, initialized, typed, running, results,
                 rounds, waiting>>

Type ==
  /\ Use("type") /\ typed' = ~typed
  /\ UNCHANGED <<connID, connections, storeLoading, selectedConnIDs, initialized, running,
                 results, rounds, waiting>>

\* run up to its await: one call for each connection that is chosen.
run ==
  /\ Use("run")
  /\ running' = TRUE
  /\ rounds' = rounds + 1
  /\ results' = [c \in selectedConnections |-> "running"]
  /\ waiting' = [r \in DOMAIN waiting \cup {rounds'} |->
                  IF r = rounds' THEN selectedConnections ELSE waiting[r]]
  /\ UNCHANGED <<connID, connections, storeLoading, selectedConnIDs, initialized, typed>>

updateResult(c, status) ==
  results' = IF c \in DOMAIN results THEN [results EXCEPT ![c] = status] ELSE results

CommandEnds(r, c) ==
  /\ c \in waiting[r]
  /\ waiting' = [waiting EXCEPT ![r] = @ \ {c}]
  /\ updateResult(c, "success") \/ updateResult(c, "error")
  /\ UNCHANGED <<connID, connections, storeLoading, selectedConnIDs, initialized, typed,
                 running, rounds, strokes>>

\* What follows the await, once all have ended.
RunEnds(r) ==
  /\ waiting[r] = {}
  /\ waiting' = Restrict(waiting, DOMAIN waiting \ {r})
  /\ running' = FALSE
  /\ UNCHANGED <<connID, connections, storeLoading, selectedConnIDs, initialized, typed,
                 results, rounds, strokes>>

-----------------------------------------------------------------------------

BatchInit ==
  /\ connID \in Conns
  /\ connections \in SUBSET Conns
  /\ storeLoading \in BOOLEAN
  /\ initialized = (~storeLoading /\ connID \in connections)
  /\ selectedConnIDs = IF initialized THEN {connID} ELSE {}
  /\ typed = TRUE /\ running = FALSE
  /\ results = <<>> /\ rounds = 0 /\ waiting = <<>>
  /\ strokes = 0

BatchNext ==
  \/ WindowChanges \/ Choose \/ Type \/ run
  \/ \E r \in DOMAIN waiting : RunEnds(r) \/ \E c \in Conns : CommandEnds(r, c)

BatchSpec == BatchInit /\ [][BatchNext]_batchVars

-----------------------------------------------------------------------------

\* A row says that its command is running just as long as the call of the run shown is
\* unanswered, and no call outlives the run that waits for it, though the list of
\* connections and the choice change behind a run.
RowsOfRun ==
  /\ \A c \in DOMAIN results :
       results[c] = "running" <=> rounds \in DOMAIN waiting /\ c \in waiting[rounds]
  /\ ~running => DOMAIN waiting = {}

=============================================================================

------------------------------ MODULE MCWindow ------------------------------
(***************************************************************************)
(* The panels of a connection window for TLC: Files, Terminal, Batch and   *)
(* AIPanel, and the Storage of the backend.  The panels share nothing but  *)
(* the connection of the tab in front, so what one of them does tells no   *)
(* other: in a behaviour one part is used, and the others stay as they     *)
(* were opened.                                                            *)
(***************************************************************************)
EXTENDS Files, Terminal, Batch, AIPanel, Storage

VARIABLE used   \* the part that is used

MCFolders == {<<>>, <<"d">>}
MCPlain == {<<"f">>, <<"g">>}
MCBinary == {<<"g">>}

Interchangeable == Permutations(Conns) \cup Permutations(Jobs)

filesOwn == <<listVars, dialogVars, searchVars, tasks, jobs, hostVars, clicks>>
terminalOwn == <<inputVars, blockVars, sends, isRecording, runVars, taps>>
batchOwn == <<connections, storeLoading, selectedConnIDs, initialized, typed, running,
              results, rounds, waiting, strokes>>
aiOwn == <<loadVars, waits, busy, chatVars, toolVars, question, presses>>
windowVars == <<used, connID, filesOwn, terminalOwn, batchOwn, aiOwn, storageVars>>

\* A part that is not used is there in one way.
WindowInit ==
  /\ used \in {"files", "terminal", "batch", "ai", "storage"}
  /\ FilesInit /\ TermInit /\ BatchInit /\ AIPanelInit /\ StorageInit
  /\ used # "terminal" => view = "classic"
  /\ used # "batch" => storeLoading /\ connections = {}
  /\ used # "ai" => stored
  /\ used # "storage" => file = {}

UseFiles ==
  used = "files" /\ FilesNext /\ UNCHANGED <<used, terminalOwn, batchOwn, aiOwn, storageVars>>
UseTerminal ==
  used = "terminal" /\ TermNext /\ UNCHANGED <<used, filesOwn, batchOwn, aiOwn, storageVars>>
UseBatch ==
  used = "batch" /\ BatchNext /\ UNCHANGED <<used, filesOwn, terminalOwn, aiOwn, storageVars>>
UseAI ==
  used = "ai" /\ AIPanelNext /\ UNCHANGED <<used, filesOwn, terminalOwn, batchOwn, storageVars>>

UseStorage ==
  /\ used = "storage" /\ StorageNext
  /\ UNCHANGED <<used, connID, filesOwn, terminalOwn, batchOwn, aiOwn>>

WindowNext == UseFiles \/ UseTerminal \/ UseBatch \/ UseAI \/ UseStorage
WindowSpec == WindowInit /\ [][WindowNext]_windowVars
=============================================================================

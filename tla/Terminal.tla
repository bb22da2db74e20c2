----------------------------- MODULE Terminal -----------------------------
(***************************************************************************)
(* A terminal panel, components/ssh/terminal: the structured view with its *)
(* blocks, history, completion, search and recording over the classic view *)
(* and its shell.                                                          *)
(*                                                                         *)
(* A run is one run of the effect of ClassicTerminalView: it starts the    *)
(* shell of the session on a connection, and its cleanup closes it.  Both  *)
(* calls go to the backend without waiting for each other.  All runs of a  *)
(* panel have one session id.  A text is known by whether it is empty, a   *)
(* chunk of output by whether it ends in a prompt and has the word that is *)
(* searched for.  A setState takes effect at once.                         *)
(***************************************************************************)
EXTENDS Tab, Integers, Sequences, FiniteSets

CONSTANTS
  Blocks,     \* bound: blocks of the panel, in the order they are made
  Runs,       \* bound: runs of the effect, in the order they are made
  Taps,       \* bound: clicks, keys, changes of tab
  Offered     \* number of suggestions there are for the text that is typed

ASSUME TerminalAssumption ==
  /\ Blocks \in Nat /\ Runs \in Nat \ {0} /\ Taps \in Nat /\ Offered \in Nat
  /\ None \notin Conns /\ None # "ready" /\ None \notin 1 .. Blocks

VARIABLES
  view,
  command,    \* whether something is typed
  dialog,     \* what is open: none, history, menu, confirm
  blocks,     \* id, status and whether it matches the search
  active,     \* activeBlockIdRef
  made,       \* blocks made so far, the last id
  sends,      \* ids of the blocks whose line is on its way to the shell
  history,    \* number of commands in it
  cursor,     \* historyIndexRef
  find,       \* the search: visible, whether it has a query, activeIndex
  popup,      \* suggestions, selectedIndex and isVisible of the completion
  isRecording,
  runs,       \* connection, state of the start, state of the close, whether disposed
  shell,      \* s.sessions of the backend: the run whose shell a connection has
  open,       \* runs whose shell exists
  records,    \* terminalSessionsStore: status of the session, by connection
  taps        \* clicks, keys and changes of tab so far

inputVars == <<view, command, dialog, popup, history, cursor>>
blockVars == <<blocks, active, made, find>>
runVars == <<runs, shell, open, records>>
termVars == <<connID, inputVars, blockVars, sends, isRecording, runVars, taps>>

Live == {r \in DOMAIN runs : ~runs[r].disposed}
Mounted == Live # {}

-----------------------------------------------------------------------------
(* What can be clicked                                                     *)

Toolbar == {"view", "record", "history", "search", "clear"}
Composer == {"type", "submit", "tab", "up", "down", "escape", "cancel"}

TermOffers ==
  IF ~Mounted THEN {}
  ELSE IF dialog = "confirm" THEN {"yes", "no"}
  ELSE IF dialog = "history"
       THEN {"leave"} \cup IF history > 0 THEN {"pick", "execute"} ELSE {}
  ELSE Toolbar \cup {"menu"} \cup
       (IF dialog = "menu" THEN {"paste", "leave"} ELSE {}) \cup
       (IF view = "classic" THEN {"line"}
        ELSE Composer \cup (IF find.visible THEN {"query", "next", "previous", "close"} ELSE {})
                      \cup (IF blocks # <<>> THEN {"remove", "again"} ELSE {}))

Spend == taps < Taps /\ taps' = taps + 1
Tap(what) == what \in TermOffers /\ Spend

-----------------------------------------------------------------------------
(* Blocks (useBlockManager.ts) and their search (useTerminalSearch.ts)     *)

Results(bs, query) == IF query THEN {n \in DOMAIN bs : bs[n].hit} ELSE {}
Running == {n \in DOMAIN blocks : blocks[n].id = active}

\* Fault: the effect depends on the query alone.
ReindexByQuery(bs, f) ==
  IF f.query = find.query THEN f
  ELSE [f EXCEPT !.index = IF Results(bs, f.query) # {} THEN 0 ELSE -1]

\* The effect on the number of results and the query.
Reindex(bs, f) ==
  IF /\ Cardinality(Results(bs, f.query)) = Cardinality(Results(blocks, find.query))
     /\ f.query = find.query
  THEN f
  ELSE [f EXCEPT !.index = IF Results(bs, f.query) # {} THEN 0 ELSE -1]

SetBlocks(bs) == blocks' = bs /\ find' = Reindex(bs, find)
Block(id, status, hit) == [id |-> id, status |-> status, hit |-> hit]

\* registerCommand: a block that is active already stays as it is.
registerCommand ==
  /\ made < Blocks
  /\ made' = made + 1
  /\ active' = made'
  /\ SetBlocks(Append(blocks, Block(made', "running", FALSE)))
  /\ history' = history + 1

\* Fault: a prompt leaves the block active.
appendOutputOn(prompt, hit) ==
  /\ IF Running = {}
     THEN /\ made < Blocks /\ made' = made + 1
          /\ SetBlocks(Append(blocks, Block(made', "success", hit)))
     ELSE LET n == CHOOSE k \in Running : TRUE
              end == IF prompt /\ blocks[n].status # "cancelled" THEN "success"
                     ELSE blocks[n].status IN
          /\ SetBlocks([blocks EXCEPT ![n] = Block(active, end, @.hit \/ hit)])
          /\ UNCHANGED made
  /\ UNCHANGED active

\* Output goes to the active block, or to a new one if that is gone.
appendOutput(prompt, hit) ==
  /\ IF Running = {}
     THEN /\ made < Blocks /\ made' = made + 1
          /\ SetBlocks(Append(blocks, Block(made', "success", hit)))
          /\ UNCHANGED active
     ELSE LET n == CHOOSE k \in Running : TRUE
              end == IF prompt /\ blocks[n].status # "cancelled" THEN "success"
                     ELSE blocks[n].status IN
          /\ SetBlocks([blocks EXCEPT ![n] = Block(active, end, @.hit \/ hit)])
          /\ active' = IF prompt THEN None ELSE active
          /\ UNCHANGED made

WithStatus(s) == [n \in DOMAIN blocks |->
                    IF n \in Running THEN [blocks[n] EXCEPT !.status = s] ELSE blocks[n]]

removeBlock(n) ==
  /\ Tap("remove")
  /\ SetBlocks(SubSeq(blocks, 1, n - 1) \o SubSeq(blocks, n + 1, Len(blocks)))
  /\ UNCHANGED <<connID, inputVars, active, made, sends, isRecording, runVars>>

\* Next and previous go round.
Browse ==
  LET count == Cardinality(Results(blocks, find.query)) IN
  /\ count > 0
  /\ \/ Tap("next") /\ find' = [find EXCEPT !.index = (@ + 1) % count]
     \/ Tap("previous") /\ find' = [find EXCEPT !.index = (@ - 1 + count) % count]
  /\ UNCHANGED <<connID, inputVars, blocks, active, made, sends, isRecording, runVars>>

\* The search starts with what is typed, unless it has a query already.
OpenOrCloseSearch ==
  /\ \/ /\ Tap("search")
        /\ find' = Reindex(blocks, [find EXCEPT !.visible = TRUE, !.query = @ \/ command])
     \/ Tap("close") /\ find' = [find EXCEPT !.visible = FALSE]
  /\ dialog' = "none"
  /\ UNCHANGED <<connID, view, command, popup, history, cursor, blocks, active, made, sends,
                 isRecording, runVars>>

\* Another word is typed in the search bar, or none.
handleSearchChange ==
  /\ Tap("query")
  /\ find' = Reindex(blocks, [find EXCEPT !.query = ~@])
  /\ UNCHANGED <<connID, inputVars, blocks, active, made, sends, isRecording, runVars>>

-----------------------------------------------------------------------------
(* The line that is typed (useCommandHistory.ts, useCommandCompletion.ts)  *)

NoPopup == [count |-> 0, index |-> 0, visible |-> FALSE]

handleInputChange ==
  /\ Tap("type")
  /\ command' \in BOOLEAN
  /\ UNCHANGED <<connID, view, dialog, popup, history, cursor, blockVars, sends, isRecording,
                 runVars>>

\* Tab takes the selected suggestion, or asks for some: one is taken, several are shown.
Complete ==
  /\ Tap("tab")
  /\ \/ popup.visible /\ popup' = NoPopup /\ command' = TRUE
     \/ /\ ~popup.visible
        /\ \E n \in IF command THEN 0 .. Offered ELSE {0} :
             popup' = IF n < 2 THEN NoPopup ELSE [count |-> n, index |-> 0, visible |-> TRUE]
        /\ UNCHANGED command
  /\ UNCHANGED <<connID, view, dialog, history, cursor, blockVars, sends, isRecording, runVars>>

\* The arrow keys go through the suggestions while they are shown, else through the
\* history, whose cursor is -1 on the line that is typed.
Arrows ==
  /\ \/ /\ popup.visible
        /\ \/ Tap("up") /\ popup' = [popup EXCEPT !.index = (@ - 1 + popup.count) % popup.count]
           \/ Tap("down") /\ popup' = [popup EXCEPT !.index = (@ + 1) % popup.count]
        /\ UNCHANGED <<command, cursor>>
     \/ /\ ~popup.visible /\ history > 0 /\ Tap("up")
        /\ cursor' = IF cursor = -1 THEN history - 1 ELSE IF cursor > 0 THEN cursor - 1 ELSE 0
        /\ command' = TRUE
        /\ UNCHANGED popup
     \/ /\ ~popup.visible /\ cursor # -1 /\ Tap("down")
        /\ cursor' = IF cursor < history - 1 THEN cursor + 1 ELSE -1
        /\ command' = TRUE
        /\ UNCHANGED popup
  /\ UNCHANGED <<connID, view, dialog, history, blockVars, sends, isRecording, runVars>>

Escape ==
  /\ Tap("escape")
  /\ popup' = NoPopup
  /\ find' = [find EXCEPT !.visible = FALSE]
  /\ UNCHANGED <<connID, view, command, dialog, history, cursor, blocks, active, made,
                 sends, isRecording, runVars>>

\* submitStructuredCommand up to its await, by a key, the Send button or the history.
submitStructuredCommand ==
  /\ (command /\ Tap("submit")) \/ Tap("execute")
  /\ registerCommand /\ cursor' = -1
  /\ sends' = sends \cup {made'}
  /\ command' = TRUE /\ dialog' = "none"
  /\ UNCHANGED <<connID, view, popup, isRecording, runVars>>

Sent(b) ==
  /\ b \in sends /\ sends' = sends \ {b}
  /\ command' = FALSE /\ cursor' = -1 /\ popup' = NoPopup
  /\ UNCHANGED <<connID, view, dialog, history, blockVars, isRecording, runVars, taps>>

\* The block that fails is the one that is active by then.
SendFails(b) ==
  /\ b \in sends /\ sends' = sends \ {b}
  /\ SetBlocks(WithStatus("failed")) /\ active' = None
  /\ UNCHANGED <<connID, inputVars, made, isRecording, runVars, taps>>

\* Ctrl+C: the block stays active until its prompt comes.
cancelCommand ==
  /\ Tap("cancel")
  /\ SetBlocks(WithStatus("cancelled"))
  /\ command' = FALSE /\ cursor' = -1
  /\ UNCHANGED <<connID, view, dialog, popup, history, active, made, sends, isRecording, runVars>>

\* A line typed in the classic view.
handleClassicCommand ==
  /\ Tap("line")
  /\ registerCommand /\ cursor' = -1
  /\ UNCHANGED <<connID, view, command, dialog, popup, sends, isRecording, runVars>>

-----------------------------------------------------------------------------
(* Views, dialogs, recording                                               *)

SwitchView ==
  /\ Tap("view")
  /\ view' = IF view = "classic" THEN "structured" ELSE "classic"
  /\ UNCHANGED <<connID, command, dialog, popup, history, cursor, blockVars, sends, isRecording,
                 runVars>>

Pick ==
  /\ \/ Tap("pick") /\ view' = view
     \/ Tap("again") /\ view' = "structured"
     \/ Tap("paste") /\ view' = view
  /\ command' = (command \/ view' = "structured")
  /\ dialog' = "none"
  /\ UNCHANGED <<connID, popup, history, cursor, blockVars, sends, isRecording, runVars>>

OpenOrLeaveDialog ==
  /\ \/ Tap("history") /\ dialog' = "history"
     \/ Tap("menu") /\ dialog' = "menu"
     \/ Tap("clear") /\ dialog' = "confirm"
     \/ (Tap("leave") \/ Tap("no")) /\ dialog' = "none"
  /\ UNCHANGED <<connID, view, command, popup, history, cursor, blockVars, sends, isRecording,
                 runVars>>

handleClear ==
  /\ Tap("yes")
  /\ blocks' = <<>> /\ active' = None
  /\ find' = [visible |-> FALSE, query |-> FALSE, index |-> -1]
  /\ popup' = NoPopup /\ cursor' = -1 /\ command' = FALSE /\ dialog' = "none"
  /\ UNCHANGED <<connID, view, history, made, sends, isRecording, runVars>>

toggleRecording ==
  /\ Tap("record")
  /\ isRecording' = ~isRecording
  /\ UNCHANGED <<connID, inputVars, blockVars, sends, runVars>>

-----------------------------------------------------------------------------
(* The shell (ClassicTerminalView.tsx)                                     *)

NewRun(c) == [conn |-> c, start |-> "asked", close |-> "none", disposed |-> FALSE]
Disposed(r) == [r EXCEPT !.disposed = TRUE, !.close = "asked"]
Record(c, s) == records' = [records EXCEPT ![c] = s]

\* The cleanup of the run, and the next one: another tab, or another font size.
Restart(c) ==
  /\ Mounted /\ Len(runs) < Runs /\ Spend
  /\ connID' = c
  /\ runs' = Append([r \in DOMAIN runs |->
                       IF r \in Live THEN Disposed(runs[r]) ELSE runs[r]], NewRun(c))
  /\ records' = [records EXCEPT ![connID] = None, ![c] = "starting"]
  /\ UNCHANGED <<inputVars, blockVars, sends, isRecording, shell, open>>

ClosePanel ==
  /\ Mounted /\ Spend
  /\ runs' = [r \in DOMAIN runs |-> IF r \in Live THEN Disposed(runs[r]) ELSE runs[r]]
  /\ Record(connID, None)
  /\ UNCHANGED <<connID, inputVars, blockVars, sends, isRecording, shell, open>>

StartGoes(r, from, to) ==
  /\ runs[r].start = from
  /\ runs' = [runs EXCEPT ![r].start = to]
  /\ UNCHANGED <<connID, inputVars, blockVars, sends, isRecording, taps>>

\* CreateShell of the backend closes the shell that has the id of the session, makes
\* another one, and enters that.
CloseShell(c) ==
  /\ open' = open \ {shell[c]}
  /\ shell' = [shell EXCEPT ![c] = None]

CreateShell(r) ==
  /\ StartGoes(r, "asked", "making")
  /\ CloseShell(runs[r].conn)
  /\ UNCHANGED records

EnterShell(r) ==
  /\ StartGoes(r, "making", "made")
  /\ open' = open \cup {r}
  /\ shell' = [shell EXCEPT ![runs[r].conn] = r]
  /\ UNCHANGED records

\* The call fails, or resizeTerminal after it: the handler does not look at disposed.
StartFails(r) ==
  /\ \E at \in {"asked", "making", "made"} : StartGoes(r, at, "failed")
  /\ Record(runs[r].conn, "error")
  /\ UNCHANGED <<shell, open>>

\* Fault: a start that was given up is recorded all the same.
ReadyAlways(r) ==
  /\ StartGoes(r, "made", "ready")
  /\ Record(runs[r].conn, "ready")
  /\ UNCHANGED <<shell, open>>

Ready(r) ==
  /\ StartGoes(r, "made", "ready")
  /\ IF runs[r].disposed THEN UNCHANGED records
     ELSE Record(runs[r].conn, "ready")
  /\ UNCHANGED <<shell, open>>

closeShellSession(r) ==
  /\ runs[r].close = "asked"
  /\ runs' = [runs EXCEPT ![r].close = "done"]
  /\ CloseShell(runs[r].conn)
  /\ UNCHANGED <<connID, inputVars, blockVars, sends, isRecording, records, taps>>

\* ssh:terminal-output; the panel leaves out what is not of its connection and session.
TerminalOutput ==
  /\ Mounted /\ shell[connID] # None
  /\ \E prompt, hit \in BOOLEAN : appendOutput(prompt, hit)
  /\ UNCHANGED <<connID, inputVars, sends, isRecording, runVars, taps>>

-----------------------------------------------------------------------------

TermInit ==
  /\ connID \in Conns
  /\ view \in {"classic", "structured"} /\ command = FALSE /\ dialog = "none"
  /\ blocks = <<>> /\ active = None /\ made = 0 /\ sends = {}
  /\ history = 0 /\ cursor = -1
  /\ find = [visible |-> FALSE, query |-> FALSE, index |-> -1]
  /\ popup = NoPopup
  /\ isRecording = FALSE
  /\ runs = <<NewRun(connID)>>
  /\ shell = [c \in Conns |-> None] /\ open = {}
  /\ records = [c \in Conns |-> IF c = connID THEN "starting" ELSE None]
  /\ taps = 0

TermNext ==
  \/ handleInputChange \/ Complete \/ Arrows \/ Escape \/ submitStructuredCommand
  \/ cancelCommand \/ handleClassicCommand \/ SwitchView \/ Pick \/ OpenOrLeaveDialog
  \/ handleClear \/ toggleRecording \/ Browse \/ OpenOrCloseSearch \/ handleSearchChange
  \/ \E n \in DOMAIN blocks : removeBlock(n)
  \/ \E b \in sends : Sent(b) \/ SendFails(b)
  \/ \E c \in Conns : Restart(c)
  \/ ClosePanel
  \/ \E r \in DOMAIN runs : CreateShell(r) \/ EnterShell(r) \/ StartFails(r) \/ Ready(r)
                              \/ closeShellSession(r)
  \/ TerminalOutput

TermSpec == TermInit /\ [][TermNext]_termVars

-----------------------------------------------------------------------------

\* A session that the store calls ready is mounted on that connection, and has been told
\* that its shell has started, though answers to earlier starts come late.
ReadyIsMounted ==
  \A c \in Conns : records[c] = "ready" =>
    \E r \in Live : runs[r].conn = c /\ runs[r].start = "ready"

\* The history cursor, the selected suggestion and the search hit in view stay within
\* lists that grow and shrink behind them.
CursorsInBounds ==
  /\ cursor \in -1 .. history - 1
  /\ popup.visible => popup.index \in 0 .. popup.count - 1
  /\ find.index \in -1 .. Cardinality(Results(blocks, find.query)) - 1

\* A block that has ended is never written to again, by output, by a late failure of a
\* send or by a cancel.
EndedBlocksKept ==
  [][\A m \in DOMAIN blocks, n \in DOMAIN blocks' :
       /\ blocks[m].id = blocks'[n].id
       /\ blocks[m].status \in {"success", "failed"}
       => blocks'[n] = blocks[m]]_termVars

=============================================================================

----------------------------- MODULE Workspace -----------------------------
(***************************************************************************)
(* A connection window: its tabs (SSHWorkspace.tsx), the panels under the  *)
(* tab in front (layout/DockviewWorkspace.tsx, panelRegistry.tsx,          *)
(* PanelContextMenu.tsx), and the tools that the AI runs in it             *)
(* (ai/hooks/useAIToolExecution.ts, lib/aiToolExecutor.ts).                *)
(*                                                                         *)
(* The tab in front decides on connID; every panel of the window is given  *)
(* it, and a terminal starts anew.  An event is on its way between the     *)
(* emit and the handler, an errand is a handler of the tabs that waits for *)
(* an answer.  Of a terminal of the AI its session and its last start are  *)
(* kept; the session of another one is in Terminal.                        *)
(***************************************************************************)
EXTENDS Tab, Integers, Sequences, FiniteSets, SequencesExt

CONSTANTS
  Tools,     \* ids of the tool calls of the AI
  Errands,   \* bound: handlers of the tabs that wait at a time
  Acts       \* bound: clicks, tool calls, changes of the group, failures

ASSUME WorkspaceAssumption == Acts \in Nat /\ None \notin Conns \cup Tools

VARIABLES
  group,         \* connections that GetGroupConnectionInfos has in the group
  stuck,         \* whether s.mu is kept for ever
  telling,       \* whether the goroutine that tells of the group still goes round
  news,          \* a group-updated event on its way, or None
  tabs,          \* connections of SSHWorkspace
  activeConnID,  \* that of the address of the window, or None
  activeID,
  errands,
  panels,        \* type, conn, isAI, session and start of each
  starts,        \* AI terminals whose start is not answered
  sessions,      \* terminalSessionsStore, sessions of the AI
  made,          \* starts so far
  requests,      \* pendingOpenRequestsRef: connection and call of each
  tools,         \* how far each tool call is
  wires,         \* open-terminal, close-terminal and session-ready events on their way
  acts

backendVars == <<stuck, telling>>
tabVars == <<group, backendVars, news, tabs, activeConnID, activeID, errands>>
panelVars == <<panels, starts, sessions, made>>
aiVars == <<requests, tools, wires>>
workspaceVars == <<connID, tabVars, panelVars, aiVars, acts>>

NoErrand == [kind |-> None, step |-> None, target |-> None, tabs |-> <<>>, active |-> None,
             list |-> <<>>]

Act == acts < Acts /\ acts' = acts + 1

\* The question of closeConnection keeps the clicks.
Asked == \E e \in Errands : errands[e].step = "confirm"

-----------------------------------------------------------------------------
(* Panels                                                                  *)

activeConnection(cs, a) ==
  IF a \in ToSet(cs) THEN a ELSE IF cs = <<>> THEN None ELSE cs[1]

HasAI(ps) == \E n \in DOMAIN ps : ps[n].type = "ai"
Terminals(ps) == {p \in ToSet(ps) : p.isAI}
Session(p) == [conn |-> p.conn, id |-> p.session]

Panel(type, c) == [type |-> type, conn |-> c, isAI |-> FALSE, session |-> 0, start |-> 0]
AITerminal(c, n) ==
  [type |-> "terminal", conn |-> c, isAI |-> TRUE, session |-> n, start |-> n]

\* The panels become ps: a terminal that is gone or has moved ends its session, one that
\* is new or has moved begins one.
Arrange(ps) ==
  LET gone == Terminals(panels) \ Terminals(ps)
      new == Terminals(ps) \ Terminals(panels) IN
  /\ panels' = ps
  /\ sessions' = (sessions \ {Session(p) : p \in gone}) \cup {Session(p) : p \in new}
  /\ starts' = starts \cup new
  /\ made' = made + Cardinality(new)

\* The cleanup of useAIToolExecution: every request is answered with null.
Resolve(waiting) ==
  tools' = [t \in Tools |-> IF \E n \in DOMAIN waiting : waiting[n].call = t
                            THEN "submit" ELSE tools[t]]
DropRequests == requests' = <<>> /\ Resolve(requests)

KeepRequests == UNCHANGED <<requests, tools>>

\* updateConnectionForPanels.
Moved(c) ==
  [n \in DOMAIN panels |-> [panels[n] EXCEPT !.conn = c,
     !.start = IF panels[n].isAI
               THEN made + Cardinality({m \in 1 .. n : panels[m].isAI}) ELSE @]]

\* A render of the tabs, and what follows when another connection comes in front.
Render(cs, a) ==
  /\ tabs' = cs /\ activeID' = a
  /\ connID' = activeConnection(cs, a)
  /\ IF connID' = connID THEN UNCHANGED panelVars /\ KeepRequests
     ELSE /\ DropRequests
          /\ Arrange(CASE connID' = None -> <<>>
                       [] connID = None -> <<Panel("terminal", connID')>>
                       [] OTHER -> Moved(connID'))

\* openPanel, by a button of the sidebar; there is one panel of each type other than
\* terminal, of which the AI's is kept.  The context menu of a terminal makes one too.
\* To open the panel of the AI is not counted.
openPanel(type) ==
  /\ connID # None /\ ~Asked
  /\ IF type = "ai" THEN UNCHANGED acts ELSE Act
  /\ Arrange(IF type = "ai" /\ HasAI(panels) THEN panels
             ELSE Append(panels, Panel(type, connID)))
  /\ UNCHANGED <<connID, tabVars, aiVars>>

\* A panel is closed, all others, all of its type, or all.
ClosePanels ==
  /\ ~Asked /\ Act
  /\ \E n \in DOMAIN panels :
       \E stay \in {DOMAIN panels \ {n}, {n}, {},
                    {m \in DOMAIN panels : panels[m].type # panels[n].type}} :
         \E place \in [1 .. Cardinality(stay) -> stay] :
           LET ps == [m \in DOMAIN place |-> panels[place[m]]] IN
           /\ \A m \in 2 .. Cardinality(stay) : place[m - 1] < place[m]
           /\ Arrange(ps)
           /\ IF HasAI(ps) THEN KeepRequests ELSE DropRequests
  /\ UNCHANGED <<connID, tabVars, wires>>

\* The start of a shell is answered: a panel that is still on it tells of its session.
ShellStarts(p) ==
  /\ starts' = starts \ {p}
  /\ wires' = IF p \in Terminals(panels)
              THEN wires \cup {[what |-> "ready", conn |-> p.conn, session |-> p.session]}
              ELSE wires
  /\ UNCHANGED <<connID, tabVars, panels, sessions, made, requests, tools, acts>>

\* A start that fails leaves a session in the store, of a panel that is gone too.
ShellFails(p) ==
  /\ starts' = starts \ {p}
  /\ sessions' = sessions \cup {Session(p)}
  /\ UNCHANGED <<connID, tabVars, panels, made, aiVars, acts>>

-----------------------------------------------------------------------------
(* Tabs                                                                    *)

Send(e, kind, step, target, shown, active) ==
  /\ errands[e] = NoErrand
  /\ errands' = [errands EXCEPT ![e] = [kind |-> kind, step |-> step, target |-> target,
                                        tabs |-> shown, active |-> active, list |-> <<>>]]
GoTo(e, step) == errands' = [errands EXCEPT ![e].step = step]
Finish(e) == errands' = [errands EXCEPT ![e] = NoErrand]

SelectTab(c) ==
  /\ c \in ToSet(tabs) /\ c # activeID /\ ~Asked /\ Act
  /\ Render(tabs, c)
  /\ UNCHANGED <<group, backendVars, news, activeConnID, errands, wires>>

\* closeConnection, which asks, and reconnect; the button of an empty window.
TabErrand(e) ==
  /\ ~Asked /\ Act
  /\ \/ \E c \in ToSet(tabs) : \/ Send(e, "close", "confirm", c, tabs, activeID)
                               \/ Send(e, "reconnect", "call", c, <<>>, activeID)
     \/ connID = None /\ Send(e, "load", "fetch", None, <<>>, activeID)
  /\ UNCHANGED <<connID, group, backendVars, news, tabs, activeConnID, activeID, panelVars,
                 aiVars>>

AnswerErrand(e) ==
  /\ errands[e].step = "confirm"
  /\ GoTo(e, "call") \/ Finish(e)
  /\ UNCHANGED <<connID, group, backendVars, news, tabs, activeConnID, activeID, panelVars,
                 aiVars, acts>>

\* Disconnect leaves a connection that has no client alone.  Of one that has, the record
\* goes unless it is saved; the group keeps its id, and tells of those with a record.  If
\* any record is left then, Disconnect blocks itself under its own lock.
Disconnected(e) ==
  /\ errands[e].kind = "close" /\ errands[e].step = "call" /\ ~stuck
  /\ \/ GoTo(e, "fetch") /\ UNCHANGED <<group, stuck>>
     \/ /\ group' \in {group, Remove(group, errands[e].target)}
        /\ \/ stuck' = TRUE /\ Finish(e)
           \/ group' = <<>> /\ GoTo(e, "fetch") /\ UNCHANGED stuck
  /\ UNCHANGED <<connID, telling, news, tabs, activeConnID, activeID, panelVars, aiVars, acts>>

\* A Reconnect that went well.
Reconnected(e) ==
  /\ errands[e].kind = "reconnect" /\ errands[e].step = "call" /\ ~stuck
  /\ GoTo(e, "fetch")
  /\ UNCHANGED <<connID, group, backendVars, news, tabs, activeConnID, activeID, panelVars,
                 aiVars, acts>>

\* A Reconnect is refused, or a call is never answered: it waits for s.mu, or for the
\* handshake of ssh.Dial, which has no deadline.  A handler that waits for ever is none.
CallLost(e) ==
  /\ errands[e].step = "call"
  /\ errands[e].kind = "reconnect" \/ stuck
  /\ Finish(e)
  /\ UNCHANGED <<connID, group, backendVars, news, tabs, activeConnID, activeID, panelVars,
                 aiVars, acts>>

\* load asks the backend; the answer waits for its turn.
Fetch(e) ==
  /\ errands[e].step = "fetch"
  /\ errands' = [errands EXCEPT ![e].step = "got", ![e].list = group]
  /\ UNCHANGED <<connID, group, backendVars, news, tabs, activeConnID, activeID, panelVars,
                 aiVars, acts>>

\* closeConnection goes by the tabs and the activeID that were shown when it was made.
NextActive(errand, loaded) ==
  LET rest == Remove(errand.tabs, errand.target) IN
  IF errand.kind # "close" \/ errand.active # errand.target THEN loaded
  ELSE IF rest = <<>> THEN None ELSE rest[1]

\* What follows the await of load, and then that of closeConnection.
Fetched(e) ==
  LET errand == errands[e] IN
  /\ errand.step = "got"
  /\ Render(errand.list,
            NextActive(errand, IF errand.active = None /\ errand.list # <<>>
                               THEN errand.list[1] ELSE activeID))
  /\ Finish(e)
  /\ UNCHANGED <<group, backendVars, news, activeConnID, wires, acts>>

\* load shows the error and returns.
FetchFails(e) ==
  /\ errands[e].step = "fetch" /\ Act
  /\ Render(tabs, NextActive(errands[e], activeID))
  /\ Finish(e)
  /\ UNCHANGED <<group, backendVars, news, activeConnID, wires>>

\* A goroutine tells of the group every 500 ms and then calls GetAllConnections, where it
\* stays once s.mu is kept.
Announce ==
  /\ telling /\ telling' \in {TRUE, ~stuck}
  /\ news = None /\ news' = group
  /\ UNCHANGED <<connID, group, stuck, tabs, activeConnID, activeID, errands, panelVars,
                 aiVars, acts>>

\* Fault: an empty list is ignored.
HearSomeNews ==
  /\ news # None /\ news' = None
  /\ IF news # <<>> THEN Render(news, activeID)
     ELSE UNCHANGED <<connID, tabs, activeID, panelVars, requests, tools>>
  /\ UNCHANGED <<group, backendVars, activeConnID, errands, wires, acts>>

\* An empty list, which comes as null, is asked for once more.  That load was made with
\* the activeID of the first render.
HearNews ==
  /\ news # None /\ news' = None
  /\ \/ /\ news # <<>> /\ Render(news, activeID)
        /\ UNCHANGED errands
     \/ /\ news = <<>>
        /\ \E e \in Errands : Send(e, "load", "fetch", None, <<>>, activeConnID)
        /\ UNCHANGED <<connID, tabs, activeID, panelVars, requests, tools>>
  /\ UNCHANGED <<group, backendVars, activeConnID, wires, acts>>

\* A Disconnect of another window blocks itself, or a writer waits behind a command that
\* never ends.
LockKept ==
  /\ ~stuck /\ Act /\ stuck' = TRUE
  /\ UNCHANGED <<connID, group, telling, news, tabs, activeConnID, activeID, errands, panelVars,
                 aiVars>>

\* Other windows, and the server's end.
GroupChanges ==
  /\ Act
  /\ group' \in {Append(group, c) : c \in Conns \ ToSet(group)}
               \cup {Remove(group, c) : c \in ToSet(group)}
  /\ UNCHANGED <<connID, backendVars, news, tabs, activeConnID, activeID, errands, panelVars,
                 aiVars>>

-----------------------------------------------------------------------------
(* Tools of the AI                                                         *)

Emit(what, session) ==
  wires' = wires \cup {[what |-> what, conn |-> connID, session |-> session]}

scheduleOpenTerminal(call) ==
  /\ requests' = Append(requests, [conn |-> connID, call |-> call])
  /\ Emit("open", 0)

AISessions == {s \in sessions : s.conn = connID}

\* Without a session and without a request there is one that nobody waits for.
ensureTerminal ==
  IF AISessions # {} \/ requests # <<>> THEN UNCHANGED <<requests, wires>>
  ELSE scheduleOpenTerminal(None)

closeTerminal ==
  IF AISessions = {} THEN UNCHANGED wires
  ELSE \E s \in AISessions : Emit("close", s.id)

\* ai:execute-tool of the connection in front: open_terminal waits for a session,
\* close_terminal does not, and the others run a command.
executeAITool(t) ==
  /\ HasAI(panels) /\ tools[t] = "idle" /\ Act
  /\ \/ scheduleOpenTerminal(t) /\ tools' = [tools EXCEPT ![t] = "open"]
     \/ closeTerminal /\ tools' = [tools EXCEPT ![t] = "submit"] /\ UNCHANGED requests
     \/ ensureTerminal /\ tools' = [tools EXCEPT ![t] = "run"]
  /\ UNCHANGED <<connID, tabVars, panelVars>>

\* The buttons of the AI panel.
AIButton ==
  /\ HasAI(panels) /\ ~Asked /\ Act
  /\ \/ scheduleOpenTerminal("button")
     \/ closeTerminal /\ UNCHANGED requests
  /\ UNCHANGED <<connID, tabVars, panelVars, tools>>

\* The command comes back, which no timeout sees to.
runRemoteCommand(t) ==
  /\ tools[t] = "run"
  /\ tools' = [tools EXCEPT ![t] = "submit"]
  /\ UNCHANGED <<connID, tabVars, panelVars, requests, wires, acts>>

\* Fault: the request that runs out is not answered.
RequestForgotten(n) ==
  /\ requests[n].call # None
  /\ requests' = RemoveAt(requests, n)
  /\ UNCHANGED <<connID, tabVars, panelVars, tools, wires, acts>>

\* Twelve seconds after a request that somebody waits for.
RequestTimeout(n) ==
  /\ requests[n].call # None
  /\ requests' = RemoveAt(requests, n)
  /\ Resolve(<<requests[n]>>)
  /\ UNCHANGED <<connID, tabVars, panelVars, wires, acts>>

\* The result is submitted; if that fails, an error is, once.
SubmitToolResult(t) ==
  /\ tools[t] \in {"submit", "again"}
  /\ \/ tools' = [tools EXCEPT ![t] = "done"] /\ UNCHANGED acts
     \/ Act /\ tools' = [tools EXCEPT ![t] = IF @ = "submit" THEN "again" ELSE "lost"]
  /\ UNCHANGED <<connID, tabVars, panelVars, requests, wires>>

\* Fault: a terminal is opened on the connection that the event names.
HearWireOfAll(w) ==
  LET shown == {n \in DOMAIN panels : panels[n].isAI /\ panels[n].session = w.session} IN
  /\ wires' = wires \ {w}
  /\ CASE w.conn # connID /\ w.what # "open" -> UNCHANGED panelVars /\ KeepRequests
       [] w.what = "open" ->
            Arrange(Append(panels, AITerminal(w.conn, made + 1))) /\ KeepRequests
       [] w.conn = connID /\ w.what = "close" ->
            /\ KeepRequests
            /\ Arrange(IF shown = {} THEN panels
                       ELSE RemoveAt(panels, CHOOSE n \in shown : TRUE))
       [] OTHER ->
            /\ IF HasAI(panels) /\ requests # <<>>
               THEN requests' = Tail(requests) /\ Resolve(<<Head(requests)>>)
               ELSE KeepRequests
            /\ UNCHANGED panelVars
  /\ UNCHANGED <<connID, tabVars, acts>>

\* The handlers of DockviewWorkspace and of useAIToolExecution look at the connection;
\* a session that is ready goes to the oldest request.
HearWire(w) ==
  LET shown == {n \in DOMAIN panels : panels[n].isAI /\ panels[n].session = w.session} IN
  /\ wires' = wires \ {w}
  /\ CASE w.conn # connID -> UNCHANGED panelVars /\ KeepRequests
       [] w.conn = connID /\ w.what = "open" ->
            Arrange(Append(panels, AITerminal(connID, made + 1))) /\ KeepRequests
       [] w.conn = connID /\ w.what = "close" ->
            /\ KeepRequests
            /\ Arrange(IF shown = {} THEN panels
                       ELSE RemoveAt(panels, CHOOSE n \in shown : TRUE))
       [] OTHER ->
            /\ IF HasAI(panels) /\ requests # <<>>
               THEN requests' = Tail(requests) /\ Resolve(<<Head(requests)>>)
               ELSE KeepRequests
            /\ UNCHANGED panelVars
  /\ UNCHANGED <<connID, tabVars, acts>>

-----------------------------------------------------------------------------

WorkspaceInit ==
  /\ group \in {SetToSeq(C) : C \in SUBSET Conns \ {{}}} /\ news = None
  /\ stuck = FALSE /\ telling = TRUE
  /\ tabs = <<>> /\ activeConnID \in {None, Last(group)} /\ activeID = activeConnID
  /\ connID = None
  /\ \E e \in Errands :
       errands = [x \in Errands |->
         IF x # e THEN NoErrand
         ELSE [NoErrand EXCEPT !.kind = "load", !.step = "fetch", !.active = activeConnID]]
  /\ panels = <<>> /\ starts = {} /\ sessions = {} /\ made = 0
  /\ requests = <<>> /\ tools = [t \in Tools |-> "idle"] /\ wires = {}
  /\ acts = 0

WindowActs ==
  \/ \E e \in Errands : TabErrand(e) \/ AnswerErrand(e) \/ FetchFails(e)
  \/ \E c \in Conns : SelectTab(c)
  \/ \E type \in {"terminal", "ai"} : openPanel(type)
  \/ ClosePanels \/ AIButton \/ GroupChanges \/ LockKept
  \/ \E p \in starts : ShellFails(p)
  \/ \E t \in Tools : executeAITool(t)

ErrandGoesOn(e) ==
  Disconnected(e) \/ Reconnected(e) \/ CallLost(e) \/ Fetch(e) \/ Fetched(e)
NewsGoOn == Announce \/ HearNews

WorkspaceNext ==
  \/ WindowActs
  \/ \E e \in Errands : ErrandGoesOn(e)
  \/ NewsGoOn
  \/ \E t \in Tools : runRemoteCommand(t) \/ SubmitToolResult(t)
  \/ \E n \in DOMAIN requests : RequestTimeout(n)
  \/ \E p \in starts : ShellStarts(p)
  \/ \E w \in wires : HearWire(w)

\* Loads and submits are answered, timers run out, and the backend goes on telling of the
\* group as long as it can.  No command need end, and no call of a tab be answered.
WorkspaceSpec ==
  /\ WorkspaceInit /\ [][WorkspaceNext]_workspaceVars
  /\ \A e \in Errands : WF_workspaceVars(ErrandGoesOn(e))
  /\ WF_workspaceVars(NewsGoOn)
  /\ \A t \in Tools : WF_workspaceVars(SubmitToolResult(t))
  /\ WF_workspaceVars(\E n \in DOMAIN requests : RequestTimeout(n))

-----------------------------------------------------------------------------

\* Every panel of the window is on the connection of the tab in front, in whatever order
\* tabs go, terminals are opened by events and lists of the group come in.
PanelsFollowTab == \A n \in DOMAIN panels : panels[n].conn = connID

\* A request for a terminal is one of the tab in front, made by a panel that is still
\* there to get the answer.
RequestsOfTab ==
  requests # <<>> => HasAI(panels) /\ \A n \in DOMAIN requests : requests[n].conn = connID

\* The result of a tool call that the panel has taken on is submitted, though its terminal
\* may fail and its request be dropped by a change of tab; unless its command never comes
\* back, or the submit of the result and that of the error both fail.
ToolsAnswered ==
  \A t \in Tools : \/ <>[](tools[t] = "run")
                   \/ (tools[t] # "idle") ~> (tools[t] \in {"done", "lost"})

\* The tabs catch up with the group, the last tab of a group included, unless s.mu is kept
\* for ever.
TabsCatchUp == <>stuck \/ <>[](ToSet(tabs) = ToSet(group))

=============================================================================

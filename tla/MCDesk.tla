------------------------------- MODULE MCDesk -------------------------------
(***************************************************************************)
(* The tabs and panels of a connection window, the panels that poll, and   *)
(* the home window, for TLC: Workspace, Polled and Home.  They share only  *)
(* the connection of the tab in front, so in a behaviour one of them is    *)
(* used and the others rest.                                               *)
(***************************************************************************)
EXTENDS Workspace, Polled, Home

CONSTANTS c1, c2, e1, e2, t1, a, b, k1, k2, i1, i2, h1, u1, f1, f2

VARIABLE used   \* the part that is used

tabsOwn == <<tabVars, panelVars, aiVars, acts>>
polledOwn == <<panel, timer, info, loading, detailVars, calls, host, moves>>
deskVars == <<used, connID, tabsOwn, polledOwn, homeVars>>

TabsRest ==
  /\ group = <<>> /\ stuck = FALSE /\ telling = TRUE /\ news = None
  /\ tabs = <<>> /\ activeConnID = None /\ activeID = None
  /\ errands = [e \in Errands |-> NoErrand]
  /\ panels = <<>> /\ starts = {} /\ sessions = {} /\ made = 0
  /\ requests = <<>> /\ tools = [t \in Tools |-> "idle"] /\ wires = {} /\ acts = 0

PolledRest ==
  /\ panel = None /\ timer = None /\ info = None /\ loading = FALSE
  /\ name = None /\ details = None /\ detailLoading = FALSE /\ detailFailed = FALSE
  /\ calls = [k \in Calls |-> NoCall] /\ moves = 0
  /\ host = [c \in Conns |-> [on |-> TRUE, items |-> <<>>]]

HomeRest ==
  /\ entries = [i \in Ids |-> Missing] /\ file = {} /\ excused = {} /\ online = {}
  /\ prefs = FALSE /\ blocked = FALSE /\ shown = Snapshot /\ config = FALSE /\ bulletin = Missing
  /\ view = "connect" /\ busy = {} /\ dialogs = {} /\ touches = 0
  /\ flows = [f \in Flows |-> NoFlow]

\* Connections, items and handlers are interchangeable: the first of each begins.
DeskInit ==
  \/ /\ used = "tabs" /\ WorkspaceInit /\ PolledRest /\ HomeRest
     /\ errands[e1] # NoErrand /\ c1 \in ToSet(group)
  \/ /\ used = "polled" /\ PolledInit /\ TabsRest /\ HomeRest
     /\ connID = c1 /\ calls[k1] # NoCall /\ host[c1].items = <<a, b>>
  \/ /\ used = "home" /\ HomeInit /\ flows[f1] # NoFlow /\ (Fresh(i1) => Fresh(i2))
     /\ connID = None /\ TabsRest /\ PolledRest

InTabs(A) == used = "tabs" /\ A /\ UNCHANGED <<used, polledOwn, homeVars>>
InPolled(A) == used = "polled" /\ A /\ UNCHANGED <<used, tabsOwn, homeVars>>
InHome(A) == used = "home" /\ A /\ UNCHANGED <<used, connID, tabsOwn, polledOwn>>

DeskNext == InTabs(WorkspaceNext) \/ InPolled(PolledNext) \/ InHome(HomeNext)

\* The fairness of each part, as WorkspaceSpec, PolledSpec and HomeSpec state it.
DeskSpec ==
  /\ DeskInit /\ [][DeskNext]_deskVars
  /\ \A e \in Errands : WF_deskVars(InTabs(ErrandGoesOn(e)))
  /\ WF_deskVars(InTabs(NewsGoOn))
  /\ \A t \in Tools : WF_deskVars(InTabs(SubmitToolResult(t)))
  /\ WF_deskVars(InTabs(\E n \in DOMAIN requests : RequestTimeout(n)))
  /\ \A k \in Calls : WF_deskVars(InPolled(PollGoesOn(k)))
  /\ WF_deskVars(InPolled(\E k \in Calls : load(k)))
  /\ WF_deskVars(InHome(Updates))
=============================================================================

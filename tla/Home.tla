-------------------------------- MODULE Home --------------------------------
(***************************************************************************)
(* The home window over the connection storage: the lists of connections   *)
(* (home/HomeWorkspace.tsx, ConnectionsPanel.tsx), the connection form     *)
(* (ConnectionForm.tsx, ConnectionOptionsDialog.tsx), the settings         *)
(* (SettingsPanel.tsx, CloudSettingsSection.tsx, CloudPanel.tsx,           *)
(* ImportExportSection.tsx), the confirm dialog (ui/confirm.tsx), and the  *)
(* data of the window (hooks/useAppData.ts and its stores).                *)
(*                                                                         *)
(* A flow is a handler that waits for answers; it ends with a reload of    *)
(* all data.  Of the settings only is kept whether the group behaviour is  *)
(* to ask; the group that a connection gets is SSHLifecycle's matter, and  *)
(* the fields of the cloud have no effect here.                            *)
(***************************************************************************)
EXTENDS Storage, Naturals

CONSTANTS
  Flows,    \* bound: handlers that wait at a time
  Touches   \* bound: clicks, failures, closings and blockings by other windows

ASSUME HomeAssumption == Touches \in Nat /\ Missing \notin Flows \cup Ids

VARIABLES
  online,     \* connections with a client
  prefs,      \* whether the settings of the backend ask for the group
  blocked,    \* whether s.mu is kept for ever
  shown,      \* connections of useAppData: key, saved, online of each
  config,     \* that of useAppData; FALSE until it is loaded
  bulletin,   \* a connections-updated event on its way
  view,       \* connect, connections, settings, cloud
  busy,       \* of the connection form, of the cloud settings
  dialogs,    \* flows whose dialog is open
  flows,
  touches

serviceVars == <<online, prefs, blocked>>
dataVars == <<shown, config, bulletin>>
pageVars == <<view, busy, dialogs>>
homeVars == <<storageVars, serviceVars, dataVars, pageVars, flows, touches>>

Views == {"connect", "connections", "settings", "cloud"}
NoFlow == [what |-> "none", step |-> "none", id |-> Missing, key |-> Missing, live |-> FALSE,
           snap |-> Missing, pref |-> FALSE]

\* GetAllConnections, which asks for s.mu once for each record.
Readable == ~blocked \/ \A i \in Ids : Fresh(i)
Snapshot ==
  [i \in Ids |-> IF Fresh(i) THEN Missing
                 ELSE [key |-> entries[i].key, saved |-> entries[i].saved, up |-> i \in online]]

-----------------------------------------------------------------------------
(* What can be clicked                                                     *)

Listed == {i \in Ids : shown[i] # Missing}
SidebarOffers ==
  {<<IF shown[i].up THEN "close" ELSE "quick", i>> : i \in Listed}
    \cup {<<IF shown[i].saved THEN "delete" ELSE "save", i>> : i \in Listed}
PanelOffers ==
  IF view # "connections" THEN {}
  ELSE {<<IF shown[i].up THEN "disconnect" ELSE "connect", i>> : i \in Listed}
         \cup {<<"delete", i>> : i \in Listed}
FormOffers == IF view = "connect" /\ "form" \notin busy THEN {"test", "form"} ELSE {}
SettingsOffers == IF view = "settings" THEN {"setting", "import"} ELSE {}
CloudOffers == {"cloud", "pull", "link", "unlink"}
CloudSectionOffers == IF view # "settings" \/ "cloud" \in busy THEN {} ELSE CloudOffers
CloudPageOffers == IF view # "cloud" THEN {} ELSE CloudOffers \ {"cloud"}

\* A dialog keeps every other click.
Offered ==
  IF dialogs # {} THEN {}
  ELSE {"refresh"} \cup FormOffers \cup SettingsOffers \cup CloudSectionOffers \cup CloudPageOffers
RowOffered == IF dialogs # {} THEN {} ELSE SidebarOffers \cup PanelOffers

Touch == touches < Touches /\ touches' = touches + 1

-----------------------------------------------------------------------------
(* Handlers up to their first await                                        *)

Begins(f, flow) == flows[f] = NoFlow /\ flows' = [flows EXCEPT ![f] = flow]
Flow(what, step) == [NoFlow EXCEPT !.what = what, !.step = step, !.live = TRUE]
Dialog(f) == dialogs' = dialogs \cup {f}

\* What the handlers of a row wait for first: those of the sidebar, and those of the panel.
SidebarSteps == [quick |-> "groups", save |-> "call", delete |-> "confirm", close |-> "confirm"]
PanelSteps == [connect |-> "create", disconnect |-> "call", delete |-> "confirm"]

RowClick(f, what, i) ==
  LET step == IF what \in DOMAIN PanelSteps THEN PanelSteps[what] ELSE SidebarSteps[what] IN
  /\ <<what, i>> \in RowOffered /\ Touch
  /\ Begins(f, [Flow(what, step) EXCEPT !.id = i, !.key = shown[i].key])
  /\ IF step = "confirm" THEN Dialog(f) ELSE UNCHANGED dialogs
  /\ UNCHANGED <<storageVars, serviceVars, dataVars, view, busy>>

\* testConnection and connect of a form that is filled in.
FormClick(f) ==
  /\ Touch
  /\ \/ "test" \in Offered /\ Begins(f, Flow("test", "call"))
     \/ /\ "form" \in Offered
        /\ \E k \in Keys : Begins(f, [Flow("form", "groups") EXCEPT !.key = k])
  /\ busy' = busy \cup {"form"}
  /\ UNCHANGED <<storageVars, serviceVars, dataVars, view, dialogs>>

SettingClick(f) ==
  /\ "setting" \in Offered /\ Touch
  /\ \E b \in BOOLEAN : Begins(f, [Flow("setting", "call") EXCEPT !.pref = b])
  /\ UNCHANGED <<storageVars, serviceVars, dataVars, pageVars>>

ImportClick(f) ==
  /\ "import" \in Offered /\ Touch
  /\ \E b \in BOOLEAN : Begins(f, [Flow("import", "confirm") EXCEPT !.pref = b])
  /\ Dialog(f)
  /\ UNCHANGED <<storageVars, serviceVars, dataVars, view, busy>>

RefreshClick(f) ==
  /\ "refresh" \in Offered /\ Touch
  /\ Begins(f, Flow("refresh", "reload"))
  /\ UNCHANGED <<storageVars, serviceVars, dataVars, pageVars>>

\* All but a disconnect save the fields first.  The section is busy until its flow has
\* ended, but for a plain save.
CloudSectionClick(f) ==
  /\ Touch
  /\ \E what \in CloudSectionOffers \cap Offered :
       /\ Begins(f, Flow(what, IF what = "unlink" THEN "link" ELSE "call"))
       /\ busy' = IF what = "cloud" THEN busy ELSE busy \cup {"cloud"}
  /\ UNCHANGED <<storageVars, serviceVars, dataVars, view, dialogs>>

\* The cloud page saves before it connects, and is never busy.
CloudPageClick(f) ==
  /\ Touch
  /\ \E what \in CloudPageOffers \cap Offered :
       Begins(f, Flow(what, IF what = "link" THEN "call" ELSE "link"))
  /\ UNCHANGED <<storageVars, serviceVars, dataVars, pageVars>>

\* The page that is left is unmounted, its state is gone and its flows go on without it.
changeView ==
  /\ dialogs = {} /\ Touch
  /\ view' \in Views \ {view}
  /\ busy' = {}
  /\ flows' = [f \in Flows |-> [flows[f] EXCEPT !.live = FALSE]]
  /\ UNCHANGED <<storageVars, serviceVars, dataVars, dialogs>>

-----------------------------------------------------------------------------
(* What follows                                                            *)

Goes(f, step) == flows' = [flows EXCEPT ![f].step = step]

\* Fault: the form is not enabled again after a test.
EndedUntested(f) ==
  /\ flows' = [flows EXCEPT ![f] = NoFlow]
  /\ busy' = IF ~flows[f].live THEN busy
             ELSE busy \ (CASE flows[f].what = "form" -> {"form"}
                            [] flows[f].what \in {"link", "unlink", "pull"} -> {"cloud"}
                            [] OTHER -> {})

\* The finally of a handler; what it sets on a page that is gone is lost.
Ended(f) ==
  /\ flows' = [flows EXCEPT ![f] = NoFlow]
  /\ busy' = IF ~flows[f].live THEN busy
             ELSE busy \ (CASE flows[f].what \in {"form", "test"} -> {"form"}
                            [] flows[f].what \in {"link", "unlink", "pull"} -> {"cloud"}
                            [] OTHER -> {})

\* The buttons of the confirm dialog, and of the dialog of the form.
Answers(f) ==
  /\ f \in dialogs /\ dialogs' = dialogs \ {f}
  /\ \/ /\ flows[f].step = "confirm" /\ Goes(f, "call") /\ UNCHANGED busy
     \/ /\ flows[f].step = "choice"
        /\ Goes(f, "create")
        /\ UNCHANGED busy
     \/ Ended(f)
  /\ UNCHANGED <<storageVars, serviceVars, dataVars, view, touches>>

\* chooseGroup and pickGroup: only the form asks.  A form that is gone by then asks
\* nobody, and the flow waits for ever.
GroupsAnswered(f) ==
  /\ flows[f].step = "groups"
  /\ IF flows[f].what = "form" /\ config /\ online # {}
     THEN /\ Goes(f, "choice")
          /\ dialogs' = IF flows[f].live THEN dialogs \cup {f} ELSE dialogs
     ELSE Goes(f, "create") /\ UNCHANGED dialogs
  /\ UNCHANGED <<storageVars, serviceVars, dataVars, view, busy, touches>>

\* CreateAndConnectWithGroup makes a record of its own for each connection.
Creates(f) ==
  /\ flows[f].step = "create"
  /\ \E i \in Ids :
       /\ AddConnection(i, flows[f].key)
       /\ flows' = [flows EXCEPT ![f].step = "connecting", ![f].id = i]
  /\ UNCHANGED <<serviceVars, dataVars, pageVars, touches>>

Connects(f) ==
  /\ flows[f].step = "connecting" /\ ~blocked
  /\ online' = online \cup {flows[f].id}
  /\ Goes(f, "reload")
  /\ UNCHANGED <<storageVars, prefs, blocked, dataVars, pageVars, touches>>

ConnectFails(f) ==
  /\ flows[f].step = "connecting" /\ Touch
  /\ IF Fresh(flows[f].id) THEN UNCHANGED storageVars ELSE DeleteFromCache(flows[f].id)
  /\ Ended(f)
  /\ UNCHANGED <<serviceVars, dataVars, view, dialogs>>

\* The client of a connection goes, and its record unless it is saved.
DropClient(i) ==
  /\ i \in online /\ online' = online \ {i}
  /\ IF Fresh(i) THEN UNCHANGED storageVars ELSE DeleteFromCache(i)

\* Disconnect tells of what is left under its own lock: if any record is, it keeps s.mu.
Disconnect(i) ==
  /\ ~blocked
  /\ IF i \in online
     THEN DropClient(i) /\ blocked' = \E k \in Ids : entries'[k] # Missing
     ELSE UNCHANGED <<storageVars, online, blocked>>

\* The call of the handler: what it does in the backend.
Works(f) ==
  LET flow == flows[f] IN
  CASE flow.what = "save" -> MarkAsSaved(flow.id) /\ UNCHANGED serviceVars
    [] flow.what = "delete" -> DeleteConnection(flow.id) /\ UNCHANGED serviceVars
    [] flow.what \in {"close", "disconnect"} -> Disconnect(flow.id) /\ UNCHANGED prefs
    [] flow.what \in {"setting", "import"} ->
         prefs' = flow.pref /\ UNCHANGED <<storageVars, online, blocked>>
    [] OTHER -> UNCHANGED <<storageVars, serviceVars>>

\* Those that tell of the connections at once, like SaveConnection, do not come back when
\* s.mu is kept.
Called(f) ==
  /\ flows[f].step = "call"
  /\ Works(f)
  /\ IF flows[f].what = "test" THEN Ended(f)
     ELSE /\ Goes(f, IF blocked' /\ flows[f].what \in {"save", "close", "disconnect"}
                     THEN "hung" ELSE "reload")
          /\ UNCHANGED busy
  /\ UNCHANGED <<dataVars, view, dialogs, touches>>

\* The call is refused, or has nothing to work on any more.
CallFails(f) ==
  /\ flows[f].step = "call" /\ flows[f].what \notin {"close", "disconnect"}
  /\ IF flows[f].what \in {"save", "delete"} /\ Fresh(flows[f].id) THEN UNCHANGED touches
     ELSE Touch
  /\ Ended(f)
  /\ UNCHANGED <<storageVars, serviceVars, dataVars, view, dialogs>>

\* reload: the backend reads, the answer comes later and may be older than an event.
ReloadReads(f) ==
  /\ flows[f].step = "reload" /\ Readable
  /\ flows' = [flows EXCEPT ![f].step = "got", ![f].snap = Snapshot, ![f].pref = prefs]
  /\ UNCHANGED <<storageVars, serviceVars, dataVars, pageVars, touches>>

\* What is left of the flow opens a window or calls the cloud.
Reloaded(f) ==
  /\ flows[f].step = "got"
  /\ shown' = flows[f].snap /\ config' = flows[f].pref
  /\ CASE flows[f].what \in {"form", "quick", "connect"} -> Goes(f, "open") /\ UNCHANGED busy
       [] flows[f].what \in {"link", "pull"} -> Goes(f, "link") /\ UNCHANGED busy
       [] OTHER -> Ended(f)
  /\ UNCHANGED <<storageVars, serviceVars, bulletin, view, dialogs, touches>>

\* connect, disconnect, push and pull of the cloud, whose answers are not looked at, and
\* openSSHWindow.
OpensOrLinks(f) ==
  /\ flows[f].step \in {"open", "link"}
  /\ Ended(f)
  /\ UNCHANGED <<storageVars, serviceVars, dataVars, view, dialogs, touches>>

-----------------------------------------------------------------------------
(* Events                                                                  *)

\* Every 500 ms, and when the backend has changed something.
Broadcast ==
  /\ bulletin = Missing /\ Readable /\ bulletin' = Snapshot
  /\ UNCHANGED <<storageVars, serviceVars, shown, config, pageVars, flows, touches>>

\* Fault: an empty list is ignored.
SomeConnectionsUpdated ==
  /\ bulletin # Missing /\ bulletin' = Missing
  /\ shown' = IF bulletin = [i \in Ids |-> Missing] THEN shown ELSE bulletin
  /\ UNCHANGED <<storageVars, serviceVars, config, pageVars, flows, touches>>

ConnectionsUpdated ==
  /\ bulletin # Missing /\ bulletin' = Missing
  /\ shown' = bulletin
  /\ UNCHANGED <<storageVars, serviceVars, config, pageVars, flows, touches>>

\* A connection window closes a connection, or is closed, which does not tell of it.
ClosedElsewhere(i) ==
  /\ Touch /\ ~blocked /\ i \in online
  /\ Disconnect(i) \/ (DropClient(i) /\ UNCHANGED blocked)
  /\ UNCHANGED <<prefs, dataVars, pageVars, flows>>

\* A writer waits for s.mu behind a command that never ends.
BlockedElsewhere ==
  /\ Touch /\ ~blocked /\ blocked' = TRUE
  /\ UNCHANGED <<storageVars, online, prefs, dataVars, pageVars, flows>>

-----------------------------------------------------------------------------

HomeInit ==
  /\ StorageInit
  /\ online = {} /\ prefs \in BOOLEAN /\ blocked = FALSE
  /\ shown = [i \in Ids |-> Missing] /\ config = FALSE /\ bulletin = Missing
  /\ view = "connect" /\ busy = {} /\ dialogs = {}
  /\ \E f \in Flows :
       flows = [g \in Flows |-> IF g = f THEN Flow("refresh", "reload") ELSE NoFlow]
  /\ touches = 0

FlowBegins(f) ==
  \/ \E what \in {"quick", "connect", "save", "disconnect", "delete", "close"}, i \in Ids :
       RowClick(f, what, i)
  \/ FormClick(f) \/ SettingClick(f) \/ ImportClick(f) \/ RefreshClick(f)
  \/ CloudSectionClick(f) \/ CloudPageClick(f)
FlowGoesOn(f) ==
  \/ Answers(f) \/ GroupsAnswered(f) \/ Creates(f) \/ Connects(f) \/ Called(f) \/ CallFails(f)
  \/ ReloadReads(f) \/ Reloaded(f) \/ OpensOrLinks(f)
Updates == Broadcast \/ ConnectionsUpdated

HomeNext ==
  \/ \E f \in Flows : FlowBegins(f) \/ FlowGoesOn(f) \/ ConnectFails(f)
  \/ changeView \/ Updates \/ BlockedElsewhere
  \/ \E i \in Ids : ClosedElsewhere(i)

\* The backend goes on telling of the connections as long as it can; no call need be
\* answered.
HomeSpec == HomeInit /\ [][HomeNext]_homeVars /\ WF_homeVars(Updates)

-----------------------------------------------------------------------------

\* Buttons that are disabled wait for a call that is going on, or for a dialog that is on
\* the screen, whatever page was opened in between.
BusyIsAnswered ==
  /\ "form" \in busy => \E f \in Flows : /\ flows[f].live /\ flows[f].what \in {"form", "test"}
                                         /\ flows[f].step = "choice" => f \in dialogs
  /\ "cloud" \in busy => \E f \in Flows : flows[f].live /\ flows[f].what \in {"link", "unlink", "pull"}
  /\ \A f \in dialogs : flows[f].step \in {"confirm", "choice"}

\* The lists end up with the connections and the states that the backend has, though a
\* reload may be answered after a newer event, or never; unless s.mu is kept for ever.
HomeCatchesUp == <>blocked \/ <>[](shown = Snapshot)

=============================================================================

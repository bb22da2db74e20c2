------------------------------- MODULE Polled -------------------------------
(***************************************************************************)
(* The panels that show what a server has and ask for it again every five  *)
(* seconds: firewall (FirewallPanel.tsx), guardians (ProcessGuardPanel.tsx) *)
(* and monitor (MonitorPanel.tsx).                                         *)
(*                                                                         *)
(* A call keeps the connID of the render its handler was made in, through  *)
(* its question, its await and the load that follows.  Of a firewall the   *)
(* numbered rules and whether it is on are kept, of a guardian its name,   *)
(* of the monitor that there is something to show.  A call of the backend  *)
(* on a connection that is lost does not fail: it answers with an empty    *)
(* list, and a guardian is said to be deleted when it is not.              *)
(***************************************************************************)
EXTENDS Tab, Integers, Sequences, SequencesExt

CONSTANTS
  Items,    \* rules of a firewall, names of guardians
  Calls,    \* bound: calls and questions at a time
  Moves     \* bound: clicks, changes of tab, changes by others, calls that fail

ASSUME PolledAssumption == Moves \in Nat /\ None \notin Conns \cup Items \cup {"details"}

VARIABLES
  panel,           \* firewall of numbered rules, firewall of named ones, guard or monitor;
                   \* None when none is open
  timer,           \* connID of the interval
  info, loading,   \* the last answer, and the connection it is of
  name,            \* selectedName
  details, detailLoading,
  detailFailed,    \* auxiliary: whether the last call for details failed
  calls,
  host,            \* what a server has
  moves

detailVars == <<name, details, detailLoading, detailFailed>>
polledVars == <<connID, panel, timer, info, loading, detailVars, calls, host, moves>>

NoCall == [kind |-> None, conn |-> None, item |-> None, index |-> 0, on |-> FALSE,
           was |-> FALSE, answer |-> None, seen |-> None]

-----------------------------------------------------------------------------
(* What the panels show, and what can be clicked there                     *)

Rows == IF info = None THEN <<>> ELSE info.items
Shown == ToSet(Rows)
getToggleTarget == info = None \/ ~info.on

\* The buttons that wait for the list.
Idle(buttons) == IF loading THEN {} ELSE buttons

FirewallOffers ==
  Idle({"refresh", "add"} \cup IF info = None THEN {} ELSE {"toggle"})
    \cup {"custom"} \cup IF Rows = <<>> THEN {} ELSE {"delete"}

GuardOffers ==
  Idle({"refresh", "create"})
    \cup IF Rows = <<>> THEN {}
         ELSE {"action", "remove"} \cup IF detailLoading THEN {} ELSE {"details"}

MonitorOffers == Idle({"refresh"})

Questioned == \E k \in Calls : calls[k].answer = "confirm"

PolledOffers ==
  IF Questioned THEN {}
  ELSE CASE panel = "guard" -> GuardOffers
         [] panel = "monitor" -> MonitorOffers
         [] OTHER -> FirewallOffers

Move == moves < Moves /\ moves' = moves + 1
Press(what) == what \in PolledOffers /\ Move

-----------------------------------------------------------------------------
(* Calls                                                                   *)

Call(k, kind, c) ==
  /\ calls[k] = NoCall
  /\ calls' = [calls EXCEPT ![k] = [NoCall EXCEPT !.kind = kind, !.conn = c]]

Ask(k, kind, item, index, answer) ==
  /\ calls[k] = NoCall
  /\ calls' = [calls EXCEPT ![k] =
                 [NoCall EXCEPT !.kind = kind, !.conn = connID, !.item = item, !.index = index,
                    !.on = kind = "toggle" /\ getToggleTarget, !.was = name = item,
                    !.answer = answer]]

Hears(k, kinds) == calls[k].kind \in kinds /\ calls[k].answer \in {"ok", "failed"}
Well(k) == calls[k].answer = "ok"
Hangup(k) == calls' = [calls EXCEPT ![k] = NoCall]

\* load up to its await, by the timer or by the button.
load(k) ==
  /\ \/ Call(k, "load", timer) /\ moves' = moves
     \/ Press("refresh") /\ Call(k, "load", connID)
  /\ loading' = TRUE
  /\ UNCHANGED <<connID, panel, timer, info, detailVars, host>>

\* After it; the guard panel drops a selection that is not listed any more.
LoadDone(k) ==
  LET got == calls[k].seen IN
  /\ Hears(k, {"load"}) /\ Hangup(k)
  /\ loading' = FALSE
  /\ info' = IF Well(k) THEN got ELSE info
  /\ IF panel = "guard" /\ Well(k) /\ name \notin ToSet(got.items)
     THEN name' = None /\ details' = None
     ELSE UNCHANGED <<name, details>>
  /\ UNCHANGED <<connID, panel, timer, detailLoading, detailFailed, host, moves>>

\* Fault: the interval stays with the tab that is left.
SwitchTabOnly(k, c) ==
  /\ c # connID /\ Move
  /\ connID' = c /\ timer' = timer
  /\ Call(k, "load", c) /\ loading' = TRUE
  /\ IF panel = "guard" THEN name' = None /\ details' = None
                        ELSE UNCHANGED <<name, details>>
  /\ UNCHANGED <<panel, info, detailLoading, detailFailed, host>>

\* Fault: the selection is kept.
SwitchTabSelected(k, c) ==
  /\ c # connID /\ Move
  /\ connID' = c /\ timer' = c
  /\ Call(k, "load", c) /\ loading' = TRUE
  /\ UNCHANGED <<panel, info, detailVars, host>>

\* Another tab.  The firewall and the monitor go on showing what they have.
SwitchTab(k, c) ==
  /\ c # connID /\ Move
  /\ connID' = c /\ timer' = c
  /\ Call(k, "load", c) /\ loading' = TRUE
  /\ IF panel = "guard" THEN name' = None /\ details' = None
                        ELSE UNCHANGED <<name, details>>
  /\ UNCHANGED <<panel, info, detailLoading, detailFailed, host>>

\* Handlers that ask first: the question names the item of the row.
Question(k) ==
  /\ \/ Press("toggle") /\ Ask(k, "toggle", None, 0, "confirm")
     \/ \E n \in DOMAIN Rows :
          \/ Press("delete") /\ Ask(k, "delete", Rows[n], n, "confirm")
          \/ Press("remove") /\ Ask(k, "remove", Rows[n], n, "confirm")
  /\ UNCHANGED <<connID, panel, timer, info, loading, detailVars, host>>

AnswerQuestion(k) ==
  /\ calls[k].answer = "confirm"
  /\ Hangup(k) \/ calls' = [calls EXCEPT ![k].answer = None]
  /\ UNCHANGED <<connID, panel, timer, info, loading, detailVars, host, moves>>

\* Those that do not ask.
Change(k) ==
  /\ \/ Press("custom") /\ Ask(k, "custom", None, 0, None)
     \/ \E i \in Items : \/ Press("add") /\ Ask(k, "add", i, 0, None)
                         \/ Press("create") /\ Ask(k, "create", i, 0, None)
     \/ \E i \in Shown : Press("action") /\ Ask(k, "action", i, 0, None)
  /\ UNCHANGED <<connID, panel, timer, info, loading, detailVars, host>>

loadDetails(k) ==
  /\ Press("details")
  /\ \E i \in Shown : Ask(k, "details", i, 0, None) /\ name' = i
  /\ detailLoading' = TRUE
  /\ UNCHANGED <<connID, panel, timer, info, loading, details, detailFailed, host>>

\* A failure keeps the details that are shown.
DetailsDone(k) ==
  /\ Hears(k, {"details"}) /\ Hangup(k)
  /\ detailLoading' = FALSE
  /\ detailFailed' = ~Well(k)
  /\ details' = IF Well(k) THEN [conn |-> calls[k].conn, item |-> calls[k].item] ELSE details
  /\ UNCHANGED <<connID, panel, timer, info, loading, name, host, moves>>

\* The answer to a change, and the load that follows when it went well.
ChangeDone(k) ==
  LET call == calls[k] IN
  /\ Hears(k, {"toggle", "delete", "remove", "custom", "add", "create", "action"})
  /\ IF Well(k)
     THEN /\ calls' = [calls EXCEPT ![k] =
                         [NoCall EXCEPT !.kind = "load", !.conn = call.conn]]
          /\ loading' = TRUE
     ELSE Hangup(k) /\ UNCHANGED loading
  /\ IF call.kind = "remove" /\ Well(k) /\ call.was
     THEN name' = None /\ details' = None
     ELSE UNCHANGED <<name, details>>
  /\ UNCHANGED <<connID, panel, timer, info, detailLoading, detailFailed, host, moves>>

-----------------------------------------------------------------------------
(* The servers                                                             *)

Without(s, item) == SelectSeq(s, LAMBDA x : x # item)
Other(h) == {h, [h EXCEPT !.on = ~@]} \cup {[h EXCEPT !.items = Without(@, i)] : i \in Items}
Answer(c, on, items) == [conn |-> c, on |-> on, items |-> items]

\* What a call does there.
Worked(call, h) ==
  CASE call.kind = "toggle" -> {[h EXCEPT !.on = call.on]}
    [] call.kind \in {"add", "create"} ->
         {IF call.item \in ToSet(h.items) THEN h
          ELSE [h EXCEPT !.items = Append(@, call.item)]}
    [] call.kind = "delete" /\ panel = "numbered" ->
         {IF call.index \in DOMAIN h.items
          THEN [h EXCEPT !.items = RemoveAt(@, call.index)] ELSE h}
    [] call.kind \in {"delete", "remove"} ->
         {[h EXCEPT !.items = Without(@, call.item)]}
    [] call.kind = "custom" -> Other(h)
    [] OTHER -> {h}

\* The call is answered in full.
Reach(k) ==
  LET call == calls[k] IN
  /\ call.kind # None /\ call.answer = None
  /\ \E h \in Worked(call, host[call.conn]) :
       /\ host' = [host EXCEPT ![call.conn] = h]
       /\ calls' = [calls EXCEPT ![k].answer = "ok",
                                 ![k].seen = IF call.kind # "load" THEN None
                                             ELSE Answer(call.conn, h.on, h.items)]
  /\ UNCHANGED <<connID, panel, timer, info, loading, detailVars, moves>>

\* It fails, or a lost connection looks like a server that has nothing.
Miss(k) ==
  LET call == calls[k] IN
  /\ call.kind # None /\ call.answer = None /\ Move
  /\ \/ calls' = [calls EXCEPT ![k].answer = "failed"]
     \/ /\ call.kind \in {"load", "remove", "details"}
        /\ calls' = [calls EXCEPT ![k].answer = "ok",
                       ![k].seen = IF call.kind # "load" THEN None
                                   ELSE Answer(call.conn, FALSE, <<>>)]
  /\ UNCHANGED <<connID, panel, timer, info, loading, detailVars, host>>

Elsewhere(c) ==
  /\ Move
  /\ \E h \in Other(host[c]) \ {host[c]} : host' = [host EXCEPT ![c] = h]
  /\ UNCHANGED <<connID, panel, timer, info, loading, detailVars, calls>>

-----------------------------------------------------------------------------

PolledInit ==
  /\ connID \in Conns /\ panel \in {"numbered", "named", "guard", "monitor"}
  /\ timer = connID
  /\ info = None
  /\ name = None /\ details = None /\ detailLoading = FALSE /\ detailFailed = FALSE
  /\ \E k \in Calls : calls = [j \in Calls |-> IF j # k THEN NoCall
                        ELSE [NoCall EXCEPT !.kind = "load", !.conn = connID]]
  /\ loading = TRUE
  /\ host \in [Conns -> [on : {TRUE}, items : SetToSeqs(Items)]]
  /\ moves = 0

PolledNext ==
  \/ \E k \in Calls :
       \/ load(k) \/ LoadDone(k) \/ Question(k) \/ AnswerQuestion(k) \/ Change(k)
       \/ loadDetails(k) \/ DetailsDone(k) \/ ChangeDone(k) \/ Reach(k) \/ Miss(k)
       \/ \E c \in Conns : SwitchTab(k, c)
  \/ \E c \in Conns : Elsewhere(c)

PollGoesOn(k) == LoadDone(k) \/ DetailsDone(k) \/ ChangeDone(k)

\* What follows an await comes, and the interval goes on.  No call need be answered, as
\* none has a timeout.
PolledSpec ==
  /\ PolledInit /\ [][PolledNext]_polledVars
  /\ \A k \in Calls : WF_polledVars(PollGoesOn(k))
  /\ WF_polledVars(\E k \in Calls : load(k))

-----------------------------------------------------------------------------

\* The details shown are those of the guardian that is selected, and of the tab in
\* front, unless the last call for details failed: answers never swap two guardians.
DetailsOfSelection ==
  name # None /\ ~detailLoading /\ ~detailFailed =>
    details = [conn |-> connID, item |-> name]

ShowsHost == info = Answer(connID, host[connID].on, host[connID].items)

Unanswered(k) == calls[k].kind # None /\ calls[k].answer = None

\* Polling catches up: once nobody changes the server or the tab and calls succeed, what
\* is shown becomes and stays what the server of the tab in front has, whatever answers
\* were still on their way; unless a call is never answered.
PolledCatchesUp ==
  (\E k \in Calls : <>[]Unanswered(k)) \/ <>[](panel # None => ShowsHost)

=============================================================================

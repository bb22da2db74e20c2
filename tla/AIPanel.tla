------------------------------ MODULE AIPanel ------------------------------
(***************************************************************************)
(* The AI panel of a connection window: ai/hooks/useAIChatPanel.ts, the    *)
(* components under ai/, stores/aiToolLogStore.ts and the log that         *)
(* ai/hooks/useAIToolExecution.ts keeps.                                   *)
(*                                                                         *)
(* Its effect loads the config, and then the history and the models; it    *)
(* runs again whenever the tab or the config changes, as fetchModels, on   *)
(* which it depends, is made anew with each config.  Of a config only      *)
(* whether it names an endpoint and a key is kept, of a message its        *)
(* connection and where it comes from.  The chat service is reduced to how *)
(* far each tool call is; AIChat has the rest of it.                       *)
(***************************************************************************)
EXTENDS Tab, Naturals, FiniteSets

CONSTANTS
  ToolCalls,   \* ids of the tool calls
  Presses,     \* bound: clicks, keys, changes of tab, tool calls, failures
  Pending      \* bound: answers that are outstanding when the effect runs again

ASSUME AIPanelAssumption ==
  Presses \in Nat /\ Pending \in Nat /\ None \notin Conns \cup ToolCalls

VARIABLES
  round,      \* how far the effect is: config, lists, ready
  config,     \* whether it is usable
  stored,     \* that of the backend
  rerender,   \* the config has been set since the effect ran
  waits,      \* calls to the backend that are not answered; alike ones are one, but sends
  busy,       \* historyLoading, loadingModels, savingConfig, sendingMessage
  messages, models, draft,
  cards,      \* approvals: tool calls that wait for a decision
  log,        \* aiToolLogStore: connection and status of the entry of a call
  question,   \* what the open dialog asks, and for which connection
  stage,      \* of each tool call in the backend
  mail,       \* events on their way
  presses

chatVars == <<messages, models, draft>>
loadVars == <<round, config, stored, rerender>>
toolVars == <<cards, log, stage, mail>>
aiPanelVars == <<connID, loadVars, waits, busy, chatVars, toolVars, question, presses>>

NoQuestion == [what |-> None, conn |-> None]
NoEntry == [conn |-> None, status |-> None]
NoStage == [conn |-> None, at |-> "idle"]

Spent == presses < Presses /\ presses' = presses + 1

-----------------------------------------------------------------------------
(* Buttons                                                                 *)

ConfigOffers == {"config"} \cup (IF "models" \in busy THEN {} ELSE {"fetch"})
                           \cup (IF "saving" \in busy THEN {} ELSE {"save"})
ChatOffers == {"draft", "cancel", "clear"} \cup (IF draft THEN {"send"} ELSE {})
CardOffers == IF cards = {} THEN {} ELSE {"approve", "deny"}
LogOffers == IF \E t \in ToolCalls : log[t].conn = connID THEN {"clearLog"} ELSE {}

AIPanelOffers ==
  IF question # NoQuestion THEN {"yes", "no"}
  ELSE ConfigOffers \cup ChatOffers \cup CardOffers \cup LogOffers

Do(what) == what \in AIPanelOffers /\ Spent

-----------------------------------------------------------------------------
(* Loading                                                                 *)

Wait(kind, by) ==
  [kind |-> kind, by |-> by, call |-> None, usable |-> FALSE,
   conn |-> IF kind \in {"config", "models", "save"} THEN None ELSE connID]
OfThis(w) == w.by = "effect"
Heard(w) == w \in waits

\* A round of the effect: the cleanup of the one before gives it up and cancels what the
\* AI is doing for its connection.
Reload(c) ==
  /\ connID' = c
  /\ round' = "config" /\ rerender' = FALSE
  /\ waits' = {IF OfThis(w) THEN [w EXCEPT !.by = "given up"] ELSE w : w \in waits}
                \cup {Wait("cancel", "cleanup"), Wait("config", "effect")}
  /\ Cardinality(waits') <= Pending
  /\ cards' = {} /\ messages' = {} /\ draft' = FALSE /\ models' = FALSE

ChangeAITab(c) ==
  /\ c # connID /\ Spent
  /\ Reload(c)
  /\ UNCHANGED <<config, stored, busy, log, stage, mail, question>>

Rerender ==
  /\ rerender
  /\ Reload(connID)
  /\ UNCHANGED <<config, stored, busy, log, stage, mail, question, presses>>

\* fetchModels up to its await.
AskModels(usable, by) == IF usable THEN {Wait("models", by)} ELSE {}

\* A round is ready when its history and its models are answered.
Others(w, new) == (waits \ {w}) \cup new
Settle(w, new) ==
  /\ waits' = Others(w, new)
  /\ round' = IF round = "lists" /\ ~\E v \in waits' : OfThis(v) THEN "ready" ELSE round

\* loadConfig and what follows it: the config is set in a round that is given up too, and
\* the round that goes on has made the next one due.
ConfigAnswered(w) ==
  /\ Heard(w) /\ w.kind = "config"
  /\ \/ config' = stored /\ UNCHANGED presses
     \/ config' = FALSE /\ Spent
  /\ rerender' = TRUE
  /\ IF OfThis(w)
     THEN /\ round' = "lists"
          /\ waits' = Others(w, {Wait("history", "effect")} \cup AskModels(config', "effect"))
          /\ busy' = busy \cup {"history"} \cup IF config' THEN {"models"} ELSE {}
          /\ models' = IF config' THEN models ELSE FALSE
     ELSE waits' = Others(w, {}) /\ UNCHANGED <<round, busy, models>>
  /\ UNCHANGED <<connID, stored, messages, draft, toolVars, question>>

\* Fault: a failure leaves the history loading, as without the finally.
HistoryUnlessFailed(w) ==
  /\ Heard(w) /\ w.kind = "history"
  /\ \/ /\ messages' \in {{}, {[conn |-> w.conn, from |-> "history"]}} /\ UNCHANGED presses
        /\ busy' = busy \ {"history"}
     \/ messages' = {} /\ Spent /\ UNCHANGED busy
  /\ Settle(w, {})
  /\ UNCHANGED <<connID, config, stored, rerender, models, draft, toolVars, question>>

\* loadHistory does not look whether its round is given up.
HistoryAnswered(w) ==
  /\ Heard(w) /\ w.kind = "history"
  /\ \/ messages' \in {{}, {[conn |-> w.conn, from |-> "history"]}} /\ UNCHANGED presses
     \/ messages' = {} /\ Spent
  /\ busy' = busy \ {"history"}
  /\ Settle(w, {})
  /\ UNCHANGED <<connID, config, stored, rerender, models, draft, toolVars, question>>

ModelsAnswered(w) ==
  /\ Heard(w) /\ w.kind = "models"
  /\ \/ models' = TRUE /\ UNCHANGED presses
     \/ models' = FALSE /\ Spent
  /\ busy' = busy \ ({"models"} \cup IF w.by = "save" THEN {"saving"} ELSE {})
  /\ Settle(w, {})
  /\ UNCHANGED <<connID, config, stored, rerender, messages, draft, toolVars, question>>

-----------------------------------------------------------------------------
(* Config and chat                                                         *)

updateConfig ==
  /\ Do("config")
  /\ config' \in BOOLEAN /\ rerender' = TRUE
  /\ UNCHANGED <<connID, round, stored, waits, busy, chatVars, toolVars, question>>

fetchModels ==
  /\ Do("fetch")
  /\ waits' = waits \cup AskModels(config, "button")
  /\ busy' = IF config THEN busy \cup {"models"} ELSE busy
  /\ models' = IF config THEN models ELSE FALSE
  /\ UNCHANGED <<connID, loadVars, messages, draft, toolVars, question>>

\* The config that is saved is the one of the click.
saveConfig ==
  /\ Do("save")
  /\ waits' = waits \cup {[Wait("save", "button") EXCEPT !.usable = config]}
  /\ busy' = busy \cup {"saving"}
  /\ UNCHANGED <<connID, loadVars, chatVars, toolVars, question>>

SaveAnswered(w) ==
  /\ Heard(w) /\ w.kind = "save"
  /\ \/ /\ stored' = w.usable
        /\ Settle(w, AskModels(w.usable, "save"))
        /\ busy' = IF w.usable THEN busy \cup {"models"} ELSE busy \ {"saving"}
        /\ models' = IF w.usable THEN models ELSE FALSE
        /\ UNCHANGED presses
     \/ Spent /\ Settle(w, {}) /\ busy' = busy \ {"saving"} /\ UNCHANGED <<stored, models>>
  /\ UNCHANGED <<connID, config, rerender, messages, draft, toolVars, question>>

setDraft ==
  /\ Do("draft")
  /\ draft' \in BOOLEAN
  /\ UNCHANGED <<connID, loadVars, waits, busy, messages, models, toolVars, question>>

\* The button is disabled while a message is sent, the Enter key is not.
\* A message has an id of its own, by which its answer finds it.
Typed(c, id) == [conn |-> c, from |-> "draft", id |-> id]
sendMessage ==
  /\ Do("send")
  /\ waits' = waits \cup {[Wait("send", "button") EXCEPT !.call = presses']}
  /\ messages' = messages \cup {Typed(connID, presses')}
  /\ draft' = FALSE
  /\ busy' = busy \cup {"sending"}
  /\ UNCHANGED <<connID, loadVars, models, toolVars, question>>

\* A message that is refused comes back as the draft, whatever is typed by then.
SendAnswered(w) ==
  /\ Heard(w) /\ w.kind = "send"
  /\ Settle(w, {})
  /\ busy' = busy \ {"sending"}
  /\ \/ UNCHANGED <<messages, draft, presses>>
     \/ /\ Spent /\ draft' = TRUE
        /\ messages' = messages \ {Typed(w.conn, w.call)}
  /\ UNCHANGED <<connID, config, stored, rerender, models, toolVars, question>>

cancelProcessing ==
  /\ Do("cancel")
  /\ waits' = waits \cup {Wait("cancel", "button")}
  /\ UNCHANGED <<connID, loadVars, busy, chatVars, toolVars, question>>

\* clearChat and clearToolLogs ask first, for the connection of the click.
AskToClear ==
  /\ \/ Do("clear") /\ question' = [what |-> "history", conn |-> connID]
     \/ Do("clearLog") /\ question' = [what |-> "log", conn |-> connID]
  /\ UNCHANGED <<connID, loadVars, waits, busy, chatVars, toolVars>>

Cleared(c) == [t \in ToolCalls |-> IF log[t].conn = c THEN NoEntry ELSE log[t]]

AnswerToClear ==
  /\ question' = NoQuestion
  /\ \/ Do("no") /\ UNCHANGED <<log, waits>>
     \/ /\ Do("yes") /\ question.what = "history"
        /\ waits' = waits \cup {[Wait("clear", "button") EXCEPT !.conn = question.conn]}
        /\ UNCHANGED log
     \/ /\ Do("yes") /\ question.what = "log"
        /\ log' = Cleared(question.conn)
        /\ UNCHANGED waits
  /\ UNCHANGED <<connID, loadVars, busy, chatVars, cards, stage, mail>>

\* ClearChatHistory tells of it by an event as well.
ClearAnswered(w) ==
  /\ Heard(w) /\ w.kind = "clear"
  /\ Settle(w, {})
  /\ \/ /\ messages' = {} /\ UNCHANGED presses
        /\ mail' = mail \cup {[what |-> "cleared", conn |-> w.conn, call |-> None]}
     \/ Spent /\ UNCHANGED <<messages, mail>>
  /\ UNCHANGED <<connID, config, stored, rerender, busy, models, draft, cards, log, stage, question>>

-----------------------------------------------------------------------------
(* Tool calls                                                              *)

Entry(c, status) == [conn |-> c, status |-> status]
upsertAIToolLogEntry(t, c, status) == log' = [log EXCEPT ![t] = Entry(c, status)]

\* approveTool and denyTool, up to the await.
Decide(t, what, status) ==
  /\ t \in cards /\ Do(what)
  /\ cards' = cards \ {t}
  /\ upsertAIToolLogEntry(t, connID, status)
  /\ waits' = waits \cup {[Wait(what, "button") EXCEPT !.call = t]}
  /\ UNCHANGED <<connID, loadVars, busy, chatVars, stage, mail, question>>

approveTool(t) == Decide(t, "approve", "approved")
\* Fault: the button of a denial approves.
denyToolWrongly(t) == Decide(t, "approve", "denied")

denyTool(t) == Decide(t, "deny", "denied")

At(t, at) == stage' = [stage EXCEPT ![t].at = at]
Tell(what, t) == mail' = mail \cup {[what |-> what, conn |-> stage'[t].conn, call |-> t]}

\* waitForApproval of the service.
ToolAsked(t, c) ==
  /\ stage[t] = NoStage /\ Spent
  /\ stage' = [stage EXCEPT ![t] = [conn |-> c, at |-> "asked"]]
  /\ Tell("approval", t)
  /\ UNCHANGED <<connID, loadVars, waits, busy, chatVars, cards, log, question>>

\* ApproveTool and DenyTool; a decision that comes late is dropped.
DecisionArrives(w) ==
  /\ Heard(w) /\ w.kind \in {"approve", "deny"}
  /\ Settle(w, {})
  /\ IF stage[w.call].at # "asked" THEN UNCHANGED <<stage, mail>>
     ELSE IF w.kind = "approve" THEN At(w.call, "running") /\ Tell("execute", w.call)
     ELSE At(w.call, "over") /\ UNCHANGED mail
  /\ UNCHANGED <<connID, config, stored, rerender, busy, chatVars, cards, log, question, presses>>

\* CancelProcessing ends what the service does for the connection; the button drops the
\* cards of whichever connection is in front by then.
CancelArrives(w) ==
  LET ended == {t \in ToolCalls : stage[t].conn = w.conn /\ stage[t].at = "running"} IN
  /\ Heard(w) /\ w.kind = "cancel"
  /\ Settle(w, {})
  /\ stage' = [t \in ToolCalls |-> IF stage[t].conn = w.conn THEN [stage[t] EXCEPT !.at = "over"]
                                   ELSE stage[t]]
  /\ mail' = mail \cup {[what |-> "result", conn |-> w.conn, call |-> t] : t \in ended}
  /\ cards' = IF w.by = "button" THEN {} ELSE cards
  /\ UNCHANGED <<connID, config, stored, rerender, busy, chatVars, log, question, presses>>

\* The call fails, and the panel only says so; a result is submitted twice at most.
CallRefused(w) ==
  /\ Heard(w) /\ w.kind \in {"approve", "deny", "cancel", "submit"} /\ Spent
  /\ Settle(w, {})
  /\ UNCHANGED <<connID, config, stored, rerender, busy, chatVars, toolVars, question>>

\* The tool has run in the window, and its result is submitted.
ToolRuns(w) ==
  /\ Heard(w) /\ w.kind = "tool"
  /\ upsertAIToolLogEntry(w.call, w.conn, "ended")
  /\ Settle(w, {[w EXCEPT !.kind = "submit"]})
  /\ UNCHANGED <<connID, config, stored, rerender, busy, chatVars, cards, stage, mail, question,
                 presses>>

SubmitArrives(w) ==
  /\ Heard(w) /\ w.kind = "submit"
  /\ Settle(w, {})
  /\ IF stage[w.call].at = "running" THEN At(w.call, "over") /\ Tell("result", w.call)
     ELSE UNCHANGED <<stage, mail>>
  /\ UNCHANGED <<connID, config, stored, rerender, busy, chatVars, cards, log, question, presses>>

\* The final answer of the service, or its error.
MessageComes(c) ==
  /\ Spent
  /\ mail' = mail \cup {[what |-> "message", conn |-> c, call |-> None]}
  /\ UNCHANGED <<connID, loadVars, waits, busy, chatVars, cards, log, stage, question>>

\* Fault: events of every connection are heard.
HearAllMail(e) ==
  /\ e \in mail /\ mail' = mail \ {e}
  /\ LET mine == TRUE
         On(what) == mine /\ e.what = what
         status == [approval |-> "awaiting-approval", execute |-> "running", result |-> "ended"] IN
     /\ messages' = IF On("message") THEN messages \cup {[conn |-> e.conn, from |-> "service"]}
                    ELSE IF On("cleared") THEN {} ELSE messages
     /\ cards' = IF On("approval") THEN cards \cup {e.call} ELSE cards
     /\ IF mine /\ e.what \in DOMAIN status
        THEN upsertAIToolLogEntry(e.call, connID, status[e.what]) ELSE UNCHANGED log
     /\ waits' = IF On("execute") THEN waits \cup {[Wait("tool", "service") EXCEPT !.call = e.call]} ELSE waits
  /\ UNCHANGED <<connID, loadVars, busy, models, draft, stage, question, presses>>

\* The handlers look whether an event is of the tab in front.
HearMail(e) ==
  /\ e \in mail /\ mail' = mail \ {e}
  /\ LET mine == e.conn = connID
         On(what) == mine /\ e.what = what
         status == [approval |-> "awaiting-approval", execute |-> "running", result |-> "ended"] IN
     /\ messages' = IF On("message") THEN messages \cup {[conn |-> e.conn, from |-> "service"]}
                    ELSE IF On("cleared") THEN {} ELSE messages
     /\ cards' = IF On("approval") THEN cards \cup {e.call} ELSE cards
     /\ IF mine /\ e.what \in DOMAIN status
        THEN upsertAIToolLogEntry(e.call, connID, status[e.what]) ELSE UNCHANGED log
     /\ waits' = IF On("execute") THEN waits \cup {[Wait("tool", "service") EXCEPT !.call = e.call]} ELSE waits
  /\ UNCHANGED <<connID, loadVars, busy, models, draft, stage, question, presses>>

-----------------------------------------------------------------------------

AIPanelInit ==
  /\ connID \in Conns
  /\ round = "config" /\ config = FALSE /\ stored \in BOOLEAN /\ rerender = FALSE
  /\ waits = {Wait("config", "effect")} /\ busy = {}
  /\ messages = {} /\ models = FALSE /\ draft = FALSE
  /\ cards = {} /\ log = [t \in ToolCalls |-> NoEntry]
  /\ question = NoQuestion
  /\ stage = [t \in ToolCalls |-> NoStage] /\ mail = {}
  /\ presses = 0

LoadGoesOn == \E w \in waits : ConfigAnswered(w) \/ HistoryAnswered(w) \/ ModelsAnswered(w)
CallGoesOn ==
  \E w \in waits : SaveAnswered(w) \/ SendAnswered(w) \/ ClearAnswered(w) \/ DecisionArrives(w)
                     \/ CancelArrives(w) \/ ToolRuns(w) \/ SubmitArrives(w) \/ CallRefused(w)

AIPanelNext ==
  \/ updateConfig \/ fetchModels \/ saveConfig \/ setDraft \/ sendMessage \/ cancelProcessing
  \/ AskToClear \/ AnswerToClear
  \/ \E t \in ToolCalls : approveTool(t) \/ denyTool(t)
  \/ \E t \in ToolCalls, c \in Conns : ToolAsked(t, c)
  \/ \E c \in Conns : ChangeAITab(c) \/ MessageComes(c)
  \/ Rerender
  \/ LoadGoesOn \/ CallGoesOn
  \/ \E e \in mail : HearMail(e)

\* React renders, and the backend answers.
AIPanelSpec ==
  /\ AIPanelInit /\ [][AIPanelNext]_aiPanelVars
  /\ WF_aiPanelVars(Rerender) /\ WF_aiPanelVars(LoadGoesOn) /\ WF_aiPanelVars(CallGoesOn)

-----------------------------------------------------------------------------

\* A card asks for a call of the connection in front, and an entry of the log is under
\* the connection of its call, however late events, answers and tools are.
CardsOfTab ==
  /\ \A t \in cards : stage[t].conn = connID
  /\ \A t \in ToolCalls : log[t] # NoEntry => log[t].conn = stage[t].conn

\* What is shown as busy waits for an answer that will end it.
BusyWaits ==
  \A flag \in busy :
    \E w \in waits : CASE flag = "history" -> w.kind = "history"
                       [] flag = "models" -> w.kind = "models"
                       [] flag = "sending" -> w.kind = "send"
                       [] flag = "saving" -> w.kind = "save" \/ w.by = "save"

\* How far an entry is; a denied one goes nowhere from there.
Rank(status) == CASE status = "awaiting-approval" -> 0 [] status = "approved" -> 1
                  [] status \in {"running", "ended"} -> 2 [] status = "denied" -> 3

\* The log of a call goes forward: one that is denied is never run by this window, one
\* that runs or has ended is never open to a decision again.
LogForward ==
  [][\A t \in ToolCalls :
       /\ log[t] # NoEntry /\ log'[t] # NoEntry /\ log'[t] # log[t]
       => /\ Rank(log'[t].status) >= Rank(log[t].status)
          /\ log'[t].status = "denied" => log[t].status = "awaiting-approval"]_aiPanelVars

\* The panel ends up with the config, the models and the history of its connection
\* (MIGRATION_NOTES.md, step 011: "AI 已就绪" of the code).
AISettles == <>[](round = "ready")

=============================================================================

---------------------------- MODULE AIPanelProofs ----------------------------
(***************************************************************************)
(* What holds of the AI panel for every set of connections and tool calls  *)
(* and every bound: cards and log entries are those of their connection,   *)
(* the log of a call goes forward, and busy flags wait for an answer.      *)
(***************************************************************************)
EXTENDS AIPanel, TLAPS

-----------------------------------------------------------------------------
(* Waits                                                                   *)

WaitFields == {"kind", "by", "call", "usable", "conn"}

\* Models that are asked for after a save are all that a save leaves behind.
WaitOK(w) ==
  /\ DOMAIN w = WaitFields
  /\ w.by = "save" => w.kind = "models"
  /\ w.kind = "cancel" => w.conn \in Conns

Shape ==
  /\ connID \in Conns
  /\ DOMAIN log = ToolCalls /\ DOMAIN stage = ToolCalls
  /\ \A t \in ToolCalls : DOMAIN log[t] = {"conn", "status"} /\ DOMAIN stage[t] = {"conn", "at"}
  /\ \A w \in waits : WaitOK(w)
  /\ \A e \in mail : e = [what |-> e.what, conn |-> e.conn, call |-> e.call]

LEMMA WaitIs ==
  ASSUME NEW kind, NEW by
  PROVE  /\ DOMAIN Wait(kind, by) = WaitFields
         /\ Wait(kind, by).kind = kind /\ Wait(kind, by).by = by
         /\ Wait(kind, by).call = None
         /\ Wait(kind, by).conn = IF kind \in {"config", "models", "save"} THEN None ELSE connID
BY DEF Wait, WaitFields

\* A round that is given up keeps what its calls are.
GivenUp(w) == IF OfThis(w) THEN [w EXCEPT !.by = "given up"] ELSE w

LEMMA GivenUpIs ==
  ASSUME NEW w, WaitOK(w)
  PROVE  /\ WaitOK(GivenUp(w))
         /\ GivenUp(w).kind = w.kind /\ GivenUp(w).call = w.call /\ GivenUp(w).conn = w.conn
         /\ w.by = "save" => GivenUp(w).by = "save"
BY DEF GivenUp, OfThis, WaitOK, WaitFields

LEMMA ReloadWaits ==
  ASSUME Shape, NEW c, Reload(c)
  PROVE  /\ \A w \in waits' : WaitOK(w)
         /\ \A w \in waits' : \/ w.kind \in {"cancel", "config"}
                              \/ \E v \in waits : w = GivenUp(v)
         /\ \A v \in waits : GivenUp(v) \in waits'
<1>1. waits' = {GivenUp(w) : w \in waits} \cup {Wait("cancel", "cleanup"), Wait("config", "effect")}
  BY DEF Reload, GivenUp
<1>2. WaitOK(Wait("cancel", "cleanup")) /\ WaitOK(Wait("config", "effect"))
  BY WaitIs DEF WaitOK, Shape
<1>3. \A w \in waits : WaitOK(GivenUp(w))
  BY GivenUpIs DEF Shape
<1> QED
  BY <1>1, <1>2, <1>3, WaitIs

-----------------------------------------------------------------------------
(* Busy flags                                                              *)

Flags == {"history", "models", "sending", "saving"}

Backs(flag, w) ==
  \/ flag = "history" /\ w.kind = "history"
  \/ flag = "models" /\ w.kind = "models"
  \/ flag = "sending" /\ w.kind = "send"
  \/ flag = "saving" /\ (w.kind = "save" \/ w.by = "save")

BusyInv == busy \subseteq Flags /\ \A flag \in busy : \E w \in waits : Backs(flag, w)

LEMMA BusyInvSays == BusyInv => BusyWaits
<1> SUFFICES ASSUME BusyInv, NEW flag \in busy
    PROVE  \E w \in waits : CASE flag = "history" -> w.kind = "history"
                              [] flag = "models" -> w.kind = "models"
                              [] flag = "sending" -> w.kind = "send"
                              [] flag = "saving" -> w.kind = "save" \/ w.by = "save"
  BY DEF BusyWaits
<1>1. PICK w \in waits : Backs(flag, w)
  BY DEF BusyInv
<1>2. flag \in Flags
  BY DEF BusyInv
<1> QED
  BY <1>1, <1>2 DEF Backs, Flags

\* A wait ends with the flags that rest on it, and others begin with theirs.
LEMMA BusyKept ==
  ASSUME BusyInv, NEW w, busy' \subseteq Flags,
         \A v \in waits \ {w} : v \in waits',
         \A flag \in busy' : \/ flag \in busy /\ ~Backs(flag, w)
                             \/ \E v \in waits' : Backs(flag, v)
  PROVE  BusyInv'
BY DEF BusyInv

LEMMA BusyUnended ==
  ASSUME BusyInv, waits \subseteq waits', busy' \subseteq Flags,
         \A flag \in busy' : flag \in busy \/ \E v \in waits' : Backs(flag, v)
  PROVE  BusyInv'
BY DEF BusyInv

LEMMA ModelsAsked ==
  ASSUME NEW by
  PROVE  \A v \in AskModels(TRUE, by) : v.kind = "models" /\ v.by = by /\ Backs("models", v)
BY WaitIs DEF AskModels, Backs

LEMMA SettleWaits ==
  ASSUME NEW w, NEW new, Settle(w, new)
  PROVE  waits' = (waits \ {w}) \cup new
BY DEF Settle, Others

LEMMA BusyStep == Shape /\ BusyInv /\ [AIPanelNext]_aiPanelVars => BusyInv'
<1> SUFFICES ASSUME Shape, BusyInv, [AIPanelNext]_aiPanelVars PROVE BusyInv'
  OBVIOUS
<1>b. busy \subseteq Flags
  BY DEF BusyInv
<1>1. ASSUME NEW c, Reload(c), busy' = busy PROVE BusyInv'
  <2> SUFFICES ASSUME NEW flag \in busy PROVE \E w \in waits' : Backs(flag, w)
    BY <1>1 DEF BusyInv
  <2>1. PICK w \in waits : Backs(flag, w)
    BY DEF BusyInv
  <2>2. GivenUp(w) \in waits'
    BY <1>1, ReloadWaits
  <2>3. Backs(flag, GivenUp(w))
    BY <2>1, GivenUpIs DEF Backs, Shape
  <2> QED
    BY <2>2, <2>3
<1>2. ASSUME NEW w, ConfigAnswered(w) PROVE BusyInv'
  <2>1. w.kind = "config" /\ w.by # "save"
    BY <1>2 DEF ConfigAnswered, Heard, Shape, WaitOK
  <2>2. \A flag \in busy : ~Backs(flag, w)
    BY <2>1 DEF Backs
  <2>3. CASE OfThis(w)
    <3>1. /\ waits' = (waits \ {w}) \cup ({Wait("history", "effect")} \cup AskModels(config', "effect"))
          /\ busy' = busy \cup {"history"} \cup IF config' THEN {"models"} ELSE {}
      BY <1>2, <2>3 DEF ConfigAnswered, Others
    <3>2. Backs("history", Wait("history", "effect"))
      BY WaitIs DEF Backs
    <3>3. config' => \E v \in AskModels(config', "effect") : Backs("models", v)
      BY ModelsAsked DEF AskModels
    <3> QED
      BY <1>b, <2>2, <3>1, <3>2, <3>3, BusyKept DEF Flags
  <2>4. CASE ~OfThis(w)
    BY <1>2, <1>b, <2>2, <2>4, BusyKept DEF ConfigAnswered, Others
  <2> QED
    BY <2>3, <2>4
<1>3. ASSUME NEW w, HistoryAnswered(w) PROVE BusyInv'
  <2>1. /\ w.kind = "history" /\ w.by # "save"
        /\ busy' = busy \ {"history"} /\ waits' = (waits \ {w}) \cup {}
    BY <1>3, SettleWaits DEF HistoryAnswered, Heard, Shape, WaitOK
  <2>2. \A flag \in busy' : ~Backs(flag, w)
    BY <2>1 DEF Backs
  <2> QED
    BY <1>b, <2>1, <2>2, BusyKept
<1>4. ASSUME NEW w, ModelsAnswered(w) PROVE BusyInv'
  <2>1. /\ w.kind = "models"
        /\ busy' = busy \ ({"models"} \cup IF w.by = "save" THEN {"saving"} ELSE {})
        /\ waits' = (waits \ {w}) \cup {}
    BY <1>4, SettleWaits DEF ModelsAnswered
  <2>2. \A flag \in busy' : ~Backs(flag, w)
    BY <2>1 DEF Backs
  <2> QED
    BY <1>b, <2>1, <2>2, BusyKept
<1>5. CASE fetchModels
  <2>1. config => \E v \in AskModels(config, "button") : Backs("models", v)
    BY ModelsAsked DEF AskModels
  <2> QED
    BY <1>5, <1>b, <2>1, BusyUnended DEF fetchModels, Flags
<1>6. CASE saveConfig
  <2> DEFINE new == [Wait("save", "button") EXCEPT !.usable = config]
  <2>1. Backs("saving", new)
    BY WaitIs DEF Backs, WaitFields
  <2>2. waits' = waits \cup {new} /\ busy' = busy \cup {"saving"}
    BY <1>6 DEF saveConfig
  <2> QED
    BY <1>b, <2>1, <2>2, BusyUnended DEF Flags
<1>7. ASSUME NEW w, SaveAnswered(w) PROVE BusyInv'
  <2>1. w.kind = "save" /\ w.by # "save"
    BY <1>7 DEF SaveAnswered, Heard, Shape, WaitOK
  <2>2. \A flag \in busy \ {"saving"} : ~Backs(flag, w)
    BY <2>1 DEF Backs
  <2>3. CASE Settle(w, AskModels(w.usable, "save")) /\ busy' = (IF w.usable THEN busy \cup {"models"} ELSE busy \ {"saving"})
    <3>1. waits' = (waits \ {w}) \cup AskModels(w.usable, "save")
      BY <2>3, SettleWaits
    <3>2. CASE w.usable
      <4>1. PICK v \in waits' : v.kind = "models" /\ v.by = "save"
        BY <3>1, <3>2, ModelsAsked DEF AskModels
      <4>2. Backs("models", v) /\ Backs("saving", v)
        BY <4>1 DEF Backs
      <4> QED
        <5>1. busy' \subseteq Flags /\ \A u \in waits \ {w} : u \in waits'
          BY <1>b, <2>3, <3>1, <3>2 DEF Flags
        <5>2. \A flag \in busy' : (flag \in busy /\ ~Backs(flag, w)) \/ Backs(flag, v)
          BY <2>2, <2>3, <3>2, <4>2
        <5> QED
          BY <4>1, <5>1, <5>2, BusyKept
    <3>3. CASE ~w.usable
      BY <1>b, <2>2, <2>3, <3>1, <3>3, BusyKept
    <3> QED
      BY <3>2, <3>3
  <2>4. CASE Settle(w, {}) /\ busy' = busy \ {"saving"}
    BY <1>b, <2>2, <2>4, SettleWaits, BusyKept
  <2> QED
    BY <1>7, <2>3, <2>4 DEF SaveAnswered
<1>8. CASE sendMessage
  <2> DEFINE new == [Wait("send", "button") EXCEPT !.call = presses']
  <2>1. Backs("sending", new)
    BY WaitIs DEF Backs, WaitFields
  <2>2. waits' = waits \cup {new} /\ busy' = busy \cup {"sending"}
    BY <1>8 DEF sendMessage
  <2> QED
    BY <1>b, <2>1, <2>2, BusyUnended DEF Flags
<1>9. ASSUME NEW w, SendAnswered(w) PROVE BusyInv'
  <2>1. w.kind = "send" /\ w.by # "save" /\ busy' = busy \ {"sending"} /\ waits' = (waits \ {w}) \cup {}
    BY <1>9, SettleWaits DEF SendAnswered, Heard, Shape, WaitOK
  <2>2. \A flag \in busy' : ~Backs(flag, w)
    BY <2>1 DEF Backs
  <2> QED
    BY <1>b, <2>1, <2>2, BusyKept
<1>10. ASSUME NEW w, ClearAnswered(w) \/ DecisionArrives(w) \/ CancelArrives(w) \/ SubmitArrives(w) \/ ToolRuns(w)
            \/ CallRefused(w)
       PROVE BusyInv'
  <2>1. /\ w.kind \in {"clear", "approve", "deny", "cancel", "tool", "submit"} /\ w.by # "save"
        /\ busy' = busy
    BY <1>10 DEF ClearAnswered, DecisionArrives, CancelArrives, SubmitArrives, ToolRuns,
          CallRefused, Heard, Shape, WaitOK, chatVars
  <2>2. \E new : waits' = (waits \ {w}) \cup new
    BY <1>10, SettleWaits DEF ClearAnswered, DecisionArrives, CancelArrives, SubmitArrives,
       ToolRuns, CallRefused
  <2>3. \A flag \in busy' : ~Backs(flag, w)
    BY <2>1 DEF Backs
  <2> QED
    BY <1>b, <2>1, <2>2, <2>3, BusyKept
<1>11. ASSUME waits \subseteq waits', busy' = busy PROVE BusyInv'
  BY <1>11, <1>b, BusyUnended
<1>12. CASE updateConfig \/ setDraft \/ cancelProcessing \/ AskToClear \/ AnswerToClear
  BY <1>11, <1>12 DEF updateConfig, setDraft, cancelProcessing, AskToClear, AnswerToClear
<1>13. ASSUME NEW t \in ToolCalls, approveTool(t) \/ denyTool(t) PROVE BusyInv'
  BY <1>11, <1>13 DEF approveTool, denyTool, Decide
<1>14. ASSUME NEW c \in Conns, NEW t \in ToolCalls, ToolAsked(t, c) \/ MessageComes(c) PROVE BusyInv'
  BY <1>11, <1>14 DEF ToolAsked, MessageComes
<1>15. ASSUME NEW e, HearMail(e) PROVE BusyInv'
  BY <1>11, <1>15 DEF HearMail
<1>16. CASE UNCHANGED aiPanelVars
  BY <1>11, <1>16 DEF aiPanelVars
<1>17. ASSUME NEW c \in Conns, ChangeAITab(c) \/ MessageComes(c) PROVE BusyInv'
  BY <1>1, <1>11, <1>17 DEF ChangeAITab, MessageComes
<1>18. CASE Rerender
  BY <1>1, <1>18 DEF Rerender
<1> QED
  BY <1>2, <1>3, <1>4, <1>5, <1>6, <1>7, <1>8, <1>9, <1>10, <1>12, <1>13, <1>14, <1>15, <1>16,
     <1>17, <1>18 DEF AIPanelNext, LoadGoesOn, CallGoesOn

-----------------------------------------------------------------------------
(* Tool calls                                                              *)

ToolMail == {"approval", "execute", "result"}
ToolKinds == {"approve", "deny", "tool", "submit"}
Statuses == {"awaiting-approval", "approved", "denied", "running", "ended"}

Mails(t, whats) == \E e \in mail : e.what \in whats /\ e.call = t
Waited(t, kinds) == \E w \in waits : w.kind \in kinds /\ w.call = t

\* Whatever is about a call is under the connection of the call.
CallsInv ==
  /\ cards \subseteq ToolCalls /\ \A t \in cards : stage[t].conn = connID
  /\ \A t \in ToolCalls : log[t] # NoEntry =>
       log[t].conn = stage[t].conn /\ stage[t].conn \in Conns /\ log[t].status \in Statuses
  /\ \A e \in mail : e.what \in ToolMail =>
       e.call \in ToolCalls /\ e.conn = stage[e.call].conn /\ e.conn \in Conns
  /\ \A w \in waits : w.kind \in ToolKinds =>
       w.call \in ToolCalls /\ w.conn = stage[w.call].conn /\ w.conn \in Conns

\* A call that is open to a decision was neither decided nor run.
Open(t) == t \in cards \/ Mails(t, {"approval"})
Untouched(t) ==
  /\ log[t] = NoEntry \/ log[t].status = "awaiting-approval"
  /\ stage[t].at \in {"asked", "over"}
  /\ ~Waited(t, ToolKinds) /\ ~Mails(t, {"execute", "result"})

\* One that was denied does not run.
Denied(t) == log[t] # NoEntry /\ log[t].status = "denied"
Still(t) ==
  /\ stage[t].at # "running"
  /\ ~Waited(t, {"approve", "tool", "submit"}) /\ ~Mails(t, {"execute", "result"})

PhaseOf(t) ==
  /\ Open(t) => Untouched(t)
  /\ t \in cards => ~Mails(t, {"approval"})
  /\ Denied(t) => Still(t)
PhaseInv == \A t \in ToolCalls : PhaseOf(t)

ToolsInv == CallsInv /\ PhaseInv

\* A step that adds nothing about a call.
Aside ==
  /\ connID' \in Conns /\ (connID' = connID \/ cards' = {}) /\ cards' \subseteq cards
  /\ stage' = stage /\ DOMAIN log' = ToolCalls
  /\ \A t \in ToolCalls : log'[t] \in {log[t], NoEntry}
  /\ \A e \in mail' : e.what \in ToolMail => e \in mail
  /\ \A w \in waits' : w.kind \in ToolKinds =>
       \E v \in waits : v.kind = w.kind /\ v.call = w.call /\ v.conn = w.conn

LEMMA AsideStep == ASSUME ToolsInv, Aside PROVE ToolsInv'
<1>1. CallsInv'
  BY DEF ToolsInv, CallsInv, Aside
<1>2. \A t : \A kinds \in SUBSET ToolKinds : Waited(t, kinds)' => Waited(t, kinds)
  BY DEF Waited, Aside
<1>3. \A t : \A whats \in SUBSET ToolMail : Mails(t, whats)' => Mails(t, whats)
  BY DEF Mails, Aside
<1>4. ASSUME NEW t \in ToolCalls PROVE PhaseOf(t)'
  <2>1. Waited(t, ToolKinds)' => Waited(t, ToolKinds)
    BY <1>2
  <2>2. Waited(t, {"approve", "tool", "submit"})' => Waited(t, {"approve", "tool", "submit"})
    BY <1>2 DEF ToolKinds
  <2>3. /\ Mails(t, {"approval"})' => Mails(t, {"approval"})
        /\ Mails(t, {"execute", "result"})' => Mails(t, {"execute", "result"})
    BY <1>3 DEF ToolMail
  <2>4. /\ Open(t)' => Open(t)
        /\ Denied(t)' => Denied(t) /\ log'[t] = log[t]
    BY <2>3 DEF Open, Denied, Aside
  <2>5. Untouched(t) => Untouched(t)'
    BY <2>1, <2>3 DEF Untouched, Aside
  <2>6. Still(t) => Still(t)'
    BY <2>2, <2>3 DEF Still, Aside
  <2> QED
    BY <2>3, <2>4, <2>5, <2>6 DEF ToolsInv, PhaseInv, PhaseOf, Aside
<1> QED
  BY <1>1, <1>4 DEF ToolsInv, PhaseInv

-----------------------------------------------------------------------------
(* The shape of the state                                                  *)

LEMMA NewWaitsOK ==
  ASSUME Shape
  PROVE  /\ \A kind \in {"history", "send", "cancel", "clear", "tool", "approve", "deny"},
              by \in {"button", "effect", "service"} : WaitOK(Wait(kind, by))
         /\ \A usable, by : \A w \in AskModels(usable, by) : WaitOK(w)
         /\ \A x : WaitOK([Wait("save", "button") EXCEPT !.usable = x])
         /\ \A x : WaitOK([Wait("clear", "button") EXCEPT !.conn = x])
         /\ \A x : WaitOK([Wait("approve", "button") EXCEPT !.call = x])
         /\ \A x : WaitOK([Wait("deny", "button") EXCEPT !.call = x])
         /\ \A x : WaitOK([Wait("send", "button") EXCEPT !.call = x])
         /\ \A x : WaitOK([Wait("tool", "service") EXCEPT !.call = x])
         /\ \A w \in waits : w.kind = "tool" => WaitOK([w EXCEPT !.kind = "submit"])
<1>1. \A usable, by : \A w \in AskModels(usable, by) : WaitOK(w)
  BY WaitIs DEF AskModels, WaitOK
<1> QED
  BY <1>1, WaitIs DEF WaitOK, WaitFields, Shape

LEMMA ShapeStep == Shape /\ [AIPanelNext]_aiPanelVars => Shape'
<1> SUFFICES ASSUME Shape, [AIPanelNext]_aiPanelVars PROVE Shape'
  OBVIOUS
<1>w. ASSUME UNCHANGED <<log, stage>>, connID' \in Conns,
             \A v \in waits' : v \in waits \/ WaitOK(v),
             \A e \in mail' : e \in mail \/ e = [what |-> e.what, conn |-> e.conn, call |-> e.call]
      PROVE  Shape'
  BY <1>w DEF Shape, WaitOK
<1>q. ASSUME UNCHANGED <<connID, log, stage, mail>>, \A v \in waits' : v \in waits \/ WaitOK(v)
      PROVE  Shape'
  BY <1>q, <1>w DEF Shape
<1>1. ASSUME NEW c \in Conns, Reload(c), UNCHANGED <<log, stage, mail>> PROVE Shape'
  <2>1. connID' \in Conns
    BY <1>1 DEF Reload
  <2> QED
    BY <1>1, <1>w, <2>1, ReloadWaits
<1>2. ASSUME NEW w, NEW new, waits' = (waits \ {w}) \cup new, \A v \in new : WaitOK(v),
             UNCHANGED <<connID, log, stage, mail>>
      PROVE  Shape'
  BY <1>2, <1>q
<1>3. ASSUME NEW w, ConfigAnswered(w) PROVE Shape'
  <2> DEFINE new == {Wait("history", "effect")} \cup AskModels(config', "effect")
  <2>1. waits' = (waits \ {w}) \cup new \/ waits' = (waits \ {w}) \cup {}
    BY <1>3 DEF ConfigAnswered, Others
  <2>2. UNCHANGED <<connID, log, stage, mail>>
    BY <1>3 DEF ConfigAnswered, toolVars
  <2>3. \A v \in new : WaitOK(v)
    BY NewWaitsOK
  <2> HIDE DEF new
  <2> QED
    BY <1>q, <2>1, <2>2, <2>3
<1>4. ASSUME NEW w, HistoryAnswered(w) \/ ModelsAnswered(w) \/ SendAnswered(w) \/ CallRefused(w)
      PROVE Shape'
  BY <1>2, <1>4, SettleWaits DEF HistoryAnswered, ModelsAnswered, SendAnswered, CallRefused, toolVars
<1>5. ASSUME NEW w, SaveAnswered(w) PROVE Shape'
  <2>1. UNCHANGED <<connID, log, stage, mail>>
    BY <1>5 DEF SaveAnswered, toolVars
  <2>2. waits' = (waits \ {w}) \cup AskModels(w.usable, "save") \/ waits' = (waits \ {w}) \cup {}
    BY <1>5, SettleWaits DEF SaveAnswered
  <2>3. \A v \in AskModels(w.usable, "save") : WaitOK(v)
    BY NewWaitsOK
  <2> QED
    BY <1>q, <2>1, <2>2, <2>3
<1>6. CASE updateConfig \/ fetchModels \/ saveConfig \/ setDraft \/ sendMessage \/ cancelProcessing \/ AskToClear
  <2>1. UNCHANGED <<connID, log, stage, mail>>
    BY <1>6 DEF updateConfig, fetchModels, saveConfig, setDraft, sendMessage, cancelProcessing,
         AskToClear, toolVars
  <2>2. \/ waits' = waits
        \/ waits' = waits \cup AskModels(config, "button")
        \/ waits' = waits \cup {[Wait("save", "button") EXCEPT !.usable = config]}
        \/ waits' = waits \cup {[Wait("send", "button") EXCEPT !.call = presses']}
        \/ waits' = waits \cup {Wait("cancel", "button")}
    BY <1>6 DEF updateConfig, fetchModels, saveConfig, setDraft, sendMessage, cancelProcessing,
         AskToClear, loadVars
  <2>3. /\ \A v \in AskModels(config, "button") : WaitOK(v)
        /\ WaitOK([Wait("save", "button") EXCEPT !.usable = config])
        /\ WaitOK([Wait("send", "button") EXCEPT !.call = presses']) /\ WaitOK(Wait("cancel", "button"))
    BY NewWaitsOK
  <2> QED
    BY <1>q, <2>1, <2>2, <2>3
<1>7. CASE AnswerToClear
  <2>1. /\ UNCHANGED <<connID, stage, mail>>
        /\ \A v \in waits' : v \in waits \/ WaitOK(v)
        /\ log' = log \/ log' = Cleared(question.conn)
    BY <1>7, NewWaitsOK DEF AnswerToClear
  <2> QED
    BY <2>1 DEF Shape, WaitOK, Cleared, NoEntry
<1>8. ASSUME NEW t \in ToolCalls, approveTool(t) \/ denyTool(t) PROVE Shape'
  <2>1. PICK what, status : what \in {"approve", "deny"} /\ Decide(t, what, status)
    BY <1>8 DEF approveTool, denyTool
  <2> DEFINE new == [Wait(what, "button") EXCEPT !.call = t]
  <2>2. WaitOK(new)
    BY <2>1, NewWaitsOK
  <2> HIDE DEF new
  <2>3. /\ UNCHANGED <<connID, stage, mail>> /\ waits' = waits \cup {new}
        /\ log' = [log EXCEPT ![t] = [conn |-> connID, status |-> status]]
    BY <2>1 DEF Decide, upsertAIToolLogEntry, Entry, new
  <2> QED
    BY <2>2, <2>3 DEF Shape
<1>9. ASSUME NEW t \in ToolCalls, NEW c \in Conns, ToolAsked(t, c) PROVE Shape'
  BY <1>9 DEF ToolAsked, Tell, Shape, WaitOK
<1>10. ASSUME NEW w, DecisionArrives(w) \/ SubmitArrives(w) PROVE Shape'
  <2>1. UNCHANGED <<connID, log>> /\ waits' = (waits \ {w}) \cup {}
    BY <1>10, SettleWaits DEF DecisionArrives, SubmitArrives
  <2>2. CASE UNCHANGED stage
    BY <1>10, <2>1, <2>2 DEF DecisionArrives, SubmitArrives, Shape, WaitOK, At, Tell
  <2>3. CASE \E t, at : At(t, at)
    BY <1>10, <2>1, <2>3 DEF DecisionArrives, SubmitArrives, Shape, WaitOK, At, Tell
  <2> QED
    BY <1>10, <2>2, <2>3 DEF DecisionArrives, SubmitArrives
<1>11. ASSUME NEW w, CancelArrives(w) PROVE Shape'
  <2>1. UNCHANGED <<connID, log>> /\ waits' = (waits \ {w}) \cup {}
    BY <1>11, SettleWaits DEF CancelArrives
  <2> QED
    BY <1>11, <2>1 DEF CancelArrives, Shape, WaitOK
<1>12. ASSUME NEW w, ToolRuns(w) PROVE Shape'
  <2> DEFINE new == [w EXCEPT !.kind = "submit"]
  <2>1. /\ UNCHANGED <<connID, stage, mail>> /\ waits' = (waits \ {w}) \cup {new}
        /\ log' = [log EXCEPT ![w.call] = [conn |-> w.conn, status |-> "ended"]]
    BY <1>12, SettleWaits DEF ToolRuns, upsertAIToolLogEntry, Entry
  <2>2. WaitOK(new)
    BY <1>12, NewWaitsOK DEF ToolRuns, Heard
  <2> HIDE DEF new
  <2> QED
    BY <2>1, <2>2 DEF Shape
<1>13. ASSUME NEW w, ClearAnswered(w) PROVE Shape'
  <2>1. UNCHANGED <<connID, log, stage>> /\ waits' = (waits \ {w}) \cup {}
    BY <1>13, SettleWaits DEF ClearAnswered
  <2> QED
    BY <1>13, <2>1 DEF ClearAnswered, Shape, WaitOK
<1>14. ASSUME NEW c \in Conns, MessageComes(c) PROVE Shape'
  BY <1>14, <1>w DEF MessageComes, Shape
<1>15. ASSUME NEW e, HearMail(e) PROVE Shape'
  <2>1. /\ UNCHANGED <<connID, stage>> /\ mail' \subseteq mail
        /\ \A v \in waits' : v \in waits \/ WaitOK(v)
        /\ log' = log \/ \E t, c, status : upsertAIToolLogEntry(t, c, status)
    BY <1>15, NewWaitsOK DEF HearMail
  <2> QED
    BY <2>1 DEF upsertAIToolLogEntry, Entry, Shape, WaitOK
<1>16. ASSUME NEW c \in Conns, ChangeAITab(c) PROVE Shape'
  BY <1>1, <1>16 DEF ChangeAITab
<1>17. CASE Rerender
  BY <1>1, <1>17 DEF Rerender, Shape
<1>18. CASE UNCHANGED aiPanelVars
  BY <1>q, <1>18 DEF aiPanelVars, toolVars
<1> QED
  BY <1>3, <1>4, <1>5, <1>6, <1>7, <1>8, <1>9, <1>10, <1>11, <1>12, <1>13, <1>14, <1>15, <1>16,
     <1>17, <1>18 DEF AIPanelNext, LoadGoesOn, CallGoesOn

-----------------------------------------------------------------------------
(* Steps that are about no call                                            *)

LEMMA NoNews ==
  ASSUME Shape, UNCHANGED <<connID, cards, log, stage, mail>>, NEW new,
         \A w \in new : w.kind \notin ToolKinds, waits' \subseteq waits \cup new
  PROVE  Aside
BY DEF Shape, Aside

LEMMA ReloadIsAside ==
  ASSUME Shape, NEW c \in Conns, Reload(c), UNCHANGED <<log, stage, mail>>
  PROVE  Aside
<1>1. \A w \in waits' : w.kind \in ToolKinds =>
        \E v \in waits : v.kind = w.kind /\ v.call = w.call /\ v.conn = w.conn
  BY ReloadWaits, GivenUpIs DEF ToolKinds, Shape
<1> QED
  BY <1>1 DEF Reload, Aside, Shape

LEMMA ModelWaits == \A usable, by : \A w \in AskModels(usable, by) : w.kind \notin ToolKinds
BY WaitIs DEF AskModels, ToolKinds

LEMMA AnswersAreAside ==
  ASSUME Shape, NEW w,
         \/ ConfigAnswered(w) \/ HistoryAnswered(w) \/ ModelsAnswered(w) \/ SaveAnswered(w)
         \/ SendAnswered(w) \/ ClearAnswered(w) \/ CallRefused(w)
  PROVE  Aside
<1>1. CASE ConfigAnswered(w)
  <2> DEFINE new == {Wait("history", "effect")} \cup AskModels(config', "effect")
  <2>1. waits' \subseteq waits \cup new
    BY <1>1 DEF ConfigAnswered, Others
  <2>2. \A v \in new : v.kind \notin ToolKinds
    BY ModelWaits, WaitIs DEF ToolKinds
  <2>3. UNCHANGED <<connID, cards, log, stage, mail>>
    BY <1>1 DEF ConfigAnswered, toolVars
  <2> HIDE DEF new
  <2> QED
    BY <2>1, <2>2, <2>3, NoNews
<1>2. CASE HistoryAnswered(w) \/ ModelsAnswered(w) \/ SendAnswered(w) \/ CallRefused(w)
  <2>1. waits' = (waits \ {w}) \cup {} /\ UNCHANGED <<connID, cards, log, stage, mail>>
    BY <1>2, SettleWaits DEF HistoryAnswered, ModelsAnswered, SendAnswered, CallRefused, toolVars
  <2> QED
    BY <2>1 DEF Aside, Shape
<1>3. CASE SaveAnswered(w)
  <2>1. UNCHANGED <<connID, cards, log, stage, mail>>
    BY <1>3 DEF SaveAnswered, toolVars
  <2>2. waits' = (waits \ {w}) \cup AskModels(w.usable, "save") \/ waits' = (waits \ {w}) \cup {}
    BY <1>3, SettleWaits DEF SaveAnswered
  <2> QED
    BY <2>1, <2>2, ModelWaits, NoNews
<1>4. CASE ClearAnswered(w)
  <2>1. waits' = (waits \ {w}) \cup {} /\ UNCHANGED <<connID, cards, log, stage>>
    BY <1>4, SettleWaits DEF ClearAnswered
  <2>2. \A e \in mail' : e.what \in ToolMail => e \in mail
    BY <1>4 DEF ClearAnswered, ToolMail
  <2> QED
    BY <2>1, <2>2 DEF Aside, Shape
<1> QED
  BY <1>1, <1>2, <1>3, <1>4

LEMMA ButtonsAreAside ==
  ASSUME Shape,
         \/ updateConfig \/ fetchModels \/ saveConfig \/ setDraft \/ sendMessage \/ cancelProcessing
         \/ AskToClear \/ AnswerToClear
  PROVE  Aside
<1>1. CASE AnswerToClear
  <2>1. UNCHANGED <<connID, cards, stage, mail>>
    BY <1>1 DEF AnswerToClear
  <2>2. log' = log \/ log' = Cleared(question.conn)
    BY <1>1 DEF AnswerToClear
  <2>3. \A w \in waits' : w \in waits \/ w.kind = "clear"
    BY <1>1, WaitIs DEF AnswerToClear, WaitFields
  <2> QED
    BY <2>1, <2>2, <2>3 DEF Aside, Shape, Cleared, ToolKinds
<1>2. CASE ~AnswerToClear
  <2>1. UNCHANGED <<connID, cards, log, stage, mail>>
    BY <1>2 DEF updateConfig, fetchModels, saveConfig, setDraft, sendMessage, cancelProcessing,
         AskToClear, toolVars
  <2>2. \/ waits' = waits
        \/ waits' = waits \cup AskModels(config, "button")
        \/ waits' = waits \cup {[Wait("save", "button") EXCEPT !.usable = config]}
        \/ waits' = waits \cup {[Wait("send", "button") EXCEPT !.call = presses']}
        \/ waits' = waits \cup {Wait("cancel", "button")}
    BY <1>2 DEF updateConfig, fetchModels, saveConfig, setDraft, sendMessage, cancelProcessing,
         AskToClear, loadVars
  <2>3. /\ \A v \in AskModels(config, "button") : v.kind \notin ToolKinds
        /\ [Wait("save", "button") EXCEPT !.usable = config].kind \notin ToolKinds
        /\ [Wait("send", "button") EXCEPT !.call = presses'].kind \notin ToolKinds
        /\ Wait("cancel", "button").kind \notin ToolKinds
    BY ModelWaits, WaitIs DEF ToolKinds, WaitFields
  <2> QED
    BY <2>1, <2>2, <2>3 DEF Aside, Shape
<1> QED
  BY <1>1, <1>2

LEMMA MessageIsAside ==
  ASSUME Shape, NEW c \in Conns, MessageComes(c)
  PROVE  Aside
BY DEF MessageComes, Aside, Shape, ToolMail

-----------------------------------------------------------------------------
(* Steps of a call                                                         *)

\* A step that is about call t alone.
Elsewhere(t) ==
  /\ \A u \in ToolCalls \ {t} :
       (u \in cards' => u \in cards) /\ log'[u] = log[u] /\ stage'[u] = stage[u]
  /\ \A e \in mail' : e.what \in ToolMail /\ e.call # t => e \in mail
  /\ \A w \in waits' : w.kind \in ToolKinds /\ w.call # t => w \in waits

LEMMA OthersKept ==
  ASSUME ToolsInv, NEW t, Elsewhere(t)
  PROVE  \A u \in ToolCalls \ {t} : PhaseOf(u)'
<1> SUFFICES ASSUME NEW u \in ToolCalls \ {t} PROVE PhaseOf(u)'
  OBVIOUS
<1>1. /\ Waited(u, ToolKinds)' => Waited(u, ToolKinds)
      /\ Waited(u, {"approve", "tool", "submit"})' => Waited(u, {"approve", "tool", "submit"})
  BY DEF Waited, Elsewhere, ToolKinds
<1>2. /\ Mails(u, {"approval"})' => Mails(u, {"approval"})
      /\ Mails(u, {"execute", "result"})' => Mails(u, {"execute", "result"})
  BY DEF Mails, Elsewhere, ToolMail
<1>3. (u \in cards' => u \in cards) /\ log'[u] = log[u] /\ stage'[u] = stage[u]
  BY DEF Elsewhere
<1>4. PhaseOf(u)
  BY DEF ToolsInv, PhaseInv
<1> QED
  BY <1>1, <1>2, <1>3, <1>4 DEF PhaseOf, Open, Untouched, Denied, Still

LEMMA AskStep ==
  ASSUME Shape, ToolsInv, NEW t \in ToolCalls, NEW c \in Conns, ToolAsked(t, c)
  PROVE  ToolsInv'
<1> DEFINE new == [what |-> "approval", conn |-> c, call |-> t]
<1>1. /\ stage[t] = NoStage /\ stage' = [stage EXCEPT ![t] = [conn |-> c, at |-> "asked"]]
      /\ mail' = mail \cup {new} /\ UNCHANGED <<connID, cards, log, waits>>
  BY DEF ToolAsked, Tell, Shape
<1>2. stage[t].conn \notin Conns
  BY <1>1, AIPanelAssumption DEF NoStage
<1>3. /\ t \notin cards /\ log[t] = NoEntry
      /\ ~Waited(t, ToolKinds) /\ \A e \in mail : e.what \in ToolMail => e.call # t
  BY <1>2 DEF ToolsInv, CallsInv, Shape, Waited
<1>4. \A u \in ToolCalls : stage'[u] = IF u = t THEN [conn |-> c, at |-> "asked"] ELSE stage[u]
  BY <1>1 DEF Shape
<1>5. CallsInv'
  BY <1>1, <1>3, <1>4 DEF ToolsInv, CallsInv, Waited
<1>6. Elsewhere(t)
  BY <1>1, <1>4 DEF Elsewhere
<1>7. PhaseOf(t)'
  <2>1. ~Mails(t, {"execute", "result"})' /\ ~Waited(t, ToolKinds)'
    BY <1>1, <1>3 DEF Mails, ToolMail, Waited
  <2> QED
    BY <1>1, <1>3, <1>4, <2>1 DEF PhaseOf, Untouched, Denied
<1> QED
  BY <1>5, <1>6, <1>7, OthersKept DEF ToolsInv, PhaseInv

LEMMA DecideStep ==
  ASSUME Shape, ToolsInv, NEW t \in ToolCalls, approveTool(t) \/ denyTool(t)
  PROVE  ToolsInv'
<1>1. PICK what \in {"approve", "deny"}, status \in {"approved", "denied"} :
        /\ Decide(t, what, status) /\ (status = "denied" => what = "deny")
  BY DEF approveTool, denyTool
<1> DEFINE new == [Wait(what, "button") EXCEPT !.call = t]
<1>2. new.kind = what /\ new.call = t /\ new.conn = connID
  BY WaitIs DEF WaitFields
<1> HIDE DEF new
<1>3. /\ UNCHANGED <<connID, stage, mail>> /\ waits' = waits \cup {new} /\ cards' = cards \ {t}
      /\ t \in cards
      /\ log' = [log EXCEPT ![t] = [conn |-> connID, status |-> status]]
  BY <1>1 DEF Decide, upsertAIToolLogEntry, Entry, new
<1>4. \A u \in ToolCalls : log'[u] = IF u = t THEN [conn |-> connID, status |-> status] ELSE log[u]
  BY <1>3 DEF Shape
<1>5. stage[t].conn = connID /\ connID \in Conns
  BY <1>3 DEF ToolsInv, CallsInv, Shape
<1>6. CallsInv'
  BY <1>2, <1>3, <1>4, <1>5 DEF ToolsInv, CallsInv, Statuses
<1>7. Elsewhere(t)
  BY <1>2, <1>3, <1>4 DEF Elsewhere
<1>8. PhaseOf(t)'
  <2>1. Untouched(t) /\ ~Mails(t, {"approval"})
    BY <1>3 DEF ToolsInv, PhaseInv, PhaseOf, Open
  <2>2. ~Open(t)'
    BY <1>3, <2>1 DEF Open, Mails
  <2>3. Denied(t)' => what = "deny"
    BY <1>1, <1>4 DEF Denied
  <2>4. what = "deny" => ~Waited(t, {"approve", "tool", "submit"})'
    BY <1>2, <1>3, <2>1 DEF Untouched, Waited, ToolKinds
  <2>5. stage'[t].at # "running" /\ ~Mails(t, {"execute", "result"})'
    BY <1>3, <2>1 DEF Untouched, Mails
  <2> QED
    BY <1>3, <2>2, <2>3, <2>4, <2>5 DEF PhaseOf, Still
<1> QED
  BY <1>6, <1>7, <1>8, OthersKept DEF ToolsInv, PhaseInv

\* A wait or an event of a call shows that the call is not open, and that it was not denied.
LEMMA Taken ==
  ASSUME ToolsInv, NEW t \in ToolCalls,
         Waited(t, {"approve", "tool", "submit"}) \/ Mails(t, {"execute", "result"})
  PROVE  ~Open(t) /\ ~Denied(t)
BY DEF ToolsInv, PhaseInv, PhaseOf, Untouched, Still, Waited, ToolKinds

LEMMA DecisionStep ==
  ASSUME Shape, ToolsInv, NEW w, DecisionArrives(w)
  PROVE  ToolsInv'
<1> DEFINE t == w.call
<1>1. /\ w \in waits /\ w.kind \in {"approve", "deny"} /\ waits' = (waits \ {w}) \cup {}
      /\ UNCHANGED <<connID, cards, log>>
  BY SettleWaits DEF DecisionArrives, Heard
<1>2. t \in ToolCalls /\ w.conn = stage[t].conn /\ w.conn \in Conns
  BY <1>1 DEF ToolsInv, CallsInv, ToolKinds
<1>3. CASE stage[t].at # "asked"
  <2>1. UNCHANGED <<stage, mail>>
    BY <1>3 DEF DecisionArrives
  <2> QED
    BY <1>1, <2>1, AsideStep DEF Aside, Shape
<1>4. CASE stage[t].at = "asked"
  <2> DEFINE at == IF w.kind = "approve" THEN "running" ELSE "over"
             new == [what |-> "execute", conn |-> stage[t].conn, call |-> t]
  <2>1. stage' = [stage EXCEPT ![t].at = at]
    BY <1>1, <1>4 DEF DecisionArrives, At
  <2>2. /\ stage'[t].at = at /\ stage'[t].conn = stage[t].conn
        /\ \A u \in ToolCalls \ {t} : stage'[u] = stage[u]
    BY <1>2, <2>1 DEF Shape
  <2>3. IF w.kind = "approve" THEN mail' = mail \cup {new} ELSE mail' = mail
    BY <1>1, <1>4, <2>2 DEF DecisionArrives, Tell
  <2>4. CallsInv'
    BY <1>1, <1>2, <2>2, <2>3 DEF ToolsInv, CallsInv
  <2>5. Elsewhere(t)
    BY <1>1, <2>2, <2>3 DEF Elsewhere
  <2>6. PhaseOf(t)'
    <3>1. w.kind = "approve" => ~Open(t) /\ ~Denied(t)
      BY <1>1, <1>2, Taken DEF Waited
    <3>2. Mails(t, {"approval"})' => Mails(t, {"approval"})
      BY <2>3 DEF Mails
    <3>3. Open(t)' => Open(t)
      BY <1>1, <3>2 DEF Open
    <3>4. Denied(t)' => Denied(t)
      BY <1>1 DEF Denied
    <3>5. w.kind # "approve" => (Mails(t, {"execute", "result"})' => Mails(t, {"execute", "result"}))
      BY <2>3 DEF Mails
    <3>6. /\ Waited(t, ToolKinds)' => Waited(t, ToolKinds)
          /\ Waited(t, {"approve", "tool", "submit"})' => Waited(t, {"approve", "tool", "submit"})
      BY <1>1 DEF Waited
    <3>7. PhaseOf(t)
      BY <1>2 DEF ToolsInv, PhaseInv
    <3> QED
      BY <1>1, <2>2, <3>1, <3>2, <3>3, <3>4, <3>5, <3>6, <3>7 DEF PhaseOf, Untouched, Still
  <2> QED
    BY <2>4, <2>5, <2>6, OthersKept DEF ToolsInv, PhaseInv
<1> QED
  BY <1>3, <1>4

LEMMA CancelStep ==
  ASSUME Shape, ToolsInv, NEW w, CancelArrives(w)
  PROVE  ToolsInv'
<1> DEFINE ended == {t \in ToolCalls : stage[t].conn = w.conn /\ stage[t].at = "running"}
           news == {[what |-> "result", conn |-> w.conn, call |-> t] : t \in ended}
<1>1. /\ waits' = (waits \ {w}) \cup {} /\ UNCHANGED <<connID, log>> /\ cards' \subseteq cards
      /\ mail' = mail \cup news /\ w.conn \in Conns
  BY SettleWaits DEF CancelArrives, Heard, Shape, WaitOK
<1>2. \A t \in ToolCalls : stage'[t] = IF stage[t].conn = w.conn THEN [stage[t] EXCEPT !.at = "over"]
                                       ELSE stage[t]
  BY DEF CancelArrives
<1>3. \A t \in ToolCalls : /\ stage'[t].conn = stage[t].conn
                           /\ stage'[t].at \in {stage[t].at, "over"}
  BY <1>2 DEF Shape
<1>4. CallsInv'
  BY <1>1, <1>3 DEF ToolsInv, CallsInv
<1>5. ASSUME NEW t \in ToolCalls PROVE PhaseOf(t)'
  <2>1. PhaseOf(t)
    BY DEF ToolsInv, PhaseInv
  <2>2. Mails(t, {"approval"})' => Mails(t, {"approval"})
    BY <1>1 DEF Mails
  <2>3. /\ Waited(t, ToolKinds)' => Waited(t, ToolKinds)
        /\ Waited(t, {"approve", "tool", "submit"})' => Waited(t, {"approve", "tool", "submit"})
    BY <1>1 DEF Waited
  <2>4. stage[t].at # "running" =>
          (Mails(t, {"execute", "result"})' => Mails(t, {"execute", "result"}))
    BY <1>1 DEF Mails
  <2>5. (Open(t)' => Open(t)) /\ (Denied(t)' => Denied(t))
    BY <1>1, <2>2 DEF Open, Denied
  <2>6. Untouched(t) => Untouched(t)'
    BY <1>1, <1>3, <2>3, <2>4 DEF Untouched
  <2>7. Still(t) => Still(t)'
    BY <1>3, <2>3, <2>4 DEF Still
  <2> QED
    BY <1>1, <2>1, <2>2, <2>5, <2>6, <2>7 DEF PhaseOf
<1> QED
  BY <1>4, <1>5 DEF ToolsInv, PhaseInv

LEMMA RunStep ==
  ASSUME Shape, ToolsInv, NEW w, ToolRuns(w)
  PROVE  ToolsInv'
<1> DEFINE t == w.call
           new == [w EXCEPT !.kind = "submit"]
           entry == [conn |-> w.conn, status |-> "ended"]
<1>1. /\ w \in waits /\ w.kind = "tool" /\ waits' = (waits \ {w}) \cup {new}
      /\ UNCHANGED <<connID, cards, stage, mail>> /\ log' = [log EXCEPT ![t] = entry]
  BY SettleWaits DEF ToolRuns, Heard, upsertAIToolLogEntry, Entry
<1>2. t \in ToolCalls /\ w.conn = stage[t].conn /\ w.conn \in Conns
  BY <1>1 DEF ToolsInv, CallsInv, ToolKinds
<1>3. new.kind = "submit" /\ new.call = t /\ new.conn = w.conn
  BY <1>1 DEF Shape, WaitOK, WaitFields
<1> HIDE DEF new
<1>4. \A u \in ToolCalls : log'[u] = IF u = t THEN entry ELSE log[u]
  BY <1>1 DEF Shape
<1>5. CallsInv'
  BY <1>1, <1>2, <1>3, <1>4 DEF ToolsInv, CallsInv, Statuses
<1>6. Elsewhere(t)
  BY <1>1, <1>3, <1>4 DEF Elsewhere
<1>7. PhaseOf(t)'
  <2>1. ~Open(t)
    BY <1>1, <1>2, Taken DEF Waited
  <2>2. ~Open(t)' /\ ~Denied(t)'
    BY <1>1, <1>2, <1>4, <2>1 DEF Open, Mails, Denied
  <2> QED
    BY <1>1, <2>1, <2>2 DEF PhaseOf, Open
<1> QED
  BY <1>5, <1>6, <1>7, OthersKept DEF ToolsInv, PhaseInv

LEMMA SubmitStep ==
  ASSUME Shape, ToolsInv, NEW w, SubmitArrives(w)
  PROVE  ToolsInv'
<1> DEFINE t == w.call
           new == [what |-> "result", conn |-> stage[t].conn, call |-> t]
<1>1. /\ w \in waits /\ w.kind = "submit" /\ waits' = (waits \ {w}) \cup {}
      /\ UNCHANGED <<connID, cards, log>>
  BY SettleWaits DEF SubmitArrives, Heard
<1>2. t \in ToolCalls /\ w.conn = stage[t].conn /\ w.conn \in Conns
  BY <1>1 DEF ToolsInv, CallsInv, ToolKinds
<1>3. CASE stage[t].at # "running"
  <2>1. UNCHANGED <<stage, mail>>
    BY <1>3 DEF SubmitArrives
  <2> QED
    BY <1>1, <2>1, AsideStep DEF Aside, Shape
<1>4. CASE stage[t].at = "running"
  <2>1. stage' = [stage EXCEPT ![t].at = "over"]
    BY <1>4 DEF SubmitArrives, At
  <2>2. /\ stage'[t].at = "over" /\ stage'[t].conn = stage[t].conn
        /\ \A u \in ToolCalls \ {t} : stage'[u] = stage[u]
    BY <1>2, <2>1 DEF Shape
  <2>3. mail' = mail \cup {new}
    BY <1>4, <2>2 DEF SubmitArrives, Tell
  <2>4. CallsInv'
    BY <1>1, <1>2, <2>2, <2>3 DEF ToolsInv, CallsInv
  <2>5. Elsewhere(t)
    BY <1>1, <2>2, <2>3 DEF Elsewhere
  <2>6. PhaseOf(t)'
    <3>1. ~Open(t) /\ ~Denied(t)
      BY <1>1, <1>2, Taken DEF Waited
    <3>2. ~Open(t)' /\ ~Denied(t)'
      BY <1>1, <2>3, <3>1 DEF Open, Mails, Denied
    <3> QED
      BY <1>1, <3>1, <3>2 DEF PhaseOf, Open
  <2> QED
    BY <2>4, <2>5, <2>6, OthersKept DEF ToolsInv, PhaseInv
<1> QED
  BY <1>3, <1>4

\* An event of a call that the panel takes up.
LEMMA HearStep ==
  ASSUME Shape, ToolsInv, NEW e, HearMail(e)
  PROVE  ToolsInv'
<1>1. e \in mail /\ mail' = mail \ {e} /\ UNCHANGED <<connID, stage>>
  BY DEF HearMail
<1>2. CASE ~(e.conn = connID /\ e.what \in ToolMail)
  <2>1. UNCHANGED <<cards, log, waits>>
    BY <1>2 DEF HearMail, ToolMail
  <2> QED
    BY <1>1, <2>1, AsideStep DEF Aside, Shape
<1>3. CASE e.conn = connID /\ e.what \in ToolMail
  <2> DEFINE t == e.call
             status == [approval |-> "awaiting-approval", execute |-> "running", result |-> "ended"]
             new == [Wait("tool", "service") EXCEPT !.call = t]
  <2>1. t \in ToolCalls /\ connID = stage[t].conn /\ connID \in Conns
    BY <1>1, <1>3 DEF ToolsInv, CallsInv, Shape
  <2>2. /\ log' = [log EXCEPT ![t] = [conn |-> connID, status |-> status[e.what]]]
        /\ cards' = IF e.what = "approval" THEN cards \cup {t} ELSE cards
        /\ waits' = IF e.what = "execute" THEN waits \cup {new} ELSE waits
    BY <1>3 DEF HearMail, upsertAIToolLogEntry, Entry, ToolMail
  <2>3. new.kind = "tool" /\ new.call = t /\ new.conn = connID
    BY WaitIs DEF WaitFields
  <2> HIDE DEF new
  <2>4. \A u \in ToolCalls : log'[u] = IF u = t THEN [conn |-> connID, status |-> status[e.what]]
                                       ELSE log[u]
    BY <2>2 DEF Shape
  <2>5. status[e.what] \in Statuses
    BY <1>3 DEF Statuses, ToolMail
  <2>6. CallsInv'
    BY <1>1, <2>1, <2>2, <2>3, <2>4, <2>5 DEF ToolsInv, CallsInv
  <2>7. Elsewhere(t)
    BY <1>1, <2>2, <2>3, <2>4 DEF Elsewhere
  <2>8. PhaseOf(t)'
    <3>1. CASE e.what = "approval"
      <4>1. Untouched(t)
        BY <1>1, <2>1, <3>1 DEF Open, Mails, ToolsInv, PhaseInv, PhaseOf
      <4>2. \A d \in mail : d.what = "approval" /\ d.call = t => d = e
        BY <1>1, <1>3, <2>1, <3>1 DEF ToolsInv, CallsInv, Shape, ToolMail
      <4>3. ~Mails(t, {"approval"})'
        BY <1>1, <4>2 DEF Mails
      <4>4. ~Mails(t, {"execute", "result"})' /\ ~Waited(t, ToolKinds)'
        BY <1>1, <2>2, <3>1, <4>1 DEF Untouched, Mails, Waited
      <4>5. log'[t].status = "awaiting-approval"
        BY <2>1, <2>4, <3>1
      <4> QED
        BY <1>1, <4>1, <4>3, <4>4, <4>5 DEF PhaseOf, Untouched, Denied
    <3>2. CASE e.what # "approval"
      <4>1. ~Open(t)
        BY <1>1, <1>3, <2>1, <3>2, Taken DEF Mails, ToolMail
      <4>2. ~Open(t)'
        BY <1>1, <2>2, <3>2, <4>1 DEF Open, Mails
      <4>3. ~Denied(t)'
        BY <1>3, <2>1, <2>4, <3>2 DEF Denied, ToolMail
      <4> QED
        BY <4>2, <4>3 DEF PhaseOf, Open
    <3> QED
      BY <3>1, <3>2
  <2> QED
    BY <2>6, <2>7, <2>8, OthersKept DEF ToolsInv, PhaseInv
<1> QED
  BY <1>2, <1>3

LEMMA ToolsStep == Shape /\ ToolsInv /\ [AIPanelNext]_aiPanelVars => ToolsInv'
<1> SUFFICES ASSUME Shape, ToolsInv, [AIPanelNext]_aiPanelVars PROVE ToolsInv'
  OBVIOUS
<1>1. ASSUME NEW c \in Conns, ChangeAITab(c) PROVE ToolsInv'
  BY <1>1, ReloadIsAside, AsideStep DEF ChangeAITab
<1>2. CASE Rerender
  BY <1>2, ReloadIsAside, AsideStep DEF Rerender, Shape
<1>3. CASE UNCHANGED aiPanelVars
  <2>1. UNCHANGED <<connID, cards, log, stage, mail, waits>>
    BY <1>3 DEF aiPanelVars, toolVars
  <2> QED
    BY <2>1, AsideStep DEF Aside, Shape
<1> QED
  BY <1>1, <1>2, <1>3, AsideStep, AnswersAreAside, ButtonsAreAside, MessageIsAside, AskStep,
     DecideStep, DecisionStep, CancelStep, RunStep, SubmitStep, HearStep
     DEF AIPanelNext, LoadGoesOn, CallGoesOn

-----------------------------------------------------------------------------

AIPanelInv == Shape /\ BusyInv /\ ToolsInv

LEMMA AIPanelInvAtFirst == AIPanelInit => AIPanelInv
<1> SUFFICES ASSUME AIPanelInit PROVE AIPanelInv
  OBVIOUS
<1>1. WaitOK(Wait("config", "effect")) /\ Wait("config", "effect").kind = "config"
  BY WaitIs DEF WaitOK
<1>2. Shape
  BY <1>1 DEF AIPanelInit, Shape, NoEntry, NoStage
<1>3. BusyInv
  BY DEF AIPanelInit, BusyInv
<1>4. CallsInv
  BY <1>1 DEF AIPanelInit, CallsInv, ToolKinds
<1>5. PhaseInv
  BY DEF AIPanelInit, PhaseInv, PhaseOf, Open, Mails, Denied
<1> QED
  BY <1>2, <1>3, <1>4, <1>5 DEF AIPanelInv, ToolsInv

LEMMA AIPanelInvAlways == AIPanelSpec => []AIPanelInv
<1>1. AIPanelInv /\ [AIPanelNext]_aiPanelVars => AIPanelInv'
  BY ShapeStep, BusyStep, ToolsStep DEF AIPanelInv
<1> QED
  BY <1>1, AIPanelInvAtFirst, PTL DEF AIPanelSpec

\* Cards and log entries are those of the connection of their call, however late events
\* and answers are: the handlers look at the connection of an event, and the effect drops
\* the cards of the tab that is left.
THEOREM CardsAreOfTab == AIPanelSpec => []CardsOfTab
<1>1. AIPanelInv => CardsOfTab
  BY DEF AIPanelInv, ToolsInv, CallsInv, CardsOfTab
<1> QED
  BY <1>1, AIPanelInvAlways, PTL

\* What is shown as busy waits for an answer that ends it, through failures, changes of
\* tab and rounds that are given up.
THEOREM BusyIsAwaited == AIPanelSpec => []BusyWaits
<1>1. AIPanelInv => BusyWaits
  BY BusyInvSays DEF AIPanelInv
<1> QED
  BY <1>1, AIPanelInvAlways, PTL

-----------------------------------------------------------------------------
(* The log goes forward                                                    *)

Forward(t) ==
  log[t] # NoEntry /\ log'[t] # NoEntry /\ log'[t] # log[t]
  => /\ Rank(log'[t].status) >= Rank(log[t].status)
     /\ log'[t].status = "denied" => log[t].status = "awaiting-approval"

LEMMA DecideForward ==
  ASSUME Shape, ToolsInv, NEW u \in ToolCalls, approveTool(u) \/ denyTool(u), NEW t \in ToolCalls
  PROVE  Forward(t)
<1>1. PICK status \in {"approved", "denied"} :
        log' = [log EXCEPT ![u] = [conn |-> connID, status |-> status]]
  BY DEF approveTool, denyTool, Decide, upsertAIToolLogEntry, Entry
<1>2. u \in cards
  BY DEF approveTool, denyTool, Decide
<1>3. log[u] # NoEntry => log[u].status = "awaiting-approval"
  BY <1>2 DEF ToolsInv, PhaseInv, PhaseOf, Open, Untouched
<1>4. log'[t] = IF t = u THEN [conn |-> connID, status |-> status] ELSE log[t]
  BY <1>1 DEF Shape
<1> QED
  BY <1>3, <1>4 DEF Forward, Rank

\* A call that runs or has ended was not denied.
LEMMA RunForward ==
  ASSUME Shape, ToolsInv, NEW u \in ToolCalls, NEW c, NEW status \in {"running", "ended"},
         log' = [log EXCEPT ![u] = [conn |-> c, status |-> status]], ~Denied(u),
         NEW t \in ToolCalls
  PROVE  Forward(t)
<1>1. log'[t] = IF t = u THEN [conn |-> c, status |-> status] ELSE log[t]
  BY DEF Shape
<1>2. log[u] # NoEntry => log[u].status \in Statuses \ {"denied"}
  BY DEF Denied, ToolsInv, CallsInv
<1>3. Rank(status) = 2 /\ \A s \in Statuses \ {"denied"} : Rank(s) \in 0 .. 2
  BY DEF Rank, Statuses
<1> QED
  BY <1>1, <1>2, <1>3 DEF Forward

\* The log of a call goes forward: one that was denied is never run by this window, one
\* that runs or has ended is never open to a decision again.
THEOREM LogGoesForward == AIPanelSpec => LogForward
<1>1. ASSUME AIPanelInv, [AIPanelNext]_aiPanelVars, NEW t \in ToolCalls PROVE Forward(t)
  <2> USE <1>1 DEF AIPanelInv
  <2>1. ASSUME log' = log PROVE Forward(t)
    BY <2>1 DEF Forward
  <2>2. CASE AnswerToClear
    <3>1. log' = log \/ log' = Cleared(question.conn)
      BY <2>2 DEF AnswerToClear
    <3> QED
      BY <3>1 DEF Cleared, Forward
  <2>3. ASSUME NEW w, ToolRuns(w) PROVE Forward(t)
    <3>1. /\ w \in waits /\ w.kind = "tool"
          /\ log' = [log EXCEPT ![w.call] = [conn |-> w.conn, status |-> "ended"]]
      BY <2>3 DEF ToolRuns, Heard, upsertAIToolLogEntry, Entry
    <3>2. w.call \in ToolCalls
      BY <3>1 DEF ToolsInv, CallsInv, ToolKinds
    <3>3. ~Denied(w.call)
      BY <3>1, <3>2, Taken DEF Waited
    <3> QED
      BY <3>1, <3>2, <3>3, RunForward
  <2>4. ASSUME NEW e, HearMail(e) PROVE Forward(t)
    <3>1. CASE e.conn = connID /\ e.what \in {"execute", "result"}
      <4>1. PICK status \in {"running", "ended"} :
              log' = [log EXCEPT ![e.call] = [conn |-> connID, status |-> status]]
        BY <2>4, <3>1 DEF HearMail, upsertAIToolLogEntry, Entry
      <4>2. e \in mail /\ e.call \in ToolCalls
        BY <2>4, <3>1 DEF HearMail, ToolsInv, CallsInv, ToolMail
      <4>3. ~Denied(e.call)
        BY <3>1, <4>2, Taken DEF Mails
      <4> QED
        BY <4>1, <4>2, <4>3, RunForward
    <3>2. CASE e.conn = connID /\ e.what = "approval"
      <4>1. log' = [log EXCEPT ![e.call] = [conn |-> connID, status |-> "awaiting-approval"]]
        BY <2>4, <3>2 DEF HearMail, upsertAIToolLogEntry, Entry
      <4>2. e \in mail /\ e.call \in ToolCalls
        BY <2>4, <3>2 DEF HearMail, ToolsInv, CallsInv, ToolMail
      <4>3. log[e.call] # NoEntry => log[e.call].status = "awaiting-approval"
        BY <3>2, <4>2 DEF ToolsInv, PhaseInv, PhaseOf, Open, Mails, Untouched
      <4>4. log'[t] = IF t = e.call THEN [conn |-> connID, status |-> "awaiting-approval"] ELSE log[t]
        BY <4>1 DEF Shape
      <4> QED
        BY <4>3, <4>4 DEF Forward, Rank
    <3>3. CASE ~(e.conn = connID /\ e.what \in ToolMail)
      BY <2>1, <2>4, <3>3 DEF HearMail, ToolMail
    <3> QED
      BY <3>1, <3>2, <3>3 DEF ToolMail
  <2>5. CASE UNCHANGED log
    BY <2>1, <2>5
  <2>6. CASE updateConfig \/ fetchModels \/ saveConfig \/ setDraft \/ sendMessage \/ cancelProcessing
             \/ AskToClear \/ Rerender \/ LoadGoesOn
    BY <2>5, <2>6 DEF updateConfig, fetchModels, saveConfig, setDraft, sendMessage,
       cancelProcessing, AskToClear, Rerender, LoadGoesOn, ConfigAnswered, HistoryAnswered,
       ModelsAnswered, toolVars
  <2>7. ASSUME NEW c \in Conns, ChangeAITab(c) \/ MessageComes(c) PROVE Forward(t)
    BY <2>1, <2>7 DEF ChangeAITab, MessageComes
  <2>8. ASSUME NEW c \in Conns, NEW u \in ToolCalls, ToolAsked(u, c) PROVE Forward(t)
    BY <2>1, <2>8 DEF ToolAsked
  <2>9. ASSUME NEW w, \/ SaveAnswered(w) \/ SendAnswered(w) \/ ClearAnswered(w)
                      \/ DecisionArrives(w) \/ CancelArrives(w) \/ SubmitArrives(w)
                      \/ CallRefused(w)
        PROVE Forward(t)
    BY <2>1, <2>9 DEF SaveAnswered, SendAnswered, ClearAnswered, DecisionArrives, CancelArrives,
       SubmitArrives, CallRefused, toolVars
  <2>10. CASE UNCHANGED aiPanelVars
    BY <2>1, <2>10 DEF aiPanelVars, toolVars
  <2> QED
    BY <2>2, <2>3, <2>4, <2>6, <2>7, <2>8, <2>9, <2>10, DecideForward DEF AIPanelNext, CallGoesOn
<1>2. AIPanelInv /\ [AIPanelNext]_aiPanelVars
      => [\A t \in ToolCalls : Forward(t)]_aiPanelVars
  BY <1>1
<1>3. [\A t \in ToolCalls : Forward(t)]_aiPanelVars
      <=> [\A t \in ToolCalls :
             /\ log[t] # NoEntry /\ log'[t] # NoEntry /\ log'[t] # log[t]
             => /\ Rank(log'[t].status) >= Rank(log[t].status)
                /\ log'[t].status = "denied" => log[t].status = "awaiting-approval"]_aiPanelVars
  BY DEF Forward
<1> QED
  BY <1>2, <1>3, AIPanelInvAlways, PTL DEF AIPanelSpec, LogForward
==============================================================================

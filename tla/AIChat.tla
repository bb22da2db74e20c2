------------------------------- MODULE AIChat -------------------------------
(***************************************************************************)
(* The AI chat service, internal/ai/service.go, with the panel of the      *)
(* frontend that drives it (useAIChatPanel.ts, useAIToolExecution.ts).     *)
(*                                                                         *)
(* Every SSH connection has a connState (processing flag, cancel channel,  *)
(* queue of messages); connections to one server share a session, the      *)
(* message list that is sent to the model.  SendMessage starts a goroutine *)
(* (a worker) that answers a message in up to maxRounds rounds and then    *)
(* drains the queue; a round may ask the user to approve tool calls, which *)
(* the frontend then executes.                                             *)
(*                                                                         *)
(* A user message is named by its number among those its connection sent,  *)
(* and a cancel channel by the message whose turn made it (0 is nil).  The *)
(* text of messages, prompts and results is left out.  callAPIStream tries *)
(* three times and changes nothing in between: its outcome is one choice.  *)
(***************************************************************************)
EXTENDS Naturals, Sequences, FiniteSets

CONSTANTS
  Conns,       \* connection ids
  Keys,        \* server keys (host:port)
  KeyOf,       \* resolveKey: the server key of a connection
  Slots,       \* bound: workers of one connection alive at a time
  MaxRounds,   \* maxRounds of processWithTools
  MaxCalls,    \* bound: tool calls in one answer of the model
  Budget,      \* messages that fit the context budget of buildMessages
  SystemRole,  \* FALSE for TTS models, which get no system message
  MaxSends,    \* bound: messages sent on a connection
  MaxCancels,  \* bound: cancellations (and panel closings) on a connection
  MaxClears    \* bound: ClearChatHistory calls on a connection

ASSUME ChatAssumption ==
  /\ KeyOf \in [Conns -> Keys]
  /\ MaxRounds \in Nat \ {0}
  /\ MaxCalls \in Nat
  /\ Budget \in Nat \ {0}
  /\ SystemRole \in BOOLEAN
  /\ MaxSends \in Nat
  /\ MaxCancels \in Nat
  /\ MaxClears \in Nat

VARIABLES
  processing, cancel, queue,   \* connState, by connection
  closed,                      \* the cancel channels that were closed
  messages, disk,              \* session and its history file, by server key
  wiping,                      \* connections between the two steps of a clear
  pc, turn, round,             \* workers: place, message answered, round
  calls, call, ch, snapshot,   \* workers: locals of the rounds
  approvals, verdicts,         \* s.approvals: registered calls, buffered answers
  results, answers,            \* s.results: registered calls, buffered answers
  panel, cards, executing,     \* frontend: panel open, approvals shown, tools run
  dropping,                    \* frontend: connections about to setApprovals([])
  sent, cancels, clears        \* how often the user acted, by connection

connVars == <<processing, cancel, queue, closed>>
sessVars == <<messages, disk, wiping>>
workVars == <<pc, turn, round, calls, call, ch, snapshot>>
toolVars == <<approvals, verdicts, results, answers>>
userVars == <<panel, cards, executing, dropping>>
countVars == <<sent, cancels, clears>>
vars == <<connVars, sessVars, workVars, toolVars, userVars, countVars>>

Worker == Conns \X Slots
ConnOf(w) == w[1]
Places == {"idle", "append", "round", "check", "api", "ask", "capture", "approval", "exec",
           "captureExec", "result", "summary", "final", "persist", "save", "dequeue"}

\* call is the number of tool calls of an assistant message, or the index of the call a
\* tool message answers.
Msg == [role : {"user", "assistant", "tool"}, conn : Conns,
        n : Nat, round : Nat, call : Nat]
CallId == [conn : Conns, n : Nat, round : Nat, call : Nat]

Id(w) == [conn |-> ConnOf(w), n |-> turn[w], round |-> round[w], call |-> call[w]]
Message(w, role, r, k) ==
  [role |-> role, conn |-> ConnOf(w), n |-> turn[w], round |-> r, call |-> k]

Live(w) == pc[w] # "idle"
Waiting(w) == pc[w] \in {"approval", "result"}

-----------------------------------------------------------------------------
(* What buildMessages makes of a session.  Its two trims are loops over the  *)
(* ends of the list; the leading one looks at the system message first and   *)
(* so only ever acts for the models that get none.                           *)

HasCalls(m) == m.role = "assistant" /\ m.call > 0

WithinBudget(raw) ==
  SubSeq(raw, IF Len(raw) > Budget THEN Len(raw) - Budget + 1 ELSE 1, Len(raw))

Orphan(s, i) ==
  \/ s[i].role = "tool"
  \/ HasCalls(s[i]) /\ ~(i < Len(s) /\ s[i + 1].role = "tool")

FirstKept(s) ==
  IF SystemRole THEN 1
  ELSE CHOOSE i \in 1 .. Len(s) + 1 :
         /\ i <= Len(s) => ~Orphan(s, i)
         /\ \A j \in 1 .. i - 1 : Orphan(s, j)

LastKept(s) ==
  CHOOSE i \in 0 .. Len(s) :
    /\ i > 0 => ~HasCalls(s[i])
    /\ \A j \in i + 1 .. Len(s) : HasCalls(s[j])

\* The messages after the system message.
buildMessages(raw) ==
  LET s == WithinBudget(raw) IN SubSeq(s, FirstKept(s), LastKept(s))

\* Every answer that asks for tools is followed at once by the results of all its calls,
\* and no result stands anywhere else: what the chat completion protocol requires.
Paired(s) ==
  \A i \in 1 .. Len(s) :
    /\ HasCalls(s[i]) =>
         \A j \in 1 .. s[i].call :
           /\ i + j <= Len(s)
           /\ s[i + j] = [s[i] EXCEPT !.role = "tool", !.call = j]
    /\ s[i].role = "tool" =>
         /\ i > s[i].call
         /\ LET a == s[i - s[i].call]
            IN HasCalls(a) /\ a.call >= s[i].call /\ a.conn = s[i].conn
                 /\ a.n = s[i].n /\ a.round = s[i].round

-----------------------------------------------------------------------------
Init ==
  /\ processing = [c \in Conns |-> FALSE]
  /\ cancel = [c \in Conns |-> 0]
  /\ queue = [c \in Conns |-> <<>>]
  /\ closed = [c \in Conns |-> {}]
  /\ messages = [k \in Keys |-> <<>>]
  /\ disk = [k \in Keys |-> <<>>]
  /\ wiping = {}
  /\ pc = [w \in Worker |-> "idle"]
  /\ turn = [w \in Worker |-> 0]
  /\ round = [w \in Worker |-> 0]
  /\ calls = [w \in Worker |-> 0]
  /\ call = [w \in Worker |-> 0]
  /\ ch = [w \in Worker |-> 0]
  /\ snapshot = [w \in Worker |-> <<>>]
  /\ approvals = {} /\ verdicts = {} /\ results = {} /\ answers = {}
  /\ panel = [c \in Conns |-> TRUE]
  /\ cards = {} /\ executing = {} /\ dropping = {}
  /\ sent = [c \in Conns |-> 0]
  /\ cancels = [c \in Conns |-> 0]
  /\ clears = [c \in Conns |-> 0]

Say(w, m) == messages' = [messages EXCEPT ![KeyOf[ConnOf(w)]] = Append(@, m)]
Goto(w, place) == pc' = [pc EXCEPT ![w] = place]

-----------------------------------------------------------------------------
(* SendMessage, CancelProcessing, processQueue                             *)

\* Fault: the processing flag was read before the lock was taken.
EnqueueOnStaleFlag(c) ==
  /\ panel[c] /\ sent[c] < MaxSends
  /\ sent' = [sent EXCEPT ![c] = @ + 1]
  /\ queue' = [queue EXCEPT ![c] = Append(@, sent[c] + 1)]
  /\ UNCHANGED <<processing, cancel, closed, sessVars, workVars, toolVars, userVars,
                 cancels, clears>>

\* SendMessage while a worker is at it: the message is queued.
Enqueue(c) ==
  /\ panel[c] /\ sent[c] < MaxSends
  /\ processing[c]
  /\ sent' = [sent EXCEPT ![c] = @ + 1]
  /\ queue' = [queue EXCEPT ![c] = Append(@, sent[c] + 1)]
  /\ UNCHANGED <<processing, cancel, closed, sessVars, workVars, toolVars, userVars,
                 cancels, clears>>

\* Fault: every message starts a worker of its own.
StartAlways(w) ==
  LET c == ConnOf(w) IN
  /\ panel[c] /\ sent[c] < MaxSends /\ ~Live(w)
  /\ sent' = [sent EXCEPT ![c] = @ + 1]
  /\ processing' = [processing EXCEPT ![c] = TRUE]
  /\ cancel' = [cancel EXCEPT ![c] = sent[c] + 1]
  /\ turn' = [turn EXCEPT ![w] = sent[c] + 1]
  /\ Goto(w, "append")
  /\ UNCHANGED <<queue, closed, sessVars, round, calls, call, ch, snapshot, toolVars,
                 userVars, cancels, clears>>

\* Fault: no cancel channel is made for the turn.
StartWithoutChannel(w) ==
  LET c == ConnOf(w) IN
  /\ panel[c] /\ sent[c] < MaxSends /\ ~processing[c] /\ ~Live(w)
  /\ sent' = [sent EXCEPT ![c] = @ + 1]
  /\ processing' = [processing EXCEPT ![c] = TRUE]
  /\ turn' = [turn EXCEPT ![w] = sent[c] + 1]
  /\ Goto(w, "append")
  /\ UNCHANGED <<cancel, queue, closed, sessVars, round, calls, call, ch, snapshot,
                 toolVars, userVars, cancels, clears>>

\* SendMessage otherwise: it claims the connection, and goes on outside the lock.
Start(w) ==
  LET c == ConnOf(w) IN
  /\ panel[c] /\ sent[c] < MaxSends
  /\ ~processing[c]
  /\ ~Live(w)
  /\ sent' = [sent EXCEPT ![c] = @ + 1]
  /\ processing' = [processing EXCEPT ![c] = TRUE]
  /\ cancel' = [cancel EXCEPT ![c] = sent[c] + 1]
  /\ turn' = [turn EXCEPT ![w] = sent[c] + 1]
  /\ Goto(w, "append")
  /\ UNCHANGED <<queue, closed, sessVars, round, calls, call, ch, snapshot, toolVars,
                 userVars, cancels, clears>>

\* The user message enters the session, and the worker its first round.
AppendUser(w) ==
  /\ pc[w] = "append"
  /\ Say(w, Message(w, "user", 0, 0))
  /\ round' = [round EXCEPT ![w] = 1]
  /\ Goto(w, "round")
  /\ UNCHANGED <<connVars, disk, wiping, turn, calls, call, ch, snapshot, toolVars,
                 userVars, countVars>>

\* Fault: the newest message is taken first.
DequeueNewest(w) ==
  LET c == ConnOf(w)
      q == queue[c]
  IN
  /\ pc[w] = "dequeue"
  /\ processing' = [processing EXCEPT ![c] = q # <<>>]
  /\ cancel' = [cancel EXCEPT ![c] = IF q = <<>> THEN 0 ELSE q[Len(q)]]
  /\ turn' = [turn EXCEPT ![w] = IF q = <<>> THEN @ ELSE q[Len(q)]]
  /\ queue' = [queue EXCEPT ![c] = IF q = <<>> THEN @ ELSE SubSeq(@, 1, Len(@) - 1)]
  /\ Goto(w, IF q = <<>> THEN "idle" ELSE "append")
  /\ UNCHANGED <<closed, sessVars, round, calls, call, ch, snapshot, toolVars, userVars,
                 countVars>>

\* Fault: the goroutine ends with its message and leaves the queue and the flag alone.
DequeueNothing(w) ==
  /\ pc[w] = "dequeue"
  /\ Goto(w, "idle")
  /\ UNCHANGED <<connVars, sessVars, turn, round, calls, call, ch, snapshot, toolVars,
                 userVars, countVars>>

\* One turn of the loop of processQueue.
Dequeue(w) ==
  LET c == ConnOf(w) IN
  /\ pc[w] = "dequeue"
  /\ IF queue[c] = <<>>
     THEN /\ processing' = [processing EXCEPT ![c] = FALSE]
          /\ cancel' = [cancel EXCEPT ![c] = 0]
          /\ Goto(w, "idle")
          /\ UNCHANGED <<queue, turn>>
     ELSE /\ queue' = [queue EXCEPT ![c] = Tail(@)]
          /\ cancel' = [cancel EXCEPT ![c] = Head(queue[c])]
          /\ turn' = [turn EXCEPT ![w] = Head(queue[c])]
          /\ Goto(w, "append")
          /\ UNCHANGED processing
  /\ UNCHANGED <<closed, sessVars, round, calls, call, ch, snapshot, toolVars, userVars,
                 countVars>>

\* What CancelProcessing does to a connState.
CancelState(c) ==
  /\ closed' = [closed EXCEPT ![c] = IF cancel[c] = 0 THEN @ ELSE @ \cup {cancel[c]}]
  /\ cancel' = [cancel EXCEPT ![c] = 0]
  /\ queue' = [queue EXCEPT ![c] = <<>>]
  /\ processing' = [processing EXCEPT ![c] = FALSE]

CancelProcessing(c) ==
  /\ panel[c] /\ cancels[c] < MaxCancels
  /\ c \notin dropping
  /\ CancelState(c)
  /\ cancels' = [cancels EXCEPT ![c] = @ + 1]
  /\ dropping' = dropping \cup {c}
  /\ UNCHANGED <<sessVars, workVars, toolVars, panel, cards, executing, sent, clears>>

-----------------------------------------------------------------------------
(* processWithTools                                                        *)

\* The captured cancel channel is closed; a nil one (0) never is.
Woken(w) == ch[w] \in closed[ConnOf(w)]

\* The head of a round: isCancelled reads cs.cancel under the lock ...
ReadCancel(w) ==
  /\ pc[w] = "round"
  /\ ch' = [ch EXCEPT ![w] = cancel[ConnOf(w)]]
  /\ Goto(w, "check")
  /\ UNCHANGED <<connVars, sessVars, turn, round, calls, call, snapshot, toolVars, userVars,
                 countVars>>

\* ... and looks at it after: the turn ends here, or the request is built and sent.
RoundCancelled(w) ==
  /\ pc[w] = "check" /\ Woken(w)
  /\ Goto(w, "dequeue")
  /\ UNCHANGED <<connVars, sessVars, turn, round, calls, call, ch, snapshot, toolVars,
                 userVars, countVars>>

StartRound(w) ==
  /\ pc[w] = "check" /\ ~Woken(w)
  /\ Goto(w, "api")
  /\ UNCHANGED <<connVars, sessVars, turn, round, calls, call, ch, snapshot, toolVars,
                 userVars, countVars>>

\* callAPI or parseChoice fails: emitError leaves an answer in the session, unsaved.
CallFails(w) ==
  /\ pc[w] \in {"api", "final"}
  /\ Say(w, Message(w, "assistant", round[w], 0))
  /\ Goto(w, "dequeue")
  /\ UNCHANGED <<connVars, disk, wiping, turn, round, calls, call, ch, snapshot, toolVars,
                 userVars, countVars>>

CallReplies(w) ==
  /\ pc[w] \in {"api", "final"}
  /\ Say(w, Message(w, "assistant", round[w], 0))
  /\ Goto(w, "persist")
  /\ UNCHANGED <<connVars, disk, wiping, turn, round, calls, call, ch, snapshot, toolVars,
                 userVars, countVars>>

CallAsksTools(w, k) ==
  /\ pc[w] = "api"
  /\ Say(w, Message(w, "assistant", round[w], k))
  /\ calls' = [calls EXCEPT ![w] = k]
  /\ call' = [call EXCEPT ![w] = 1]
  /\ Goto(w, "ask")
  /\ UNCHANGED <<connVars, disk, wiping, turn, round, ch, snapshot, toolVars, userVars,
                 countVars>>

\* waitForApproval up to the emitted event; an open panel shows it.
Ask(w) ==
  /\ pc[w] = "ask"
  /\ approvals' = approvals \cup {Id(w)}
  /\ cards' = IF panel[ConnOf(w)] THEN cards \cup {Id(w)} ELSE cards
  /\ Goto(w, "capture")
  /\ UNCHANGED <<connVars, sessVars, turn, round, calls, call, ch, snapshot, verdicts,
                 results, answers, panel, executing, dropping, countVars>>

\* executeViaFrontend up to the emitted event; an open panel runs the tool.
Execute(w) ==
  /\ pc[w] = "exec"
  /\ results' = results \cup {Id(w)}
  /\ executing' = IF panel[ConnOf(w)] THEN executing \cup {Id(w)} ELSE executing
  /\ Goto(w, "captureExec")
  /\ UNCHANGED <<connVars, sessVars, turn, round, calls, call, ch, snapshot, approvals,
                 verdicts, answers, panel, cards, dropping, countVars>>

\* Both read cs.cancel only now, before they block in their select.
Capture(w) ==
  /\ pc[w] \in {"capture", "captureExec"}
  /\ ch' = [ch EXCEPT ![w] = cancel[ConnOf(w)]]
  /\ Goto(w, IF pc[w] = "capture" THEN "approval" ELSE "result")
  /\ UNCHANGED <<connVars, sessVars, turn, round, calls, call, snapshot, toolVars, userVars,
                 countVars>>

Approved(w) ==
  /\ pc[w] = "approval"
  /\ <<Id(w), TRUE>> \in verdicts
  /\ approvals' = approvals \ {Id(w)}
  /\ verdicts' = verdicts \ {<<Id(w), TRUE>>}
  /\ Goto(w, "exec")
  /\ UNCHANGED <<connVars, sessVars, turn, round, calls, call, ch, snapshot, results,
                 answers, userVars, countVars>>

\* Fault: a refused call is answered by no tool message and ends its round.
RefusedSilently(w) ==
  /\ pc[w] = "approval"
  /\ <<Id(w), FALSE>> \in verdicts \/ Woken(w)
  /\ approvals' = approvals \ {Id(w)}
  /\ verdicts' = verdicts \ ({Id(w)} \X BOOLEAN)
  /\ round' = [round EXCEPT ![w] = @ + 1]
  /\ Goto(w, IF round[w] < MaxRounds THEN "round" ELSE "summary")
  /\ UNCHANGED <<connVars, sessVars, turn, calls, call, ch, snapshot, results, answers,
                 userVars, countVars>>

\* The tool message is appended; then the next call, the next round, or the summary.
ToolDone(w) ==
  /\ Say(w, Message(w, "tool", round[w], call[w]))
  /\ IF call[w] < calls[w]
     THEN /\ call' = [call EXCEPT ![w] = @ + 1]
          /\ Goto(w, "ask")
          /\ UNCHANGED round
     ELSE /\ call' = [call EXCEPT ![w] = 0]
          /\ round' = [round EXCEPT ![w] = @ + 1]
          /\ Goto(w, IF round[w] < MaxRounds THEN "round" ELSE "summary")
  /\ UNCHANGED <<connVars, disk, wiping, turn, calls, ch, snapshot, userVars, countVars>>

\* Denied by the user, or cancelled: the call is answered with a refusal.
Refused(w) ==
  /\ pc[w] = "approval"
  /\ <<Id(w), FALSE>> \in verdicts \/ Woken(w)
  /\ approvals' = approvals \ {Id(w)}
  /\ verdicts' = verdicts \ ({Id(w)} \X BOOLEAN)
  /\ ToolDone(w)
  /\ UNCHANGED <<results, answers>>

\* The frontend's result, or the note that the user cancelled.
Finish(w) ==
  /\ pc[w] = "result"
  /\ Id(w) \in answers \/ Woken(w)
  /\ results' = results \ {Id(w)}
  /\ answers' = answers \ {Id(w)}
  /\ ToolDone(w)
  /\ UNCHANGED <<approvals, verdicts>>

\* The rounds are used up: a prompt asks for a summary, and the last call has no tools.
Summarise(w) ==
  /\ pc[w] = "summary"
  /\ Say(w, Message(w, "user", round[w], 0))
  /\ Goto(w, "final")
  /\ UNCHANGED <<connVars, disk, wiping, turn, round, calls, call, ch, snapshot, toolVars,
                 userVars, countVars>>

\* persistMessages copies the session under its lock, and saves the copy.
Copy(w) ==
  /\ pc[w] = "persist"
  /\ snapshot' = [snapshot EXCEPT ![w] = messages[KeyOf[ConnOf(w)]]]
  /\ Goto(w, "save")
  /\ UNCHANGED <<connVars, sessVars, turn, round, calls, call, ch, toolVars, userVars,
                 countVars>>

Save(w) ==
  /\ pc[w] = "save"
  /\ disk' = [disk EXCEPT ![KeyOf[ConnOf(w)]] = snapshot[w]]
  /\ snapshot' = [snapshot EXCEPT ![w] = <<>>]
  /\ Goto(w, "dequeue")
  /\ UNCHANGED <<connVars, messages, wiping, turn, round, calls, call, ch, toolVars,
                 userVars, countVars>>

-----------------------------------------------------------------------------
(* The user and the frontend                                               *)

\* ApproveTool, DenyTool.  A channel holds one value, and the first one counts.
Decide(id, v) ==
  /\ id \in cards
  /\ cards' = cards \ {id}
  /\ verdicts' = IF id \in approvals /\ {id} \X BOOLEAN \cap verdicts = {}
                 THEN verdicts \cup {<<id, v>>} ELSE verdicts
  /\ UNCHANGED <<connVars, sessVars, workVars, approvals, results, answers, panel,
                 executing, dropping, countVars>>

\* SubmitToolResult, once executeAITool has returned; nobody waits for a late result.
SubmitToolResult(id) ==
  /\ id \in executing
  /\ executing' = executing \ {id}
  /\ answers' = IF id \in results THEN answers \cup {id} ELSE answers
  /\ UNCHANGED <<connVars, sessVars, workVars, approvals, verdicts, results, panel, cards,
                 dropping, countVars>>

CardsOf(c) == {id \in cards : id.conn = c}

\* cancelProcessing goes on after CancelProcessing has returned: setApprovals([]).
DropCards(c) ==
  /\ c \in dropping
  /\ dropping' = dropping \ {c}
  /\ cards' = cards \ CardsOf(c)
  /\ UNCHANGED <<connVars, sessVars, workVars, toolVars, panel, executing, countVars>>

\* The panel unmounts: its cards are gone and it cancels what is under way.
ClosePanel(c) ==
  /\ panel[c] /\ cancels[c] < MaxCancels
  /\ panel' = [panel EXCEPT ![c] = FALSE]
  /\ cards' = cards \ CardsOf(c)
  /\ dropping' = dropping \ {c}
  /\ CancelState(c)
  /\ cancels' = [cancels EXCEPT ![c] = @ + 1]
  /\ UNCHANGED <<sessVars, workVars, toolVars, executing, sent, clears>>

OpenPanel(c) ==
  /\ ~panel[c]
  /\ panel' = [panel EXCEPT ![c] = TRUE]
  /\ UNCHANGED <<connVars, sessVars, workVars, toolVars, cards, executing, dropping,
                 countVars>>

\* An empty session is read from its history file.
GetChatHistory(c) ==
  LET k == KeyOf[c] IN
  /\ panel[c]
  /\ messages[k] = <<>>
  /\ messages' = [messages EXCEPT ![k] = disk[k]]
  /\ UNCHANGED <<connVars, disk, wiping, workVars, toolVars, userVars, countVars>>

\* ClearChatHistory: the session under its lock, then the file.
ClearSession(c) ==
  /\ panel[c] /\ clears[c] < MaxClears
  /\ c \notin wiping
  /\ messages' = [messages EXCEPT ![KeyOf[c]] = <<>>]
  /\ wiping' = wiping \cup {c}
  /\ clears' = [clears EXCEPT ![c] = @ + 1]
  /\ UNCHANGED <<connVars, disk, workVars, toolVars, userVars, sent, cancels>>

ClearFile(c) ==
  /\ c \in wiping
  /\ disk' = [disk EXCEPT ![KeyOf[c]] = <<>>]
  /\ wiping' = wiping \ {c}
  /\ UNCHANGED <<connVars, messages, workVars, toolVars, userVars, countVars>>

-----------------------------------------------------------------------------
\* The call of the model comes back.
CallEnds(w) ==
  \/ CallFails(w) \/ CallReplies(w)
  \/ \E k \in 1 .. MaxCalls : CallAsksTools(w, k)

\* What a worker does by itself, and once what it waits for has come.
GoesOn(w) ==
  \/ AppendUser(w) \/ Dequeue(w)
  \/ ReadCancel(w) \/ RoundCancelled(w) \/ StartRound(w)
  \/ Ask(w) \/ Execute(w) \/ Capture(w)
  \/ Approved(w) \/ Refused(w) \/ Finish(w)
  \/ Summarise(w) \/ Copy(w) \/ Save(w)

WorkerStep(w) == GoesOn(w) \/ CallEnds(w)

UserStep(c) ==
  \/ Enqueue(c)
  \/ CancelProcessing(c) \/ DropCards(c)
  \/ ClosePanel(c) \/ OpenPanel(c)
  \/ GetChatHistory(c) \/ ClearSession(c) \/ ClearFile(c)

Next ==
  \/ \E w \in Worker : Start(w) \/ WorkerStep(w)
  \/ \E c \in Conns : UserStep(c)
  \/ \E id \in cards, v \in BOOLEAN : Decide(id, v)
  \/ \E id \in executing : SubmitToolResult(id)

Spec == Init /\ [][Next]_vars

\* Goroutines that can run do run.  Nothing makes the model answer, as the client has no
\* timeout (service.go:693), nor a command that a tool runs end, nor the user decide.
Fairness == \A w \in Worker : WF_vars(GoesOn(w))

FairSpec == Spec /\ Fairness

-----------------------------------------------------------------------------
(* Properties                                                              *)

ConnType ==
  /\ processing \in [Conns -> BOOLEAN]
  /\ cancel \in [Conns -> Nat]
  /\ queue \in [Conns -> Seq(Nat \ {0})]
  /\ closed \in [Conns -> SUBSET (Nat \ {0})]
SessType ==
  /\ messages \in [Keys -> Seq(Msg)]
  /\ disk \in [Keys -> Seq(Msg)]
  /\ wiping \subseteq Conns
WorkType ==
  /\ pc \in [Worker -> Places]
  /\ turn \in [Worker -> Nat]
  /\ round \in [Worker -> 0 .. MaxRounds + 1]
  /\ calls \in [Worker -> 0 .. MaxCalls]
  /\ call \in [Worker -> 0 .. MaxCalls]
  /\ ch \in [Worker -> Nat]
  /\ snapshot \in [Worker -> Seq(Msg)]
ToolType ==
  /\ approvals \subseteq CallId
  /\ verdicts \subseteq CallId \X BOOLEAN
  /\ results \subseteq CallId
  /\ answers \subseteq CallId
UserType ==
  /\ panel \in [Conns -> BOOLEAN]
  /\ cards \subseteq CallId
  /\ executing \subseteq CallId
  /\ dropping \subseteq Conns
CountType ==
  /\ sent \in [Conns -> Nat]
  /\ cancels \in [Conns -> Nat]
  /\ clears \in [Conns -> Nat]

\* The shape of the state; the rounds of a turn stay within maxRounds and one summary
\* (service.go:299).
TypeOK == ConnType /\ SessType /\ WorkType /\ ToolType /\ UserType /\ CountType

\* A message that was queued is never left behind: as long as one waits, some worker of
\* the connection is alive and will come back to the queue (service.go:265), whatever
\* workers a cancellation left running.
NoStrandedMessage ==
  \A c \in Conns : queue[c] # <<>> => \E w \in Worker : ConnOf(w) = c /\ Live(w)

\* Until the user first cancels, a connection answers one message at a time.  (After it,
\* the abandoned worker and the one of the next message do run side by side.)
SerialUntilCancelled ==
  \A c \in Conns : cancels[c] = 0 =>
    \A v, w \in Worker : ConnOf(v) = c /\ ConnOf(w) = c /\ Live(v) /\ Live(w) => v = w

\* Until the user first cancels, a worker blocked on the frontend holds the channel that
\* CancelProcessing is going to close.
CancelReachesWaiter ==
  \A w \in Worker : cancels[ConnOf(w)] = 0 /\ Waiting(w) =>
    ch[w] # 0 /\ ch[w] = cancel[ConnOf(w)]

\* Until the user first cancels, the messages of a connection enter the session in the
\* order in which they were sent, through the queue or not.
OrderUntilCancelled ==
  \A c \in Conns : cancels[c] = 0 =>
    LET s == messages[KeyOf[c]]
        mine == {i \in 1 .. Len(s) : s[i].role = "user" /\ s[i].conn = c}
    IN \A i, j \in mine : i < j => s[i].n <= s[j].n

\* The requests of a connection that has its server for itself, and that was neither
\* cancelled nor cleared, are ones the API accepts: each answer that asks for tools is
\* followed by its results.  Behind a system message the session must fit the budget, for
\* then the leading trim of buildMessages does not act on what the budget cuts.
PairedAlone ==
  \A w \in Worker :
    /\ pc[w] \in {"check", "final"}
    /\ \A c \in Conns : KeyOf[c] = KeyOf[ConnOf(w)] =>
         c = ConnOf(w) /\ cancels[c] = 0 /\ clears[c] = 0
    /\ SystemRole => Len(messages[KeyOf[ConnOf(w)]]) <= Budget
    => Paired(buildMessages(messages[KeyOf[ConnOf(w)]]))

\* Held up by the model, the user or a tool.
Held(w) == pc[w] \in {"api", "final"} \/ Waiting(w)

\* A queued message is taken up, or dropped by a cancellation, unless a worker of the
\* connection is held up for ever: service and queue never stop each other.
QueueServed ==
  \A c \in Conns :
    \/ \E w \in Worker : ConnOf(w) = c /\ <>[]Held(w)
    \/ \A n \in 1 .. MaxSends :
         (\E i \in DOMAIN queue[c] : queue[c][i] = n)
           ~> (\A i \in DOMAIN queue[c] : queue[c][i] # n)

-----------------------------------------------------------------------------
(* What comments of the code promise and the code does not keep            *)

\* "Check whether it was cancelled" (service.go:302): a worker whose turn was cancelled
\* while it ran does not call the model again.
CancelledTurnStops ==
  [][\A w \in Worker :
       pc[w] = "check" /\ pc'[w] = "api" => turn[w] \notin closed[ConnOf(w)]]_vars

\* "Make sure tool_calls and tool results are paired" (service.go:592): every request
\* is well formed.
RequestsPaired ==
  \A w \in Worker : pc[w] = "check" => Paired(buildMessages(messages[KeyOf[ConnOf(w)]]))
=============================================================================

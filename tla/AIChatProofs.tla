---------------------------- MODULE AIChatProofs ----------------------------
(***************************************************************************)
(* Safety of the AI chat service for every number of connections, workers, *)
(* rounds, messages and cancellations.  The inductive invariant adds to    *)
(* the type invariant how the round of a worker follows from its place,    *)
(* how the processing flag relates to the workers, and that the channels   *)
(* in use are not among the closed ones.  On it rest two more: the order   *)
(* of the user messages, in all the lists a server's session is copied to  *)
(* and read back from, and the pairing of calls and results, which a list  *)
(* only lacks for the answer whose calls are under way.                    *)
(***************************************************************************)
EXTENDS AIChat, SequenceTheorems, TLAPS

\* Places inside the loop of processWithTools.
InRound ==
  {"round", "check", "api", "ask", "capture", "approval", "exec", "captureExec", "result"}

RoundInv == \A w \in Worker : pc[w] \in InRound => round[w] \in 1 .. MaxRounds

\* The flag is set while messages wait, and is the promise of some living worker.
FlagOf(c) ==
  /\ queue[c] # <<>> => processing[c]
  /\ processing[c] => \E w \in Worker : ConnOf(w) = c /\ Live(w)

FlagInv == \A c \in Conns : FlagOf(c)

\* Before the first cancellation flag, channel and workers agree.
CalmOf(c) ==
  /\ \A v, w \in Worker : ConnOf(v) = c /\ ConnOf(w) = c /\ Live(v) /\ Live(w) => v = w
  /\ \A w \in Worker : ConnOf(w) = c /\ Live(w) => processing[c] /\ cancel[c] # 0
  /\ \A w \in Worker : ConnOf(w) = c /\ Waiting(w) => ch[w] = cancel[c]

CalmInv == \A c \in Conns : cancels[c] = 0 => CalmOf(c)

\* Channels are made for messages in the order of their numbers, so that none that is
\* in use or still to be made has been closed.
ChannelsOf(c) ==
  /\ \A n \in closed[c] : n <= sent[c]
  /\ cancel[c] <= sent[c]
  /\ cancel[c] \notin closed[c]
  /\ \A i \in 1 .. Len(queue[c]) :
       /\ queue[c][i] \in 1 .. sent[c]
       /\ queue[c][i] \notin closed[c]
       /\ queue[c][i] # cancel[c]
       /\ \A j \in 1 .. Len(queue[c]) : i < j => queue[c][i] < queue[c][j]

ChannelInv == \A c \in Conns : ChannelsOf(c)

-----------------------------------------------------------------------------
\* What the type invariant says of the values a worker, or an action of the user, uses.
LEMMA WorkerFacts ==
  ASSUME TypeOK, NEW w \in Worker
  PROVE  /\ Id(w) \in CallId
         /\ ConnOf(w) \in Conns
         /\ KeyOf[ConnOf(w)] \in Keys
         /\ messages[KeyOf[ConnOf(w)]] \in Seq(Msg)
         /\ queue[ConnOf(w)] \in Seq(Nat \ {0})
         /\ queue[ConnOf(w)] # <<>> =>
              /\ Head(queue[ConnOf(w)]) \in Nat \ {0}
              /\ Tail(queue[ConnOf(w)]) \in Seq(Nat \ {0})
         /\ cancel[ConnOf(w)] \in Nat
         /\ sent[ConnOf(w)] + 1 \in Nat
         /\ snapshot[w] \in Seq(Msg)
         /\ round[w] \in Nat /\ call[w] \in Nat
  <1>1. ConnOf(w) \in Conns /\ KeyOf[ConnOf(w)] \in Keys
    BY ChatAssumption DEF Worker, ConnOf
  <1>2. Id(w) \in CallId
    BY <1>1 DEF Id, CallId, TypeOK, WorkType
  <1>3. sent[ConnOf(w)] + 1 \in Nat /\ round[w] \in Nat /\ call[w] \in Nat
    BY <1>1, ChatAssumption DEF TypeOK, CountType, WorkType
  <1>4. queue[ConnOf(w)] \in Seq(Nat \ {0})
    BY <1>1 DEF TypeOK, ConnType
  <1>5. QED
    BY <1>1, <1>2, <1>3, <1>4 DEF TypeOK, ConnType, SessType, WorkType

\* The same for the values an action of the user uses.
LEMMA ConnFacts ==
  ASSUME TypeOK, NEW c \in Conns
  PROVE  /\ KeyOf[c] \in Keys
         /\ sent[c] \in Nat /\ sent[c] + 1 \in Nat
         /\ cancels[c] \in Nat /\ cancels[c] + 1 \in Nat
         /\ clears[c] + 1 \in Nat
         /\ cancel[c] \in Nat
         /\ Append(queue[c], sent[c] + 1) \in Seq(Nat \ {0})
         /\ <<>> \in Seq(Nat \ {0}) /\ <<>> \in Seq(Msg)
  <1>1. KeyOf[c] \in Keys /\ sent[c] \in Nat /\ cancels[c] \in Nat /\ clears[c] \in Nat
    BY ChatAssumption DEF TypeOK, CountType
  <1>2. queue[c] \in Seq(Nat \ {0}) /\ cancel[c] \in Nat
    BY DEF TypeOK, ConnType
  <1>3. QED
    BY <1>1, <1>2

\* What a worker says is a message, and leaves every session a list of messages.
LEMMA SayType ==
  ASSUME TypeOK, NEW w \in Worker, NEW role \in {"user", "assistant", "tool"},
         NEW r \in Nat, NEW k \in Nat, Say(w, Message(w, role, r, k))
  PROVE  messages' \in [Keys -> Seq(Msg)]
  <1>1. Message(w, role, r, k) \in Msg
    BY WorkerFacts DEF Message, Msg, TypeOK, WorkType
  <1>2. messages[KeyOf[ConnOf(w)]] \in Seq(Msg)
    BY WorkerFacts DEF TypeOK, SessType
  <1>3. Append(messages[KeyOf[ConnOf(w)]], Message(w, role, r, k)) \in Seq(Msg)
    BY <1>1, <1>2
  <1>4. QED
    BY <1>3, WorkerFacts DEF Say, TypeOK, SessType

\* The initial state, with every connection idle, has the right shape.
THEOREM TypeInit == Init => TypeOK /\ RoundInv
  <1>1. SUFFICES ASSUME Init PROVE TypeOK /\ RoundInv
    OBVIOUS
  <1>2. \A S : <<>> \in Seq(S)
    OBVIOUS
  <1>3. TypeOK
    BY <1>1, <1>2, ChatAssumption DEF Init, TypeOK, ConnType, SessType, WorkType,
       ToolType, UserType, CountType,
       Places
  <1>4. RoundInv
    BY <1>1 DEF Init, RoundInv, InRound
  <1>5. QED
    BY <1>3, <1>4

\* A finished call leads to the next call, the next round or the summary: the round stays
\* within maxRounds, or is the one after it.
LEMMA ToolDoneType ==
  ASSUME TypeOK, RoundInv, NEW w \in Worker, pc[w] \in InRound, ToolDone(w)
  PROVE  SessType' /\ WorkType' /\ RoundInv'
  <1> USE ChatAssumption
  <1>1. round[w] \in 1 .. MaxRounds /\ round[w] + 1 \in 0 .. MaxRounds + 1
    BY DEF RoundInv
  <1>2. calls[w] \in 0 .. MaxCalls /\ call[w] \in 0 .. MaxCalls
    BY DEF TypeOK, WorkType
  <1>3. SessType'
    <2>1. Say(w, Message(w, "tool", round[w], call[w]))
      BY DEF ToolDone
    <2>2. messages' \in [Keys -> Seq(Msg)]
      BY <2>1, SayType, WorkerFacts
    <2>3. QED
      BY <2>2 DEF ToolDone, TypeOK, SessType
  <1>4. CASE call[w] < calls[w]
    <2>1. call[w] + 1 \in 0 .. MaxCalls
      BY <1>2, <1>4
    <2>2. WorkType'
      BY <1>4, <2>1 DEF ToolDone, Goto, Places, TypeOK, WorkType
    <2>3. RoundInv'
      BY <1>4 DEF ToolDone, Goto, TypeOK, WorkType, RoundInv, InRound
    <2>4. QED
      BY <1>3, <2>2, <2>3
  <1>5. CASE ~(call[w] < calls[w])
    <2>1. call' = [call EXCEPT ![w] = 0] /\ round' = [round EXCEPT ![w] = round[w] + 1]
      BY <1>5 DEF ToolDone
    <2>2. pc' = [pc EXCEPT ![w] = IF round[w] < MaxRounds THEN "round" ELSE "summary"]
      BY <1>5 DEF ToolDone, Goto
    <2>3. WorkType'
      BY <1>1, <2>1, <2>2 DEF ToolDone, Places, TypeOK, WorkType
    <2>4. ASSUME NEW v \in Worker, pc'[v] \in InRound PROVE round'[v] \in 1 .. MaxRounds
      <3>1. CASE v = w
        <4>1. round[w] < MaxRounds
          BY <2>2, <2>4, <3>1 DEF TypeOK, WorkType, InRound
        <4>2. QED
          BY <1>1, <2>1, <3>1, <4>1 DEF TypeOK, WorkType
      <3>2. CASE v # w
        BY <2>1, <2>2, <2>4, <3>2 DEF TypeOK, WorkType, RoundInv
      <3>3. QED
        BY <3>1, <3>2
    <2>5. QED
      BY <1>3, <2>3, <2>4 DEF RoundInv
  <1>6. QED
    BY <1>4, <1>5

\* No step of a worker, the user or the frontend breaks the shape of the state.
LEMMA TypeStep ==
  ASSUME TypeOK, RoundInv, [Next]_vars
  PROVE  TypeOK' /\ RoundInv'
  <1> USE ChatAssumption
  <1>1. ASSUME NEW w \in Worker, Start(w) PROVE TypeOK' /\ RoundInv'
    <2>1. SessType' /\ ToolType' /\ UserType'
      BY <1>1 DEF Start, TypeOK, SessType, ToolType, UserType, sessVars, toolVars,
         userVars
    <2>2. ConnType'
      BY <1>1, WorkerFacts DEF Start, TypeOK, ConnType
    <2>3. WorkType'
      BY <1>1, WorkerFacts DEF Start, TypeOK, WorkType, Goto, Places
    <2>4. CountType'
      BY <1>1, WorkerFacts DEF Start, TypeOK, CountType
    <2>5. RoundInv'
      BY <1>1, WorkerFacts DEF Start, TypeOK, WorkType, RoundInv, InRound, Goto
    <2>6. QED
      BY <2>1, <2>2, <2>3, <2>4, <2>5 DEF TypeOK
  <1>2. ASSUME NEW w \in Worker, AppendUser(w) PROVE TypeOK' /\ RoundInv'
    <2>1. ConnType' /\ ToolType' /\ UserType' /\ CountType'
      BY <1>2 DEF AppendUser, TypeOK, ConnType, ToolType, UserType, CountType,
         connVars, toolVars, userVars, countVars
    <2>2. SessType'
      <3>1. Say(w, Message(w, "user", 0, 0))
        BY <1>2 DEF AppendUser
      <3>2. messages' \in [Keys -> Seq(Msg)]
        BY <3>1, SayType, WorkerFacts
      <3>3. QED
        BY <1>2, <3>2 DEF AppendUser, TypeOK, SessType
    <2>3. WorkType'
      BY <1>2, WorkerFacts DEF AppendUser, TypeOK, WorkType, Goto, Places
    <2>4. RoundInv'
      BY <1>2, WorkerFacts DEF AppendUser, TypeOK, WorkType, RoundInv, InRound, Goto
    <2>5. QED
      BY <2>1, <2>2, <2>3, <2>4 DEF TypeOK
  <1>3. ASSUME NEW w \in Worker, Dequeue(w) PROVE TypeOK' /\ RoundInv'
    <2>1. SessType' /\ ToolType' /\ UserType' /\ CountType'
      BY <1>3 DEF Dequeue, TypeOK, SessType, ToolType, UserType, CountType, sessVars,
         toolVars, userVars, countVars
    <2>2. ConnType'
      <3>1. CASE queue[ConnOf(w)] = <<>>
        <4>1. processing' = [processing EXCEPT ![ConnOf(w)] = FALSE]
          BY <1>3, <3>1 DEF Dequeue
        <4>2. cancel' = [cancel EXCEPT ![ConnOf(w)] = 0] /\ UNCHANGED <<queue, closed>>
          BY <1>3, <3>1 DEF Dequeue
        <4>3. QED
          BY <4>1, <4>2 DEF TypeOK, ConnType
      <3>2. CASE queue[ConnOf(w)] # <<>>
        <4>1. Head(queue[ConnOf(w)]) \in Nat /\ Tail(queue[ConnOf(w)]) \in Seq(Nat \ {0})
          BY <3>2, WorkerFacts
        <4>2. QED
          BY <1>3, <3>2, <4>1 DEF Dequeue, TypeOK, ConnType
      <3>3. QED
        BY <3>1, <3>2
    <2>3. WorkType'
      BY <1>3, WorkerFacts DEF Dequeue, TypeOK, WorkType, Goto, Places
    <2>4. RoundInv'
      BY <1>3, WorkerFacts DEF Dequeue, TypeOK, WorkType, RoundInv, InRound, Goto
    <2>5. QED
      BY <2>1, <2>2, <2>3, <2>4 DEF TypeOK
  <1>4. ASSUME NEW w \in Worker, RoundCancelled(w) \/ StartRound(w)
        PROVE  TypeOK' /\ RoundInv'
    <2>1. ConnType' /\ SessType' /\ ToolType' /\ UserType' /\ CountType'
      BY <1>4 DEF RoundCancelled, StartRound, TypeOK, ConnType, SessType, ToolType,
         UserType, CountType, connVars, sessVars, toolVars, userVars, countVars
    <2>2. WorkType'
      BY <1>4, WorkerFacts DEF RoundCancelled, StartRound, TypeOK, WorkType, Goto, Places
    <2>3. RoundInv'
      BY <1>4, WorkerFacts DEF RoundCancelled, StartRound, TypeOK, WorkType, RoundInv,
         InRound,
         Goto
    <2>4. QED
      BY <2>1, <2>2, <2>3 DEF TypeOK
  <1>5. ASSUME NEW w \in Worker, CallFails(w) PROVE TypeOK' /\ RoundInv'
    <2>1. ConnType' /\ ToolType' /\ UserType' /\ CountType'
      BY <1>5 DEF CallFails, TypeOK, ConnType, ToolType, UserType, CountType,
         connVars, toolVars, userVars, countVars
    <2>2. SessType'
      <3>1. Say(w, Message(w, "assistant", round[w], 0))
        BY <1>5 DEF CallFails
      <3>2. messages' \in [Keys -> Seq(Msg)]
        BY <3>1, SayType, WorkerFacts
      <3>3. QED
        BY <1>5, <3>2 DEF CallFails, TypeOK, SessType
    <2>3. WorkType'
      BY <1>5, WorkerFacts DEF CallFails, TypeOK, WorkType, Goto, Places
    <2>4. RoundInv'
      BY <1>5, WorkerFacts DEF CallFails, TypeOK, WorkType, RoundInv, InRound, Goto
    <2>5. QED
      BY <2>1, <2>2, <2>3, <2>4 DEF TypeOK
  <1>6. ASSUME NEW w \in Worker, CallReplies(w) PROVE TypeOK' /\ RoundInv'
    <2>1. ConnType' /\ ToolType' /\ UserType' /\ CountType'
      BY <1>6 DEF CallReplies, TypeOK, ConnType, ToolType, UserType, CountType,
         connVars, toolVars, userVars, countVars
    <2>2. SessType'
      <3>1. Say(w, Message(w, "assistant", round[w], 0))
        BY <1>6 DEF CallReplies
      <3>2. messages' \in [Keys -> Seq(Msg)]
        BY <3>1, SayType, WorkerFacts
      <3>3. QED
        BY <1>6, <3>2 DEF CallReplies, TypeOK, SessType
    <2>3. WorkType'
      BY <1>6, WorkerFacts DEF CallReplies, TypeOK, WorkType, Goto, Places
    <2>4. RoundInv'
      BY <1>6, WorkerFacts DEF CallReplies, TypeOK, WorkType, RoundInv, InRound, Goto
    <2>5. QED
      BY <2>1, <2>2, <2>3, <2>4 DEF TypeOK
  <1>7. ASSUME NEW w \in Worker, NEW k \in 1 .. MaxCalls, CallAsksTools(w, k)
        PROVE  TypeOK' /\ RoundInv'
    <2>1. ConnType' /\ ToolType' /\ UserType' /\ CountType'
      BY <1>7 DEF CallAsksTools, TypeOK, ConnType, ToolType, UserType, CountType,
         connVars, toolVars, userVars, countVars
    <2>2. SessType'
      <3>1. Say(w, Message(w, "assistant", round[w], k))
        BY <1>7 DEF CallAsksTools
      <3>2. messages' \in [Keys -> Seq(Msg)]
        BY <3>1, SayType, WorkerFacts, k \in Nat
      <3>3. QED
        BY <1>7, <3>2 DEF CallAsksTools, TypeOK, SessType
    <2>3. WorkType'
      <3>1. k \in 0 .. MaxCalls /\ 1 \in 0 .. MaxCalls
        OBVIOUS
      <3>2. QED
        BY <1>7, <3>1 DEF CallAsksTools, TypeOK, WorkType, Goto, Places
    <2>4. RoundInv'
      BY <1>7, WorkerFacts DEF CallAsksTools, TypeOK, WorkType, RoundInv, InRound, Goto
    <2>5. QED
      BY <2>1, <2>2, <2>3, <2>4 DEF TypeOK
  <1>8. ASSUME NEW w \in Worker, Ask(w) PROVE TypeOK' /\ RoundInv'
    <2>1. ConnType' /\ SessType' /\ CountType'
      BY <1>8 DEF Ask, TypeOK, ConnType, SessType, CountType, connVars, sessVars,
         countVars
    <2>2. WorkType'
      BY <1>8, WorkerFacts DEF Ask, TypeOK, WorkType, Goto, Places
    <2>3. ToolType'
      BY <1>8, WorkerFacts DEF Ask, TypeOK, ToolType
    <2>4. UserType'
      BY <1>8, WorkerFacts DEF Ask, TypeOK, UserType
    <2>5. RoundInv'
      BY <1>8, WorkerFacts DEF Ask, TypeOK, WorkType, RoundInv, InRound, Goto
    <2>6. QED
      BY <2>1, <2>2, <2>3, <2>4, <2>5 DEF TypeOK
  <1>9. ASSUME NEW w \in Worker, Execute(w) PROVE TypeOK' /\ RoundInv'
    <2>1. ConnType' /\ SessType' /\ CountType'
      BY <1>9 DEF Execute, TypeOK, ConnType, SessType, CountType, connVars, sessVars,
         countVars
    <2>2. WorkType'
      BY <1>9, WorkerFacts DEF Execute, TypeOK, WorkType, Goto, Places
    <2>3. ToolType'
      BY <1>9, WorkerFacts DEF Execute, TypeOK, ToolType
    <2>4. UserType'
      BY <1>9, WorkerFacts DEF Execute, TypeOK, UserType
    <2>5. RoundInv'
      BY <1>9, WorkerFacts DEF Execute, TypeOK, WorkType, RoundInv, InRound, Goto
    <2>6. QED
      BY <2>1, <2>2, <2>3, <2>4, <2>5 DEF TypeOK
  <1>10. ASSUME NEW w \in Worker, ReadCancel(w) \/ Capture(w) PROVE TypeOK' /\ RoundInv'
    <2>1. ConnType' /\ SessType' /\ ToolType' /\ UserType' /\ CountType'
      BY <1>10 DEF ReadCancel, Capture, TypeOK, ConnType, SessType, ToolType, UserType,
         CountType,
         connVars, sessVars, toolVars, userVars, countVars
    <2>2. WorkType'
      BY <1>10, WorkerFacts DEF ReadCancel, Capture, TypeOK, WorkType, Goto, Places
    <2>3. RoundInv'
      BY <1>10, WorkerFacts DEF ReadCancel, Capture, TypeOK, WorkType, RoundInv, InRound,
         Goto
    <2>4. QED
      BY <2>1, <2>2, <2>3 DEF TypeOK
  <1>11. ASSUME NEW w \in Worker, Approved(w) PROVE TypeOK' /\ RoundInv'
    <2>1. ConnType' /\ SessType' /\ UserType' /\ CountType'
      BY <1>11 DEF Approved, TypeOK, ConnType, SessType, UserType, CountType,
         connVars, sessVars, userVars, countVars
    <2>2. WorkType'
      BY <1>11, WorkerFacts DEF Approved, TypeOK, WorkType, Goto, Places
    <2>3. ToolType'
      BY <1>11, WorkerFacts DEF Approved, TypeOK, ToolType
    <2>4. RoundInv'
      BY <1>11, WorkerFacts DEF Approved, TypeOK, WorkType, RoundInv, InRound, Goto
    <2>5. QED
      BY <2>1, <2>2, <2>3, <2>4 DEF TypeOK
  <1>12. ASSUME NEW w \in Worker, Refused(w) PROVE TypeOK' /\ RoundInv'
    <2>1. ConnType' /\ UserType' /\ CountType'
      BY <1>12 DEF Refused, ToolDone, TypeOK, ConnType, UserType, CountType, connVars,
         userVars, countVars
    <2>2. SessType'
      BY <1>12, ToolDoneType DEF Refused, InRound
    <2>3. WorkType'
      BY <1>12, ToolDoneType DEF Refused, InRound
    <2>4. ToolType'
      BY <1>12, WorkerFacts DEF Refused, ToolDone, TypeOK, ToolType
    <2>5. RoundInv'
      BY <1>12, ToolDoneType DEF Refused, InRound
    <2>6. QED
      BY <2>1, <2>2, <2>3, <2>4, <2>5 DEF TypeOK
  <1>13. ASSUME NEW w \in Worker, Finish(w) PROVE TypeOK' /\ RoundInv'
    <2>1. ConnType' /\ UserType' /\ CountType'
      BY <1>13 DEF Finish, ToolDone, TypeOK, ConnType, UserType, CountType, connVars,
         userVars, countVars
    <2>2. SessType'
      BY <1>13, ToolDoneType DEF Finish, InRound
    <2>3. WorkType'
      BY <1>13, ToolDoneType DEF Finish, InRound
    <2>4. ToolType'
      BY <1>13, WorkerFacts DEF Finish, ToolDone, TypeOK, ToolType
    <2>5. RoundInv'
      BY <1>13, ToolDoneType DEF Finish, InRound
    <2>6. QED
      BY <2>1, <2>2, <2>3, <2>4, <2>5 DEF TypeOK
  <1>14. ASSUME NEW w \in Worker, Summarise(w) PROVE TypeOK' /\ RoundInv'
    <2>1. ConnType' /\ ToolType' /\ UserType' /\ CountType'
      BY <1>14 DEF Summarise, TypeOK, ConnType, ToolType, UserType, CountType,
         connVars, toolVars, userVars, countVars
    <2>2. SessType'
      <3>1. Say(w, Message(w, "user", round[w], 0))
        BY <1>14 DEF Summarise
      <3>2. messages' \in [Keys -> Seq(Msg)]
        BY <3>1, SayType, WorkerFacts
      <3>3. QED
        BY <1>14, <3>2 DEF Summarise, TypeOK, SessType
    <2>3. WorkType'
      BY <1>14, WorkerFacts DEF Summarise, TypeOK, WorkType, Goto, Places
    <2>4. RoundInv'
      BY <1>14, WorkerFacts DEF Summarise, TypeOK, WorkType, RoundInv, InRound, Goto
    <2>5. QED
      BY <2>1, <2>2, <2>3, <2>4 DEF TypeOK
  <1>15. ASSUME NEW w \in Worker, Copy(w) PROVE TypeOK' /\ RoundInv'
    <2>1. ConnType' /\ SessType' /\ ToolType' /\ UserType' /\ CountType'
      BY <1>15 DEF Copy, TypeOK, ConnType, SessType, ToolType, UserType, CountType,
         connVars, sessVars, toolVars, userVars, countVars
    <2>2. WorkType'
      BY <1>15, WorkerFacts DEF Copy, TypeOK, WorkType, Goto, Places
    <2>3. RoundInv'
      BY <1>15, WorkerFacts DEF Copy, TypeOK, WorkType, RoundInv, InRound, Goto
    <2>4. QED
      BY <2>1, <2>2, <2>3 DEF TypeOK
  <1>16. ASSUME NEW w \in Worker, Save(w) PROVE TypeOK' /\ RoundInv'
    <2>1. ConnType' /\ ToolType' /\ UserType' /\ CountType'
      BY <1>16 DEF Save, TypeOK, ConnType, ToolType, UserType, CountType, connVars,
         toolVars, userVars, countVars
    <2>2. SessType'
      BY <1>16, WorkerFacts DEF Save, TypeOK, SessType
    <2>3. WorkType'
      BY <1>16, WorkerFacts DEF Save, TypeOK, WorkType, Goto, Places
    <2>4. RoundInv'
      BY <1>16, WorkerFacts DEF Save, TypeOK, WorkType, RoundInv, InRound, Goto
    <2>5. QED
      BY <2>1, <2>2, <2>3, <2>4 DEF TypeOK
  <1>17. ASSUME NEW c \in Conns, Enqueue(c) PROVE TypeOK' /\ RoundInv'
    <2>1. SessType' /\ WorkType' /\ ToolType' /\ UserType'
      BY <1>17 DEF Enqueue, TypeOK, SessType, WorkType, ToolType, UserType, sessVars,
         workVars, toolVars, userVars
    <2>2. ConnType'
      BY <1>17, ConnFacts DEF Enqueue, TypeOK, ConnType
    <2>3. CountType'
      BY <1>17, ConnFacts DEF Enqueue, TypeOK, CountType
    <2>4. RoundInv'
      BY <1>17 DEF Enqueue, TypeOK, WorkType, RoundInv, InRound, workVars
    <2>5. QED
      BY <2>1, <2>2, <2>3, <2>4 DEF TypeOK
  <1>18. ASSUME NEW c \in Conns, CancelProcessing(c) PROVE TypeOK' /\ RoundInv'
    <2>1. SessType' /\ WorkType' /\ ToolType'
      BY <1>18 DEF CancelProcessing, CancelState, TypeOK, SessType, WorkType,
         ToolType, sessVars, workVars, toolVars
    <2>2. ConnType'
      BY <1>18, ConnFacts DEF CancelProcessing, CancelState, TypeOK, ConnType
    <2>3. UserType'
      BY <1>18, ConnFacts DEF CancelProcessing, CancelState, TypeOK, UserType
    <2>4. CountType'
      BY <1>18, ConnFacts DEF CancelProcessing, CancelState, TypeOK, CountType
    <2>5. RoundInv'
      BY <1>18 DEF CancelProcessing, CancelState, TypeOK, WorkType, RoundInv, InRound,
         workVars
    <2>6. QED
      BY <2>1, <2>2, <2>3, <2>4, <2>5 DEF TypeOK
  <1>19. ASSUME NEW c \in Conns, DropCards(c) PROVE TypeOK' /\ RoundInv'
    <2>1. ConnType' /\ SessType' /\ WorkType' /\ ToolType' /\ CountType'
      BY <1>19 DEF DropCards, TypeOK, ConnType, SessType, WorkType, ToolType,
         CountType, connVars, sessVars, workVars, toolVars, countVars
    <2>2. UserType'
      BY <1>19, ConnFacts DEF DropCards, TypeOK, UserType
    <2>3. RoundInv'
      BY <1>19 DEF DropCards, TypeOK, WorkType, RoundInv, InRound, workVars
    <2>4. QED
      BY <2>1, <2>2, <2>3 DEF TypeOK
  <1>20. ASSUME NEW c \in Conns, ClosePanel(c) PROVE TypeOK' /\ RoundInv'
    <2>1. SessType' /\ WorkType' /\ ToolType'
      BY <1>20 DEF ClosePanel, CancelState, CardsOf, TypeOK, SessType, WorkType,
         ToolType, sessVars, workVars, toolVars
    <2>2. ConnType'
      BY <1>20, ConnFacts DEF ClosePanel, CancelState, CardsOf, TypeOK, ConnType
    <2>3. UserType'
      BY <1>20, ConnFacts DEF ClosePanel, CancelState, CardsOf, TypeOK, UserType
    <2>4. CountType'
      BY <1>20, ConnFacts DEF ClosePanel, CancelState, CardsOf, TypeOK, CountType
    <2>5. RoundInv'
      BY <1>20 DEF ClosePanel, CancelState, CardsOf, TypeOK, WorkType, RoundInv,
         InRound, workVars
    <2>6. QED
      BY <2>1, <2>2, <2>3, <2>4, <2>5 DEF TypeOK
  <1>21. ASSUME NEW c \in Conns, OpenPanel(c) PROVE TypeOK' /\ RoundInv'
    <2>1. ConnType' /\ SessType' /\ WorkType' /\ ToolType' /\ CountType'
      BY <1>21 DEF OpenPanel, TypeOK, ConnType, SessType, WorkType, ToolType,
         CountType, connVars, sessVars, workVars, toolVars, countVars
    <2>2. UserType'
      BY <1>21, ConnFacts DEF OpenPanel, TypeOK, UserType
    <2>3. RoundInv'
      BY <1>21 DEF OpenPanel, TypeOK, WorkType, RoundInv, InRound, workVars
    <2>4. QED
      BY <2>1, <2>2, <2>3 DEF TypeOK
  <1>22. ASSUME NEW c \in Conns, GetChatHistory(c) PROVE TypeOK' /\ RoundInv'
    <2>1. ConnType' /\ WorkType' /\ ToolType' /\ UserType' /\ CountType'
      BY <1>22 DEF GetChatHistory, TypeOK, ConnType, WorkType, ToolType, UserType,
         CountType, connVars, workVars, toolVars, userVars, countVars
    <2>2. SessType'
      BY <1>22, ConnFacts DEF GetChatHistory, TypeOK, SessType
    <2>3. RoundInv'
      BY <1>22 DEF GetChatHistory, TypeOK, WorkType, RoundInv, InRound, workVars
    <2>4. QED
      BY <2>1, <2>2, <2>3 DEF TypeOK
  <1>23. ASSUME NEW c \in Conns, ClearSession(c) PROVE TypeOK' /\ RoundInv'
    <2>1. ConnType' /\ WorkType' /\ ToolType' /\ UserType'
      BY <1>23 DEF ClearSession, TypeOK, ConnType, WorkType, ToolType, UserType,
         connVars, workVars, toolVars, userVars
    <2>2. SessType'
      BY <1>23, ConnFacts DEF ClearSession, TypeOK, SessType
    <2>3. CountType'
      BY <1>23, ConnFacts DEF ClearSession, TypeOK, CountType
    <2>4. RoundInv'
      BY <1>23 DEF ClearSession, TypeOK, WorkType, RoundInv, InRound, workVars
    <2>5. QED
      BY <2>1, <2>2, <2>3, <2>4 DEF TypeOK
  <1>24. ASSUME NEW c \in Conns, ClearFile(c) PROVE TypeOK' /\ RoundInv'
    <2>1. ConnType' /\ WorkType' /\ ToolType' /\ UserType' /\ CountType'
      BY <1>24 DEF ClearFile, TypeOK, ConnType, WorkType, ToolType, UserType,
         CountType, connVars, workVars, toolVars, userVars, countVars
    <2>2. SessType'
      BY <1>24, ConnFacts DEF ClearFile, TypeOK, SessType
    <2>3. RoundInv'
      BY <1>24 DEF ClearFile, TypeOK, WorkType, RoundInv, InRound, workVars
    <2>4. QED
      BY <2>1, <2>2, <2>3 DEF TypeOK
  <1>25. ASSUME NEW id \in cards, NEW v \in BOOLEAN, Decide(id, v)
         PROVE  TypeOK' /\ RoundInv'
    <2>1. ConnType' /\ SessType' /\ WorkType' /\ CountType'
      BY <1>25 DEF Decide, TypeOK, ConnType, SessType, WorkType, CountType, connVars,
         sessVars, workVars, countVars
    <2>2. ToolType'
      BY <1>25 DEF Decide, TypeOK, ToolType
    <2>3. UserType'
      BY <1>25 DEF Decide, TypeOK, UserType
    <2>4. RoundInv'
      BY <1>25 DEF Decide, TypeOK, WorkType, RoundInv, InRound, workVars
    <2>5. QED
      BY <2>1, <2>2, <2>3, <2>4 DEF TypeOK
  <1>26. ASSUME NEW id \in executing, SubmitToolResult(id) PROVE TypeOK' /\ RoundInv'
    <2>1. ConnType' /\ SessType' /\ WorkType' /\ CountType'
      BY <1>26 DEF SubmitToolResult, TypeOK, ConnType, SessType, WorkType, CountType,
         connVars, sessVars, workVars, countVars
    <2>2. ToolType'
      BY <1>26 DEF SubmitToolResult, TypeOK, ToolType
    <2>3. UserType'
      BY <1>26 DEF SubmitToolResult, TypeOK, UserType
    <2>4. RoundInv'
      BY <1>26 DEF SubmitToolResult, TypeOK, WorkType, RoundInv, InRound, workVars
    <2>5. QED
      BY <2>1, <2>2, <2>3, <2>4 DEF TypeOK
  <1>27. CASE UNCHANGED vars
    BY <1>27 DEF vars, TypeOK, ConnType, SessType, WorkType, ToolType, UserType,
       CountType, connVars, sessVars, workVars, toolVars, userVars, countVars, RoundInv
  <1>28. QED
    BY <1>1, <1>2, <1>3, <1>4, <1>5, <1>6, <1>7, <1>8, <1>9, <1>10, <1>11, <1>12,
       <1>13, <1>14, <1>15, <1>16, <1>17, <1>18, <1>19, <1>20, <1>21, <1>22, <1>23,
       <1>24, <1>25, <1>26, <1>27 DEF Next, WorkerStep, GoesOn, CallEnds, UserStep

\* The flag, channels and queue of a connection, and which of its workers live, are
\* the business of five actions only.
Quiet ==
  /\ UNCHANGED <<processing, cancel, queue, closed, sent, cancels>>
  /\ \A w \in Worker :
       /\ Live(w)' <=> Live(w)
       /\ Waiting(w)' => \/ Waiting(w) /\ ch'[w] = ch[w]
                         \/ ch'[w] = cancel[ConnOf(w)]

\* A step of a worker other than Dequeue leaves flag, channel and queue alone.
LEMMA QuietWorker ==
  ASSUME TypeOK, NEW w \in Worker, WorkerStep(w), ~Dequeue(w)
  PROVE  Quiet
  <1>1. /\ UNCHANGED <<processing, cancel, queue, closed, sent, cancels>>
        /\ pc[w] # "idle" /\ pc'[w] # "idle"
        /\ \A v \in Worker : v # w => pc'[v] = pc[v] /\ ch'[v] = ch[v]
        /\ Waiting(w)' => ch'[w] = cancel[ConnOf(w)]
    <2>1. CASE AppendUser(w)
      BY <2>1 DEF AppendUser, Goto, Waiting, connVars, countVars, TypeOK, WorkType
    <2>2. CASE ReadCancel(w) \/ RoundCancelled(w) \/ StartRound(w)
      BY <2>2 DEF ReadCancel, RoundCancelled, StartRound, Goto, Waiting, connVars,
         countVars, TypeOK, WorkType
    <2>3. CASE CallFails(w) \/ CallReplies(w)
      BY <2>3 DEF CallFails, CallReplies, Goto, Waiting, connVars, countVars, TypeOK,
         WorkType
    <2>4. CASE \E k \in 1 .. MaxCalls : CallAsksTools(w, k)
      BY <2>4 DEF CallAsksTools, Goto, Waiting, connVars, countVars, TypeOK, WorkType
    <2>5. CASE Ask(w) \/ Execute(w)
      BY <2>5 DEF Ask, Execute, Goto, Waiting, connVars, countVars, TypeOK, WorkType
    <2>6. CASE Capture(w)
      BY <2>6 DEF Capture, Goto, Waiting, connVars, countVars, TypeOK, WorkType
    <2>7. CASE Approved(w)
      BY <2>7 DEF Approved, Goto, Waiting, connVars, countVars, TypeOK, WorkType
    <2>8. CASE Refused(w) \/ Finish(w)
      BY <2>8 DEF Refused, Finish, ToolDone, Goto, Waiting, connVars, countVars, TypeOK,
         WorkType
    <2>9. CASE Summarise(w)
      BY <2>9 DEF Summarise, Goto, Waiting, connVars, countVars, TypeOK, WorkType
    <2>10. CASE Copy(w) \/ Save(w)
      BY <2>10 DEF Copy, Save, Goto, Waiting, connVars, countVars, TypeOK, WorkType
    <2>11. QED
      BY <2>1, <2>2, <2>3, <2>4, <2>5, <2>6, <2>7, <2>8, <2>9, <2>10
         DEF WorkerStep, GoesOn, CallEnds
  <1>2. QED
    BY <1>1 DEF Quiet, Live, Waiting

\* Only SendMessage, processQueue and CancelProcessing touch flag, channel or queue.
LEMMA QuietStep ==
  ASSUME TypeOK, [Next]_vars
  PROVE  \/ Quiet
         \/ \E w \in Worker : Start(w) \/ Dequeue(w)
         \/ \E c \in Conns : Enqueue(c) \/ CancelProcessing(c) \/ ClosePanel(c)
  <1>1. CASE \E w \in Worker : Start(w) \/ WorkerStep(w)
    BY <1>1, QuietWorker
  <1>2. CASE \E c \in Conns : UserStep(c)
    <2>1. SUFFICES ASSUME NEW c \in Conns,
                          \/ DropCards(c) \/ OpenPanel(c) \/ GetChatHistory(c)
                          \/ ClearSession(c) \/ ClearFile(c)
                   PROVE  Quiet
      BY <1>2 DEF UserStep
    <2>2. UNCHANGED <<processing, cancel, queue, closed, sent, cancels, pc, ch>>
      BY <2>1 DEF DropCards, OpenPanel, GetChatHistory, ClearSession, ClearFile,
         connVars,
         workVars, countVars
    <2>3. QED
      BY <2>2 DEF Quiet, Live, Waiting
  <1>3. CASE \E id \in cards, v \in BOOLEAN : Decide(id, v)
    BY <1>3 DEF Decide, Quiet, Live, Waiting, connVars, workVars, countVars
  <1>4. CASE \E id \in executing : SubmitToolResult(id)
    BY <1>4 DEF SubmitToolResult, Quiet, Live, Waiting, connVars, workVars, countVars
  <1>5. CASE UNCHANGED vars
    BY <1>5 DEF vars, Quiet, Live, Waiting, connVars, workVars, countVars
  <1>6. QED
    BY <1>1, <1>2, <1>3, <1>4, <1>5 DEF Next

-----------------------------------------------------------------------------
\* What the five actions do to the flag, the channel, the queue and the workers.
LEMMA StartEffect ==
  ASSUME TypeOK, NEW w \in Worker, Start(w)
  PROVE  /\ ~processing[ConnOf(w)] /\ ~Live(w)
         /\ processing' = [processing EXCEPT ![ConnOf(w)] = TRUE]
         /\ cancel' = [cancel EXCEPT ![ConnOf(w)] = sent[ConnOf(w)] + 1]
         /\ sent' = [sent EXCEPT ![ConnOf(w)] = sent[ConnOf(w)] + 1]
         /\ UNCHANGED <<queue, closed, cancels, ch>>
         /\ pc' = [pc EXCEPT ![w] = "append"]
  BY DEF Start, Goto

\* One turn of the loop of processQueue.
LEMMA DequeueEffect ==
  ASSUME TypeOK, NEW w \in Worker, Dequeue(w)
  PROVE  /\ Live(w)
         /\ UNCHANGED <<closed, sent, cancels, ch>>
         /\ \/ /\ queue[ConnOf(w)] = <<>>
               /\ processing' = [processing EXCEPT ![ConnOf(w)] = FALSE]
               /\ cancel' = [cancel EXCEPT ![ConnOf(w)] = 0]
               /\ UNCHANGED queue
               /\ pc' = [pc EXCEPT ![w] = "idle"]
            \/ /\ queue[ConnOf(w)] # <<>>
               /\ UNCHANGED processing
               /\ cancel' = [cancel EXCEPT ![ConnOf(w)] = Head(queue[ConnOf(w)])]
               /\ queue' = [queue EXCEPT ![ConnOf(w)] = Tail(queue[ConnOf(w)])]
               /\ pc' = [pc EXCEPT ![w] = "append"]
  BY DEF Dequeue, Goto, Live, countVars

\* SendMessage that finds the connection busy.
LEMMA EnqueueEffect ==
  ASSUME TypeOK, NEW c \in Conns, Enqueue(c)
  PROVE  /\ processing[c]
         /\ queue' = [queue EXCEPT ![c] = Append(queue[c], sent[c] + 1)]
         /\ sent' = [sent EXCEPT ![c] = sent[c] + 1]
         /\ UNCHANGED <<processing, cancel, closed, cancels, pc, ch>>
  BY DEF Enqueue, workVars

\* CancelProcessing, from the button or from a panel that is closed.
LEMMA CancelEffect ==
  ASSUME TypeOK, NEW c \in Conns, CancelProcessing(c) \/ ClosePanel(c)
  PROVE  /\ closed' = [closed EXCEPT ![c] =
                         IF cancel[c] = 0 THEN closed[c] ELSE closed[c] \cup {cancel[c]}]
         /\ cancel' = [cancel EXCEPT ![c] = 0]
         /\ queue' = [queue EXCEPT ![c] = <<>>]
         /\ processing' = [processing EXCEPT ![c] = FALSE]
         /\ cancels' = [cancels EXCEPT ![c] = cancels[c] + 1]
         /\ UNCHANGED <<sent, pc, ch>>
  BY DEF CancelProcessing, ClosePanel, CancelState, workVars

-----------------------------------------------------------------------------
\* An action on one connection leaves the others alone, and with them their invariants.
Untouched(c) ==
  /\ processing'[c] = processing[c] /\ cancel'[c] = cancel[c] /\ queue'[c] = queue[c]
  /\ closed'[c] = closed[c] /\ sent'[c] = sent[c] /\ cancels'[c] = cancels[c]
  /\ \A w \in Worker : ConnOf(w) = c => pc'[w] = pc[w] /\ ch'[w] = ch[w]

\* A worker touches the state of its own connection only.
LEMMA StartElsewhere ==
  ASSUME TypeOK, NEW w \in Worker, Start(w) \/ Dequeue(w), NEW c \in Conns, c # ConnOf(w)
  PROVE  Untouched(c)
  <1>1. \A v \in Worker : ConnOf(v) = c => v # w
    OBVIOUS
  <1>2. CASE Start(w)
    <2>1. /\ cancel' = [cancel EXCEPT ![ConnOf(w)] = sent[ConnOf(w)] + 1]
          /\ processing' = [processing EXCEPT ![ConnOf(w)] = TRUE]
          /\ sent' = [sent EXCEPT ![ConnOf(w)] = sent[ConnOf(w)] + 1]
          /\ UNCHANGED <<queue, closed, cancels, ch>>
          /\ pc' = [pc EXCEPT ![w] = "append"]
      BY <1>2, StartEffect
    <2>2. QED
      BY <1>1, <2>1 DEF Untouched, TypeOK, ConnType, WorkType, CountType
  <1>3. CASE Dequeue(w)
    <2>1. UNCHANGED <<closed, sent, cancels, ch>>
      BY <1>3, DequeueEffect
    <2>2. \A v \in Worker : ConnOf(v) = c => pc'[v] = pc[v]
      BY <1>1, <1>3, DequeueEffect DEF TypeOK, WorkType
    <2>3. /\ processing'[c] = processing[c] /\ cancel'[c] = cancel[c]
          /\ queue'[c] = queue[c]
      BY <1>3, DequeueEffect DEF TypeOK, ConnType
    <2>4. QED
      BY <2>1, <2>2, <2>3 DEF Untouched
  <1>4. QED
    BY <1>2, <1>3

\* So does the user.
LEMMA UserElsewhere ==
  ASSUME TypeOK, NEW d \in Conns, Enqueue(d) \/ CancelProcessing(d) \/ ClosePanel(d),
         NEW c \in Conns, c # d
  PROVE  Untouched(c)
  <1>1. CASE Enqueue(d)
    BY <1>1, EnqueueEffect DEF Untouched, TypeOK, ConnType, CountType
  <1>2. CASE CancelProcessing(d) \/ ClosePanel(d)
    BY <1>2, CancelEffect DEF Untouched, TypeOK, ConnType, CountType
  <1>3. QED
    BY <1>1, <1>2

\* A connection that is not touched keeps its part of the invariant.
LEMMA UntouchedKeeps ==
  ASSUME TypeOK, NEW c \in Conns, Untouched(c), FlagInv, CalmInv, ChannelInv
  PROVE  FlagOf(c)' /\ (cancels'[c] = 0 => CalmOf(c)') /\ ChannelsOf(c)'
  <1>1. FlagOf(c)'
    BY DEF Untouched, FlagInv, FlagOf, Live
  <1>2. cancels'[c] = 0 => CalmOf(c)'
    BY DEF Untouched, CalmInv, CalmOf, Live, Waiting
  <1>3. ChannelsOf(c)'
    BY DEF Untouched, ChannelInv, ChannelsOf
  <1>4. QED
    BY <1>1, <1>2, <1>3

\* A quiet step keeps all of it.
LEMMA QuietKeeps ==
  ASSUME FlagInv, CalmInv, ChannelInv, Quiet
  PROVE  FlagInv' /\ CalmInv' /\ ChannelInv'
  <1>1. FlagInv'
    BY DEF Quiet, FlagInv, FlagOf
  <1>2. CalmInv'
    BY DEF Quiet, CalmInv, CalmOf
  <1>3. ChannelInv'
    BY DEF Quiet, ChannelInv, ChannelsOf
  <1>4. QED
    BY <1>1, <1>2, <1>3

-----------------------------------------------------------------------------
\* SendMessage starts a worker only where none is promised, with a new channel.
LEMMA StartKeeps ==
  ASSUME TypeOK, FlagInv, CalmInv, ChannelInv, NEW w \in Worker, Start(w),
         NEW c \in Conns, c = ConnOf(w)
  PROVE  FlagOf(c)' /\ (cancels'[c] = 0 => CalmOf(c)') /\ ChannelsOf(c)'
  <1>1. /\ processing'[c] /\ cancel'[c] = sent[c] + 1 /\ sent'[c] = sent[c] + 1
        /\ queue'[c] = queue[c] /\ closed'[c] = closed[c] /\ cancels'[c] = cancels[c]
        /\ pc' = [pc EXCEPT ![w] = "append"]
    BY StartEffect DEF TypeOK, ConnType, WorkType, CountType
  <1>2. pc'[w] = "append" /\ \A v \in Worker : v # w => pc'[v] = pc[v]
    BY <1>1 DEF TypeOK, WorkType
  <1>3. sent[c] \in Nat
    BY ConnFacts
  <1>4. FlagOf(c)'
    BY <1>1, <1>2 DEF FlagOf, Live
  <1>5. ASSUME cancels'[c] = 0 PROVE CalmOf(c)'
    <2>1. \A v \in Worker : ConnOf(v) = c => ~Live(v)
      BY <1>1, <1>5, StartEffect DEF CalmInv, CalmOf
    <2>2. \A v \in Worker : ConnOf(v) = c /\ v # w => pc'[v] = "idle"
      BY <1>2, <2>1 DEF Live
    <2>3. cancel'[c] # 0
      BY <1>1, <1>3
    <2>4. QED
      BY <1>1, <1>2, <2>2, <2>3 DEF CalmOf, Live, Waiting
  <1>6. ChannelsOf(c)'
    <2>1. \A i \in 1 .. Len(queue[c]) : queue[c][i] \in 1 .. sent[c]
      BY DEF ChannelInv, ChannelsOf
    <2>2. \A n \in closed[c] : n \in Nat /\ n <= sent[c]
      BY DEF ChannelInv, ChannelsOf, TypeOK, ConnType
    <2>3. QED
      BY <1>1, <1>3, <2>1, <2>2 DEF ChannelInv, ChannelsOf
  <1>7. QED
    BY <1>4, <1>5, <1>6

\* What is left of a queue after its head is taken.
LEMMA TailOf ==
  ASSUME NEW q \in Seq(Nat \ {0}), q # <<>>
  PROVE  /\ Len(q) \in Nat /\ 1 \in 1 .. Len(q)
         /\ Head(q) = q[1] /\ Len(Tail(q)) = Len(q) - 1
         /\ \A i \in 1 .. Len(Tail(q)) :
              i + 1 \in 1 .. Len(q) /\ 1 < i + 1 /\ Tail(q)[i] = q[i + 1]
  OBVIOUS

\* A worker hands its promise to the next message, or ends with the queue empty.
LEMMA DequeueKeeps ==
  ASSUME TypeOK, FlagInv, CalmInv, ChannelInv, NEW w \in Worker, Dequeue(w),
         NEW c \in Conns, c = ConnOf(w)
  PROVE  FlagOf(c)' /\ (cancels'[c] = 0 => CalmOf(c)') /\ ChannelsOf(c)'
  <1>1. /\ Live(w) /\ sent'[c] = sent[c] /\ closed'[c] = closed[c]
        /\ cancels'[c] = cancels[c]
    BY DequeueEffect
  <1>2. \A v \in Worker : v # w => pc'[v] = pc[v]
    BY DequeueEffect DEF TypeOK, WorkType
  <1>3. ASSUME cancels[c] = 0
        PROVE  /\ \A v \in Worker : ConnOf(v) = c /\ v # w => pc'[v] = "idle"
               /\ processing[c]
    BY <1>1, <1>2, <1>3 DEF CalmInv, CalmOf, Live
  <1>4. CASE queue[c] = <<>>
    <2>1. /\ ~processing'[c] /\ cancel'[c] = 0 /\ queue'[c] = <<>> /\ pc'[w] = "idle"
      BY <1>4, DequeueEffect DEF TypeOK, ConnType, WorkType
    <2>2. FlagOf(c)'
      BY <2>1 DEF FlagOf
    <2>3. cancels'[c] = 0 => CalmOf(c)'
      BY <1>1, <1>3, <2>1 DEF CalmOf, Live, Waiting
    <2>4. sent[c] \in Nat /\ 0 \notin closed[c]
      BY ConnFacts DEF TypeOK, ConnType
    <2>5. ChannelsOf(c)'
      BY <1>1, <2>1, <2>4 DEF ChannelInv, ChannelsOf
    <2>6. QED
      BY <2>2, <2>3, <2>5
  <1>5. CASE queue[c] # <<>>
    <2>1. /\ processing'[c] = processing[c] /\ cancel'[c] = Head(queue[c])
          /\ queue'[c] = Tail(queue[c]) /\ pc'[w] = "append"
      BY <1>5, DequeueEffect DEF TypeOK, ConnType, WorkType
    <2>2. queue[c] \in Seq(Nat \ {0})
      BY DEF TypeOK, ConnType
    <2>3. FlagOf(c)'
      BY <1>5, <2>1 DEF FlagInv, FlagOf, Live
    <2>4. Head(queue[c]) # 0
      BY <1>5, <2>2
    <2>5. cancels'[c] = 0 => CalmOf(c)'
      BY <1>1, <1>3, <2>1, <2>4 DEF CalmOf, Live, Waiting
    <2>6. /\ cancel'[c] \in 1 .. sent[c] /\ cancel'[c] \notin closed[c]
          /\ \A n \in closed[c] : n <= sent[c]
      BY <1>5, <2>1, <2>2, TailOf DEF ChannelInv, ChannelsOf
    <2>7. ASSUME NEW i \in 1 .. Len(queue'[c])
          PROVE  /\ queue'[c][i] \in 1 .. sent[c]
                 /\ queue'[c][i] \notin closed[c]
                 /\ queue'[c][i] # cancel'[c]
                 /\ \A j \in 1 .. Len(queue'[c]) : i < j => queue'[c][i] < queue'[c][j]
      <3>1. /\ queue'[c][i] = queue[c][i + 1] /\ i + 1 \in 1 .. Len(queue[c])
            /\ 1 < i + 1 /\ 1 \in 1 .. Len(queue[c]) /\ cancel'[c] = queue[c][1]
        BY <1>5, <2>1, <2>2, TailOf
      <3>2. /\ queue[c][i + 1] \in 1 .. sent[c] /\ queue[c][i + 1] \notin closed[c]
            /\ queue[c][1] < queue[c][i + 1]
        BY <3>1 DEF ChannelInv, ChannelsOf
      <3>3. queue[c][1] # queue[c][i + 1]
        <4>1. queue[c][1] \in Nat /\ queue[c][i + 1] \in Nat
          BY <2>2, <3>1
        <4>2. QED
          BY <3>2, <4>1
      <3>4. ASSUME NEW j \in 1 .. Len(queue'[c]), i < j
            PROVE  queue'[c][i] < queue'[c][j]
        <4>1. queue'[c][j] = queue[c][j + 1] /\ j + 1 \in 1 .. Len(queue[c])
          BY <1>5, <2>1, <2>2, TailOf
        <4>2. i \in Nat /\ j \in Nat
          OBVIOUS
        <4>3. i + 1 < j + 1
          BY <3>4, <4>2
        <4>4. QED
          BY <3>1, <4>1, <4>3 DEF ChannelInv, ChannelsOf
      <3>5. QED
        BY <3>1, <3>2, <3>3, <3>4
    <2>8. sent[c] \in Nat /\ cancel'[c] <= sent[c]
      BY <2>6, ConnFacts
    <2>9. ChannelsOf(c)'
      BY <1>1, <2>6, <2>7, <2>8 DEF ChannelsOf
    <2>10. QED
      BY <2>3, <2>5, <2>9
  <1>6. QED
    BY <1>4, <1>5

\* A queued message comes after those before it, and a worker will see it.
LEMMA EnqueueKeeps ==
  ASSUME TypeOK, FlagInv, CalmInv, ChannelInv, NEW c \in Conns, Enqueue(c)
  PROVE  FlagOf(c)' /\ (cancels'[c] = 0 => CalmOf(c)') /\ ChannelsOf(c)'
  <1>1. /\ processing[c] /\ processing'[c] = processing[c] /\ cancel'[c] = cancel[c]
        /\ closed'[c] = closed[c] /\ cancels'[c] = cancels[c]
        /\ UNCHANGED <<pc, ch>>
    BY EnqueueEffect
  <1>2. queue'[c] = Append(queue[c], sent[c] + 1) /\ sent'[c] = sent[c] + 1
    BY EnqueueEffect DEF TypeOK, ConnType, CountType
  <1>3. queue[c] \in Seq(Nat \ {0}) /\ sent[c] \in Nat /\ cancel[c] \in Nat
    BY ConnFacts DEF TypeOK, ConnType
  <1>4. FlagOf(c)'
    BY <1>1 DEF FlagInv, FlagOf, Live
  <1>5. cancels'[c] = 0 => CalmOf(c)'
    BY <1>1 DEF CalmInv, CalmOf, Live, Waiting
  <1>6. /\ Len(queue[c]) \in Nat /\ Len(queue'[c]) = Len(queue[c]) + 1
        /\ \A i \in 1 .. Len(queue[c]) : queue'[c][i] = queue[c][i]
        /\ queue'[c][Len(queue[c]) + 1] = sent[c] + 1
    BY <1>2, <1>3
  <1>7. /\ \A i \in 1 .. Len(queue[c]) : queue[c][i] \in 1 .. sent[c]
        /\ \A n \in closed[c] : n \in Nat /\ n <= sent[c]
        /\ cancel[c] <= sent[c] /\ cancel[c] \notin closed[c]
    BY DEF ChannelInv, ChannelsOf, TypeOK, ConnType
  <1>8. ASSUME NEW i \in 1 .. Len(queue'[c])
        PROVE  /\ queue'[c][i] \in 1 .. sent[c] + 1
               /\ queue'[c][i] \notin closed[c]
               /\ queue'[c][i] # cancel[c]
               /\ \A j \in 1 .. Len(queue'[c]) : i < j => queue'[c][i] < queue'[c][j]
    <2>1. CASE i = Len(queue[c]) + 1
      BY <1>3, <1>6, <1>7, <2>1
    <2>2. CASE i \in 1 .. Len(queue[c])
      <3>1. /\ queue'[c][i] = queue[c][i] /\ queue[c][i] \in 1 .. sent[c]
            /\ queue[c][i] \notin closed[c] /\ queue[c][i] # cancel[c]
        BY <1>6, <2>2 DEF ChannelInv, ChannelsOf
      <3>2. ASSUME NEW j \in 1 .. Len(queue'[c]), i < j
            PROVE  queue'[c][i] < queue'[c][j]
        <4>1. CASE j = Len(queue[c]) + 1
          BY <1>3, <1>6, <3>1, <4>1
        <4>2. CASE j \in 1 .. Len(queue[c])
          BY <1>6, <2>2, <3>1, <3>2, <4>2 DEF ChannelInv, ChannelsOf
        <4>3. QED
          BY <1>6, <4>1, <4>2
      <3>3. queue[c][i] \in 1 .. sent[c] + 1
        BY <1>3, <3>1
      <3>4. QED
        BY <3>1, <3>2, <3>3
    <2>3. QED
      BY <1>6, <2>1, <2>2
  <1>9. cancel[c] <= sent[c] + 1 /\ \A n \in closed[c] : n <= sent[c] + 1
    BY <1>3, <1>7
  <1>10. ChannelsOf(c)'
    BY <1>1, <1>2, <1>7, <1>8, <1>9 DEF ChannelsOf
  <1>11. QED
    BY <1>4, <1>5, <1>10

\* A cancellation empties the queue together with the flag.
LEMMA CancelKeeps ==
  ASSUME TypeOK, FlagInv, CalmInv, ChannelInv, NEW c \in Conns,
         CancelProcessing(c) \/ ClosePanel(c)
  PROVE  FlagOf(c)' /\ (cancels'[c] = 0 => CalmOf(c)') /\ ChannelsOf(c)'
  <1>1. /\ closed'[c] = IF cancel[c] = 0 THEN closed[c] ELSE closed[c] \cup {cancel[c]}
        /\ cancel'[c] = 0 /\ queue'[c] = <<>> /\ ~processing'[c]
        /\ cancels'[c] = cancels[c] + 1 /\ sent'[c] = sent[c]
    BY CancelEffect DEF TypeOK, ConnType, CountType
  <1>2. sent[c] \in Nat /\ cancels[c] \in Nat /\ 0 \notin closed[c]
    BY ConnFacts DEF TypeOK, ConnType
  <1>3. FlagOf(c)' /\ cancels'[c] # 0
    BY <1>1, <1>2 DEF FlagOf
  <1>4. ChannelsOf(c)'
    BY <1>1, <1>2 DEF ChannelInv, ChannelsOf
  <1>5. QED
    BY <1>3, <1>4

\* Every step keeps the flag, calm and channel parts.
LEMMA KeepStep ==
  ASSUME TypeOK, FlagInv, CalmInv, ChannelInv, [Next]_vars
  PROVE  FlagInv' /\ CalmInv' /\ ChannelInv'
  <1>1. CASE Quiet
    BY <1>1, QuietKeeps
  <1>2. CASE ~Quiet
    <2>1. ASSUME NEW c \in Conns
          PROVE  FlagOf(c)' /\ (cancels'[c] = 0 => CalmOf(c)') /\ ChannelsOf(c)'
      <3>1. ASSUME NEW w \in Worker, Start(w) \/ Dequeue(w)
            PROVE  FlagOf(c)' /\ (cancels'[c] = 0 => CalmOf(c)') /\ ChannelsOf(c)'
        BY <3>1, StartElsewhere, UntouchedKeeps, StartKeeps, DequeueKeeps
      <3>2. ASSUME NEW d \in Conns, Enqueue(d) \/ CancelProcessing(d) \/ ClosePanel(d)
            PROVE  FlagOf(c)' /\ (cancels'[c] = 0 => CalmOf(c)') /\ ChannelsOf(c)'
        BY <3>2, UserElsewhere, UntouchedKeeps, EnqueueKeeps, CancelKeeps
      <3>3. QED
        BY <1>2, <3>1, <3>2, QuietStep
    <2>2. QED
      BY <2>1 DEF FlagInv, CalmInv, ChannelInv
  <1>3. QED
    BY <1>1, <1>2

-----------------------------------------------------------------------------
TypeInv == TypeOK /\ RoundInv
IInv == TypeInv /\ FlagInv /\ CalmInv /\ ChannelInv

\* The inductive invariant holds at first.
LEMMA IInvInit == Init => IInv
  <1>1. SUFFICES ASSUME Init PROVE FlagInv /\ CalmInv /\ ChannelInv
    BY TypeInit DEF IInv, TypeInv
  <1>2. FlagInv /\ CalmInv
    BY <1>1 DEF Init, FlagInv, FlagOf, CalmInv, CalmOf, Live, Waiting, Worker, ConnOf
  <1>3. ChannelInv
    BY <1>1 DEF Init, ChannelInv, ChannelsOf
  <1>4. QED
    BY <1>2, <1>3

\* The inductive invariant holds in every state the service reaches.
THEOREM Inductive == Spec => []IInv
  <1>1. IInv /\ [Next]_vars => IInv'
    BY TypeStep, KeepStep DEF IInv, TypeInv
  <1>2. QED
    BY IInvInit, <1>1, PTL DEF Spec

\* The state keeps its shape, and the rounds of a turn stay within maxRounds and one
\* summary (service.go:299), for every number of rounds, calls and workers.
THEOREM TypeCorrect == Spec => []TypeOK
  <1>1. IInv => TypeOK
    BY DEF IInv, TypeInv
  <1>2. QED
    BY Inductive, <1>1, PTL

\* A queued message always has a living worker to come back for it (processQueue).
THEOREM NeverStranded == Spec => []NoStrandedMessage
  <1>1. IInv => NoStrandedMessage
    BY DEF IInv, FlagInv, FlagOf, NoStrandedMessage
  <1>2. QED
    BY Inductive, <1>1, PTL

\* Before the first cancellation a connection has at most one worker (SendMessage).
THEOREM Serial == Spec => []SerialUntilCancelled
  <1>1. IInv => SerialUntilCancelled
    BY DEF IInv, CalmInv, CalmOf, SerialUntilCancelled
  <1>2. QED
    BY Inductive, <1>1, PTL

\* Before the first cancellation, a blocked worker holds the channel that a cancellation
\* is going to close.
THEOREM CancelIsHeard == Spec => []CancelReachesWaiter
  <1>1. IInv => CancelReachesWaiter
    <2>1. SUFFICES ASSUME IInv, NEW w \in Worker, cancels[ConnOf(w)] = 0, Waiting(w)
                   PROVE  ch[w] # 0 /\ ch[w] = cancel[ConnOf(w)]
      BY DEF CancelReachesWaiter
    <2>2. ConnOf(w) \in Conns /\ Live(w)
      BY <2>1 DEF Worker, ConnOf, Waiting, Live
    <2>3. QED
      BY <2>1, <2>2 DEF IInv, CalmInv, CalmOf
  <1>2. QED
    BY Inductive, <1>1, PTL

-----------------------------------------------------------------------------
(* The order of the user messages.  They live in the session, in the copies  *)
(* persistMessages made of it and in the history file, and come back from    *)
(* the file, so the order is stated of all the lists of a server at once.    *)

Lists(c) ==
  {messages[KeyOf[c]], disk[KeyOf[c]]}
  \cup {snapshot[w] : w \in {v \in Worker : KeyOf[ConnOf(v)] = KeyOf[c]}}

Says(s, i, c) == s[i].role = "user" /\ s[i].conn = c

\* The user messages of c in s are in order, and none is newer than top.
InOrder(s, c, top) ==
  \A i \in 1 .. Len(s) : Says(s, i, c) =>
    /\ s[i].n <= top
    /\ \A j \in i + 1 .. Len(s) : Says(s, j, c) => s[i].n <= s[j].n

\* The newest message that can have entered the session: the one that is answered.
Newest(c) == IF cancel[c] = 0 THEN sent[c] ELSE cancel[c]

\* A worker answers the message its cancel channel was made for.
TurnsOf(c) == \A w \in Worker : ConnOf(w) = c /\ Live(w) => turn[w] = cancel[c]

OrderOf(c) == TurnsOf(c) /\ \A s \in Lists(c) : InOrder(s, c, Newest(c))

OrderInv == \A c \in Conns : cancels[c] = 0 => OrderOf(c)

\* What waits was sent after what is answered.
QueueAhead == \A c \in Conns : \A i \in 1 .. Len(queue[c]) : cancel[c] < queue[c][i]

\* The lists of a server are lists of messages.
LEMMA ListsType ==
  ASSUME TypeOK, NEW c \in Conns, NEW s \in Lists(c)
  PROVE  s \in Seq(Msg)
  <1>1. KeyOf[c] \in Keys
    BY ConnFacts
  <1>2. QED
    BY <1>1 DEF Lists, TypeOK, SessType, WorkType

\* A list in order stays so under a higher bound.
LEMMA InOrderUpTo ==
  ASSUME NEW c \in Conns, NEW s \in Seq(Msg), NEW a \in Nat, NEW b \in Nat, a <= b,
         InOrder(s, c, a)
  PROVE  InOrder(s, c, b)
  <1>1. \A i \in 1 .. Len(s) : s[i] \in Msg
    OBVIOUS
  <1>2. \A i \in 1 .. Len(s) : s[i].n \in Nat
    BY <1>1 DEF Msg
  <1>3. QED
    BY <1>2 DEF InOrder

\* A list in order stays so when a message is added that is none of the user's on c, or
\* the one the bound allows.
LEMMA InOrderAppend ==
  ASSUME NEW c \in Conns, NEW s \in Seq(Msg), NEW m \in Msg, NEW a \in Nat,
         InOrder(s, c, a), m.role = "user" /\ m.conn = c => m.n = a
  PROVE  InOrder(Append(s, m), c, a)
  <1> DEFINE t == Append(s, m)
  <1>1. /\ Len(s) \in Nat /\ Len(t) = Len(s) + 1 /\ t[Len(s) + 1] = m
        /\ \A i \in 1 .. Len(s) : t[i] = s[i]
    OBVIOUS
  <1>2. SUFFICES ASSUME NEW i \in 1 .. Len(t), Says(t, i, c)
                 PROVE  /\ t[i].n <= a
                        /\ \A j \in i + 1 .. Len(t) : Says(t, j, c) => t[i].n <= t[j].n
    BY DEF InOrder
  <1>3. CASE i = Len(s) + 1
    <2>1. t[i].n = a /\ ~\E j \in i + 1 .. Len(t) : TRUE
      BY <1>1, <1>2, <1>3 DEF Says
    <2>2. QED
      BY <2>1
  <1>4. CASE i \in 1 .. Len(s)
    <2>1. t[i] = s[i] /\ Says(s, i, c) /\ s[i].n <= a
      BY <1>1, <1>2, <1>4 DEF Says, InOrder
    <2>2. ASSUME NEW j \in i + 1 .. Len(t), Says(t, j, c)
          PROVE  t[i].n <= t[j].n
      <3>1. CASE j = Len(s) + 1
        BY <1>1, <2>1, <2>2, <3>1 DEF Says
      <3>2. CASE j # Len(s) + 1
        <4>1. j \in i + 1 .. Len(s) /\ j \in 1 .. Len(s)
          BY <1>1, <1>4, <3>2
        <4>2. t[j] = s[j] /\ Says(s, j, c)
          BY <1>1, <2>2, <4>1 DEF Says
        <4>3. QED
          BY <1>4, <2>1, <4>1, <4>2 DEF InOrder
      <3>3. QED
        BY <3>1, <3>2
    <2>3. QED
      BY <2>1, <2>2
  <1>5. QED
    BY <1>1, <1>3, <1>4

\* No list of a server comes from nowhere: it was one of its lists before, it is empty, or
\* it is the session now that a living worker of the server has said something.
Grown(c, s) ==
  \/ s \in Lists(c)
  \/ s = <<>>
  \/ \E w \in Worker, m \in Msg :
       /\ Live(w) /\ m.conn = ConnOf(w) /\ m.n = turn[w]
       /\ s = Append(messages[KeyOf[c]], m) /\ s = messages'[KeyOf[c]]

\* A worker that speaks adds to the session of its server.
LEMMA SayGrows ==
  ASSUME TypeOK, NEW w \in Worker, NEW role \in {"user", "assistant", "tool"},
         NEW r \in Nat, NEW k \in Nat, Say(w, Message(w, role, r, k)), Live(w),
         UNCHANGED <<disk, snapshot>>, NEW c \in Conns, NEW s \in Lists(c)'
  PROVE  Grown(c, s)
  <1>1. KeyOf[c] \in Keys
    BY ConnFacts
  <1>2. /\ Message(w, role, r, k) \in Msg
        /\ Message(w, role, r, k).conn = ConnOf(w) /\ Message(w, role, r, k).n = turn[w]
    BY WorkerFacts DEF Message, Msg, TypeOK, WorkType
  <1>3. CASE KeyOf[ConnOf(w)] = KeyOf[c]
    <2>1. messages'[KeyOf[c]] = Append(messages[KeyOf[c]], Message(w, role, r, k))
      BY <1>1, <1>3 DEF Say, TypeOK, SessType
    <2>2. s = messages'[KeyOf[c]] \/ s \in Lists(c)
      BY DEF Lists
    <2>3. QED
      BY <1>2, <2>1, <2>2 DEF Grown
  <1>4. CASE KeyOf[ConnOf(w)] # KeyOf[c]
    <2>1. messages'[KeyOf[c]] = messages[KeyOf[c]]
      BY <1>1, <1>4 DEF Say, TypeOK, SessType
    <2>2. QED
      BY <2>1 DEF Lists, Grown
  <1>5. QED
    BY <1>3, <1>4

\* Lists whose three variables do not change do not change.
LEMMA SameLists ==
  ASSUME UNCHANGED <<messages, disk, snapshot>>, NEW c \in Conns, NEW s \in Lists(c)'
  PROVE  Grown(c, s)
  BY DEF Lists, Grown

\* Every step, of a worker or of the user, makes the lists of a server from them.
LEMMA ListsGrow ==
  ASSUME TypeOK, [Next]_vars, NEW c \in Conns, NEW s \in Lists(c)'
  PROVE  Grown(c, s)
  <1>0. KeyOf[c] \in Keys
    BY ConnFacts
  <1>1. ASSUME NEW w \in Worker, WorkerStep(w) PROVE Grown(c, s)
    <2>0. round[w] \in Nat /\ call[w] \in Nat /\ KeyOf[ConnOf(w)] \in Keys
      BY WorkerFacts
    <2>1. CASE AppendUser(w)
      <3>1. Say(w, Message(w, "user", 0, 0)) /\ Live(w) /\ UNCHANGED <<disk, snapshot>>
        BY <2>1 DEF AppendUser, Live
      <3>2. QED
        BY <3>1, SayGrows
    <2>2. CASE Dequeue(w) \/ ReadCancel(w) \/ RoundCancelled(w) \/ StartRound(w)
      BY <2>2, SameLists DEF Dequeue, ReadCancel, RoundCancelled, StartRound, sessVars
    <2>3. CASE CallFails(w) \/ CallReplies(w)
      <3>1. /\ Say(w, Message(w, "assistant", round[w], 0)) /\ Live(w)
            /\ UNCHANGED <<disk, snapshot>>
        BY <2>3 DEF CallFails, CallReplies, Live
      <3>2. QED
        BY <2>0, <3>1, SayGrows
    <2>4. ASSUME NEW k \in 1 .. MaxCalls, CallAsksTools(w, k) PROVE Grown(c, s)
      <3>1. /\ Say(w, Message(w, "assistant", round[w], k)) /\ Live(w)
            /\ UNCHANGED <<disk, snapshot>>
        BY <2>4 DEF CallAsksTools, Live
      <3>2. k \in Nat
        BY ChatAssumption
      <3>3. QED
        BY <2>0, <3>1, <3>2, SayGrows
    <2>5. CASE Ask(w) \/ Execute(w) \/ Capture(w) \/ Approved(w)
      BY <2>5, SameLists DEF Ask, Execute, Capture, Approved, sessVars
    <2>6. CASE Refused(w) \/ Finish(w)
      <3>1. /\ Say(w, Message(w, "tool", round[w], call[w])) /\ Live(w)
            /\ UNCHANGED <<disk, snapshot>>
        BY <2>6 DEF Refused, Finish, ToolDone, Live
      <3>2. QED
        BY <2>0, <3>1, SayGrows
    <2>7. CASE Summarise(w)
      <3>1. /\ Say(w, Message(w, "user", round[w], 0)) /\ Live(w)
            /\ UNCHANGED <<disk, snapshot>>
        BY <2>7 DEF Summarise, Live
      <3>2. QED
        BY <2>0, <3>1, SayGrows
    <2>8. CASE Copy(w)
      <3>1. /\ snapshot' = [snapshot EXCEPT ![w] = messages[KeyOf[ConnOf(w)]]]
            /\ UNCHANGED <<messages, disk>>
        BY <2>8 DEF Copy, sessVars
      <3>2. \A v \in Worker : v # w => snapshot'[v] = snapshot[v]
        BY <3>1 DEF TypeOK, WorkType
      <3>3. snapshot'[w] = messages[KeyOf[ConnOf(w)]]
        BY <3>1 DEF TypeOK, WorkType
      <3>4. QED
        BY <3>1, <3>2, <3>3 DEF Lists, Grown
    <2>9. CASE Save(w)
      <3>1. /\ disk' = [disk EXCEPT ![KeyOf[ConnOf(w)]] = snapshot[w]]
            /\ snapshot' = [snapshot EXCEPT ![w] = <<>>] /\ UNCHANGED messages
        BY <2>9 DEF Save
      <3>2. snapshot'[w] = <<>> /\ \A v \in Worker : v # w => snapshot'[v] = snapshot[v]
        BY <3>1 DEF TypeOK, WorkType
      <3>3. /\ KeyOf[ConnOf(w)] = KeyOf[c] => disk'[KeyOf[c]] = snapshot[w]
            /\ KeyOf[ConnOf(w)] # KeyOf[c] => disk'[KeyOf[c]] = disk[KeyOf[c]]
        BY <1>0, <2>0, <3>1 DEF TypeOK, SessType
      <3>4. QED
        BY <3>1, <3>2, <3>3 DEF Lists, Grown
    <2>10. QED
      BY <1>1, <2>1, <2>2, <2>3, <2>4, <2>5, <2>6, <2>7, <2>8, <2>9
         DEF WorkerStep, GoesOn, CallEnds
  <1>2. ASSUME NEW w \in Worker, Start(w) PROVE Grown(c, s)
    BY <1>2, SameLists DEF Start, sessVars
  <1>3. ASSUME NEW d \in Conns, UserStep(d) PROVE Grown(c, s)
    <2>0. KeyOf[d] \in Keys
      BY ConnFacts
    <2>1. CASE \/ Enqueue(d) \/ CancelProcessing(d) \/ DropCards(d)
               \/ ClosePanel(d) \/ OpenPanel(d)
      BY <2>1, SameLists DEF Enqueue, CancelProcessing, DropCards, ClosePanel, OpenPanel,
         sessVars, workVars
    <2>2. CASE GetChatHistory(d)
      <3>1. messages' = [messages EXCEPT ![KeyOf[d]] = disk[KeyOf[d]]]
        BY <2>2 DEF GetChatHistory
      <3>2. messages'[KeyOf[c]] \in {messages[KeyOf[c]], disk[KeyOf[c]]}
        BY <1>0, <2>0, <3>1 DEF TypeOK, SessType
      <3>3. UNCHANGED <<disk, snapshot>>
        BY <2>2 DEF GetChatHistory, workVars
      <3>4. QED
        BY <3>2, <3>3 DEF Lists, Grown
    <2>3. CASE ClearSession(d)
      <3>1. messages' = [messages EXCEPT ![KeyOf[d]] = <<>>]
        BY <2>3 DEF ClearSession
      <3>2. messages'[KeyOf[c]] \in {messages[KeyOf[c]], <<>>}
        BY <1>0, <2>0, <3>1 DEF TypeOK, SessType
      <3>3. UNCHANGED <<disk, snapshot>>
        BY <2>3 DEF ClearSession, workVars
      <3>4. QED
        BY <3>2, <3>3 DEF Lists, Grown
    <2>4. CASE ClearFile(d)
      <3>1. disk' = [disk EXCEPT ![KeyOf[d]] = <<>>]
        BY <2>4 DEF ClearFile
      <3>2. disk'[KeyOf[c]] \in {disk[KeyOf[c]], <<>>}
        BY <1>0, <2>0, <3>1 DEF TypeOK, SessType
      <3>3. UNCHANGED <<messages, snapshot>>
        BY <2>4 DEF ClearFile, workVars
      <3>4. QED
        BY <3>2, <3>3 DEF Lists, Grown
    <2>5. QED
      BY <1>3, <2>1, <2>2, <2>3, <2>4 DEF UserStep
  <1>4. CASE \E id \in cards, v \in BOOLEAN : Decide(id, v)
    BY <1>4, SameLists DEF Decide, sessVars, workVars
  <1>5. CASE \E id \in executing : SubmitToolResult(id)
    BY <1>5, SameLists DEF SubmitToolResult, sessVars, workVars
  <1>6. CASE UNCHANGED vars
    BY <1>6, SameLists DEF vars, sessVars, workVars
  <1>7. QED
    BY <1>1, <1>2, <1>3, <1>4, <1>5, <1>6 DEF Next

\* Only SendMessage and processQueue give a worker another message.
LEMMA TurnStep ==
  ASSUME [Next]_vars
  PROVE  UNCHANGED turn \/ \E w \in Worker : Start(w) \/ Dequeue(w)
  <1>1. ASSUME NEW w \in Worker, WorkerStep(w) PROVE UNCHANGED turn \/ Dequeue(w)
    BY <1>1 DEF WorkerStep, GoesOn, CallEnds, AppendUser, ReadCancel, RoundCancelled,
       StartRound, CallFails, CallReplies, CallAsksTools, Ask, Execute, Capture, Approved,
       Refused, Finish, ToolDone, Summarise, Copy, Save
  <1>2. ASSUME NEW c \in Conns, UserStep(c) PROVE UNCHANGED turn
    BY <1>2 DEF UserStep, Enqueue, CancelProcessing, DropCards, ClosePanel, OpenPanel,
       GetChatHistory, ClearSession, ClearFile, workVars
  <1>3. CASE \E id \in cards, v \in BOOLEAN : Decide(id, v)
    BY <1>3 DEF Decide, workVars
  <1>4. CASE \E id \in executing : SubmitToolResult(id)
    BY <1>4 DEF SubmitToolResult, workVars
  <1>5. CASE UNCHANGED vars
    BY <1>5 DEF vars, workVars
  <1>6. QED
    BY <1>1, <1>2, <1>3, <1>4, <1>5 DEF Next

\* What a step leaves of the turns: they stay those of the channels, and the newest
\* message in the session only becomes newer.
Advances(c) == TurnsOf(c)' /\ Newest(c) <= Newest(c)'

\* SendMessage gives its worker a message newer than all before.
LEMMA StartAdvances ==
  ASSUME TypeOK, FlagInv, CalmInv, ChannelInv, NEW w \in Worker, Start(w),
         NEW c \in Conns, c = ConnOf(w), cancels[c] = 0
  PROVE  Advances(c)
  <1>1. sent[c] \in Nat /\ cancel[c] \in Nat /\ cancel[c] <= sent[c]
    BY ConnFacts DEF ChannelInv, ChannelsOf
  <1>2. /\ cancel'[c] = sent[c] + 1 /\ turn'[w] = sent[c] + 1 /\ pc'[w] = "append"
        /\ \A v \in Worker : v # w => pc'[v] = pc[v]
    BY DEF Start, Goto, TypeOK, ConnType, WorkType
  <1>3. \A v \in Worker : ConnOf(v) = c => ~Live(v)
    BY StartEffect DEF CalmInv, CalmOf
  <1>4. TurnsOf(c)'
    BY <1>2, <1>3 DEF TurnsOf, Live
  <1>5. Newest(c) <= Newest(c)'
    BY <1>1, <1>2 DEF Newest
  <1>6. QED
    BY <1>4, <1>5 DEF Advances

\* processQueue gives it the oldest of those that wait, or ends.
LEMMA DequeueAdvances ==
  ASSUME TypeOK, CalmInv, ChannelInv, QueueAhead, NEW w \in Worker, Dequeue(w),
         NEW c \in Conns, c = ConnOf(w), cancels[c] = 0
  PROVE  Advances(c)
  <1>1. sent[c] \in Nat /\ cancel[c] \in Nat /\ cancel[c] <= sent[c]
    BY ConnFacts DEF ChannelInv, ChannelsOf
  <1>2. Live(w) /\ sent' = sent /\ \A v \in Worker : v # w => pc'[v] = pc[v]
    BY DequeueEffect DEF TypeOK, WorkType
  <1>3. /\ cancel[c] # 0
        /\ \A v \in Worker : ConnOf(v) = c /\ v # w => pc'[v] = "idle"
    BY <1>2 DEF CalmInv, CalmOf, Live
  <1>4. CASE queue[c] = <<>>
    <2>1. cancel'[c] = 0 /\ pc'[w] = "idle"
      BY <1>4, DequeueEffect DEF TypeOK, ConnType, WorkType
    <2>2. TurnsOf(c)'
      BY <1>3, <2>1 DEF TurnsOf, Live
    <2>3. Newest(c) <= Newest(c)'
      BY <1>1, <1>2, <1>3, <2>1 DEF Newest
    <2>4. QED
      BY <2>2, <2>3 DEF Advances
  <1>5. CASE queue[c] # <<>>
    <2>1. cancel'[c] = Head(queue[c]) /\ turn'[w] = Head(queue[c])
      BY <1>5 DEF Dequeue, TypeOK, ConnType, WorkType
    <2>2. TurnsOf(c)'
      BY <1>3, <2>1 DEF TurnsOf, Live
    <2>3. queue[c] \in Seq(Nat \ {0})
      BY DEF TypeOK, ConnType
    <2>4. /\ Head(queue[c]) \in Nat \ {0} /\ Head(queue[c]) = queue[c][1]
          /\ 1 \in 1 .. Len(queue[c])
      BY <1>5, <2>3
    <2>5. cancel[c] < Head(queue[c])
      BY <2>4 DEF QueueAhead
    <2>6. Newest(c) <= Newest(c)'
      BY <1>1, <1>3, <2>1, <2>4, <2>5 DEF Newest
    <2>7. QED
      BY <2>2, <2>6 DEF Advances
  <1>6. QED
    BY <1>4, <1>5

\* No step of a worker or of the user turns the clock of a connection back.
LEMMA TurnsAdvance ==
  ASSUME TypeOK, FlagInv, CalmInv, ChannelInv, QueueAhead, [Next]_vars,
         NEW c \in Conns, cancels'[c] = 0, cancels[c] = 0, TurnsOf(c)
  PROVE  Advances(c)
  <1>0. sent[c] \in Nat /\ cancel[c] \in Nat /\ cancel[c] <= sent[c]
    BY ConnFacts DEF ChannelInv, ChannelsOf
  <1>1. Newest(c) \in Nat
    BY <1>0 DEF Newest
  <1>2. ASSUME NEW w \in Worker, Start(w) \/ Dequeue(w) PROVE Advances(c)
    <2>1. CASE ConnOf(w) = c
      BY <1>2, <2>1, StartAdvances, DequeueAdvances
    <2>2. CASE ConnOf(w) # c
      <3>1. Untouched(c)
        BY <1>2, <2>2, StartElsewhere
      <3>2. \A v \in Worker : ConnOf(v) = c => turn'[v] = turn[v]
        BY <1>2, <2>2 DEF Start, Dequeue, TypeOK, WorkType
      <3>3. TurnsOf(c)' /\ Newest(c)' = Newest(c)
        BY <3>1, <3>2 DEF Untouched, TurnsOf, Newest, Live
      <3>4. QED
        BY <1>1, <3>3 DEF Advances
    <2>3. QED
      BY <2>1, <2>2
  <1>3. CASE UNCHANGED turn
    <2>1. CASE Quiet
      <3>1. TurnsOf(c)' /\ Newest(c)' = Newest(c)
        BY <1>3, <2>1 DEF Quiet, TurnsOf, Newest
      <3>2. QED
        BY <1>1, <3>1 DEF Advances
    <2>2. ASSUME NEW d \in Conns, Enqueue(d) \/ CancelProcessing(d) \/ ClosePanel(d)
          PROVE  Advances(c)
      <3>1. CASE d # c
        <4>1. Untouched(c)
          BY <2>2, <3>1, UserElsewhere
        <4>2. TurnsOf(c)' /\ Newest(c)' = Newest(c)
          BY <1>3, <4>1 DEF Untouched, TurnsOf, Newest, Live
        <4>3. QED
          BY <1>1, <4>2 DEF Advances
      <3>2. CASE d = c /\ Enqueue(d)
        <4>1. sent'[c] = sent[c] + 1 /\ UNCHANGED <<cancel, pc>>
          BY <3>2, EnqueueEffect DEF TypeOK, CountType
        <4>2. TurnsOf(c)'
          BY <1>3, <4>1 DEF TurnsOf, Live
        <4>3. Newest(c) <= Newest(c)'
          BY <1>0, <4>1 DEF Newest
        <4>4. QED
          BY <4>2, <4>3 DEF Advances
      <3>3. CASE d = c /\ (CancelProcessing(d) \/ ClosePanel(d))
        <4>1. cancels'[c] = cancels[c] + 1
          BY <3>3, CancelEffect DEF TypeOK, CountType
        <4>2. QED
          BY <4>1
      <3>4. QED
        BY <2>2, <3>1, <3>2, <3>3
    <2>3. QED
      BY <1>2, <2>1, <2>2, QuietStep
  <1>4. QED
    BY <1>2, <1>3, TurnStep

\* What waits stays newer than what is answered, whatever is started, queued or cancelled.
LEMMA AheadStep ==
  ASSUME TypeOK, FlagInv, CalmInv, ChannelInv, QueueAhead, [Next]_vars
  PROVE  QueueAhead'
  <1>1. SUFFICES ASSUME NEW c \in Conns
                 PROVE  \A i \in 1 .. Len(queue'[c]) : cancel'[c] < queue'[c][i]
    BY DEF QueueAhead
  <1>2. /\ queue[c] \in Seq(Nat \ {0}) /\ sent[c] \in Nat /\ cancel[c] \in Nat
        /\ cancel[c] <= sent[c]
    BY ConnFacts DEF TypeOK, ConnType, ChannelInv, ChannelsOf
  <1>3. ASSUME Untouched(c)
        PROVE  \A i \in 1 .. Len(queue'[c]) : cancel'[c] < queue'[c][i]
    BY <1>3 DEF Untouched, QueueAhead
  <1>4. CASE Quiet
    BY <1>4 DEF Quiet, QueueAhead
  <1>5. ASSUME NEW w \in Worker, Start(w), c = ConnOf(w)
        PROVE  \A i \in 1 .. Len(queue'[c]) : cancel'[c] < queue'[c][i]
    <2>1. queue'[c] = queue[c] /\ ~processing[c]
      BY <1>5, StartEffect
    <2>2. queue[c] = <<>>
      BY <2>1 DEF FlagInv, FlagOf
    <2>3. QED
      BY <2>1, <2>2
  <1>6. ASSUME NEW w \in Worker, Dequeue(w), c = ConnOf(w)
        PROVE  \A i \in 1 .. Len(queue'[c]) : cancel'[c] < queue'[c][i]
    <2>1. CASE queue[c] = <<>>
      <3>1. queue'[c] = <<>>
        BY <1>6, <2>1, DequeueEffect
      <3>2. QED
        BY <3>1
    <2>2. CASE queue[c] # <<>>
      <3>1. cancel'[c] = Head(queue[c]) /\ queue'[c] = Tail(queue[c])
        BY <1>6, <2>2, DequeueEffect DEF TypeOK, ConnType
      <3>2. ASSUME NEW i \in 1 .. Len(queue'[c]) PROVE cancel'[c] < queue'[c][i]
        <4>1. /\ queue'[c][i] = queue[c][i + 1] /\ i + 1 \in 1 .. Len(queue[c])
              /\ 1 < i + 1 /\ 1 \in 1 .. Len(queue[c]) /\ cancel'[c] = queue[c][1]
          BY <1>2, <2>2, <3>1, TailOf
        <4>2. QED
          BY <4>1 DEF ChannelInv, ChannelsOf
      <3>3. QED
        BY <3>2
    <2>3. QED
      BY <2>1, <2>2
  <1>7. CASE Enqueue(c)
    <2>1. cancel'[c] = cancel[c] /\ queue'[c] = Append(queue[c], sent[c] + 1)
      BY <1>7, EnqueueEffect DEF TypeOK, ConnType
    <2>2. /\ Len(queue[c]) \in Nat /\ Len(queue'[c]) = Len(queue[c]) + 1
          /\ \A i \in 1 .. Len(queue[c]) : queue'[c][i] = queue[c][i]
          /\ queue'[c][Len(queue[c]) + 1] = sent[c] + 1
      BY <1>2, <2>1
    <2>3. QED
      BY <1>2, <2>1, <2>2 DEF QueueAhead
  <1>8. CASE CancelProcessing(c) \/ ClosePanel(c)
    <2>1. queue'[c] = <<>>
      BY <1>8, CancelEffect DEF TypeOK, ConnType
    <2>2. QED
      BY <2>1
  <1>9. QED
    BY <1>3, <1>4, <1>5, <1>6, <1>7, <1>8, QuietStep, StartElsewhere, UserElsewhere

\* The user's counters never go back.
LEMMA CountersGrow ==
  ASSUME TypeOK, [Next]_vars, NEW c \in Conns
  PROVE  /\ cancels'[c] = 0 => cancels[c] = 0
         /\ clears'[c] = 0 => clears[c] = 0 /\ ~ClearSession(c)
  <1>1. cancels[c] \in Nat /\ clears[c] \in Nat
    BY DEF TypeOK, CountType
  <1>2. cancels'[c] = cancels[c] \/ cancels'[c] = cancels[c] + 1
    <2>1. CASE Quiet
      BY <2>1 DEF Quiet
    <2>2. ASSUME NEW w \in Worker, Start(w) \/ Dequeue(w)
          PROVE  cancels'[c] = cancels[c]
      BY <2>2, StartEffect, DequeueEffect
    <2>3. ASSUME NEW d \in Conns, Enqueue(d) \/ CancelProcessing(d) \/ ClosePanel(d)
          PROVE  cancels'[c] = cancels[c] \/ cancels'[c] = cancels[c] + 1
      <3>1. UNCHANGED cancels \/ cancels' = [cancels EXCEPT ![d] = cancels[d] + 1]
        BY <2>3, EnqueueEffect, CancelEffect
      <3>2. QED
        BY <3>1 DEF TypeOK, CountType
    <2>4. QED
      BY <2>1, <2>2, <2>3, QuietStep
  <1>3. UNCHANGED clears \/ \E d \in Conns : ClearSession(d)
    <2>1. ASSUME NEW w \in Worker, Start(w) \/ WorkerStep(w) PROVE UNCHANGED clears
      BY <2>1 DEF Start, WorkerStep, GoesOn, CallEnds, AppendUser, Dequeue, ReadCancel,
         RoundCancelled, StartRound, CallFails, CallReplies, CallAsksTools, Ask, Execute,
         Capture, Approved, Refused, Finish, ToolDone,
         Summarise, Copy, Save, countVars
    <2>2. ASSUME NEW d \in Conns, UserStep(d) PROVE UNCHANGED clears \/ ClearSession(d)
      BY <2>2 DEF UserStep, Enqueue, CancelProcessing, DropCards, ClosePanel, OpenPanel,
         GetChatHistory, ClearFile, countVars
    <2>3. CASE \E id \in cards, v \in BOOLEAN : Decide(id, v)
      BY <2>3 DEF Decide, countVars
    <2>4. CASE \E id \in executing : SubmitToolResult(id)
      BY <2>4 DEF SubmitToolResult, countVars
    <2>5. CASE UNCHANGED vars
      BY <2>5 DEF vars, countVars
    <2>6. QED
      BY <2>1, <2>2, <2>3, <2>4, <2>5 DEF Next
  <1>4. ASSUME NEW d \in Conns, ClearSession(d)
        PROVE  clears'[c] = IF c = d THEN clears[c] + 1 ELSE clears[c]
    BY <1>4 DEF ClearSession, TypeOK, CountType
  <1>5. clears'[c] = 0 => clears[c] = 0
    BY <1>1, <1>3, <1>4
  <1>6. ASSUME ClearSession(c) PROVE clears'[c] # 0
    BY <1>1, <1>4, <1>6
  <1>7. QED
    BY <1>1, <1>2, <1>5, <1>6

\* Every step keeps the user messages of a connection in order, in all lists.
LEMMA OrderStep ==
  ASSUME TypeOK, FlagInv, CalmInv, ChannelInv, QueueAhead, OrderInv, [Next]_vars,
         TypeOK', ChannelInv'
  PROVE  OrderInv'
  <1>1. SUFFICES ASSUME NEW c \in Conns, cancels'[c] = 0 PROVE OrderOf(c)'
    BY DEF OrderInv
  <1>2. cancels[c] = 0
    BY <1>1, CountersGrow
  <1>3. TurnsOf(c) /\ \A s \in Lists(c) : InOrder(s, c, Newest(c))
    BY <1>2 DEF OrderInv, OrderOf
  <1>4. TurnsOf(c)' /\ Newest(c) <= Newest(c)'
    BY <1>1, <1>2, <1>3, TurnsAdvance DEF Advances
  <1>5. /\ sent[c] \in Nat /\ cancel[c] \in Nat
        /\ sent'[c] \in Nat /\ cancel'[c] \in Nat
    BY DEF TypeOK, ConnType, CountType
  <1>6. Newest(c) \in Nat /\ Newest(c)' \in Nat
    BY <1>5 DEF Newest
  <1>7. ASSUME NEW s \in Lists(c)' PROVE InOrder(s, c, Newest(c)')
    <2>1. CASE s \in Lists(c)
      BY <1>3, <1>4, <1>6, <2>1, ListsType, InOrderUpTo
    <2>2. CASE s = <<>>
      BY <2>2 DEF InOrder
    <2>3. ASSUME NEW w \in Worker, NEW m \in Msg, Live(w), m.conn = ConnOf(w),
                 m.n = turn[w], s = Append(messages[KeyOf[c]], m)
          PROVE  InOrder(s, c, Newest(c)')
      <3>1. messages[KeyOf[c]] \in Seq(Msg) /\ InOrder(messages[KeyOf[c]], c, Newest(c))
        BY <1>3, ListsType DEF Lists
      <3>2. m.conn = c => m.n = Newest(c)
        BY <1>2, <1>3, <2>3 DEF CalmInv, CalmOf, TurnsOf, Newest
      <3>3. InOrder(s, c, Newest(c)) /\ s \in Seq(Msg)
        BY <1>6, <2>3, <3>1, <3>2, InOrderAppend
      <3>4. QED
        BY <1>4, <1>6, <3>3, InOrderUpTo
    <2>4. QED
      BY <2>1, <2>2, <2>3, ListsGrow DEF Grown
  <1>8. QED
    BY <1>4, <1>7 DEF OrderOf

\* At first no message was sent.
LEMMA OrderInit == Init => OrderInv /\ QueueAhead
  <1>1. SUFFICES ASSUME Init PROVE OrderInv /\ QueueAhead
    OBVIOUS
  <1>2. QueueAhead
    BY <1>1 DEF Init, QueueAhead
  <1>3. ASSUME NEW c \in Conns PROVE OrderOf(c)
    <2>1. TurnsOf(c)
      BY <1>1 DEF Init, TurnsOf, Live
    <2>2. ASSUME NEW s \in Lists(c) PROVE s = <<>>
      <3>1. KeyOf[c] \in Keys
        BY ChatAssumption
      <3>2. QED
        BY <1>1, <2>2, <3>1 DEF Init, Lists
    <2>3. QED
      BY <2>1, <2>2 DEF OrderOf, InOrder
  <1>4. QED
    BY <1>2, <1>3 DEF OrderInv

\* The session, its copies and the history file hold the user messages of a connection
\* that was not cancelled in order, none newer than the one that is answered.
THEOREM ListsInOrder == Spec => [](OrderInv /\ QueueAhead)
  <1>1. IInv /\ IInv' /\ OrderInv /\ QueueAhead /\ [Next]_vars
          => OrderInv' /\ QueueAhead'
    BY OrderStep, AheadStep DEF IInv, TypeInv
  <1>2. QED
    BY OrderInit, Inductive, <1>1, PTL DEF Spec

\* Until the first cancellation, messages enter the session in the order in which they
\* were sent, directly or through the queue (SendMessage, processQueue).
THEOREM SentInOrder == Spec => []OrderUntilCancelled
  <1>1. OrderInv => OrderUntilCancelled
    <2>1. SUFFICES ASSUME OrderInv, NEW c \in Conns, cancels[c] = 0
                   PROVE  LET s == messages[KeyOf[c]]
                              mine == {i \in 1 .. Len(s) : s[i].role = "user" /\ s[i].conn = c}
                          IN \A i, j \in mine : i < j => s[i].n <= s[j].n
      BY DEF OrderUntilCancelled
    <2>2. InOrder(messages[KeyOf[c]], c, Newest(c))
      BY <2>1 DEF OrderInv, OrderOf, Lists
    <2>3. QED
      BY <2>2 DEF InOrder, Says
  <1>2. QED
    BY ListsInOrder, <1>1, PTL

-----------------------------------------------------------------------------
(* The pairing of calls and results.  First of lists of messages alone.      *)

\* The answer at i, if it asks for tools, is followed by the results of all its calls.
Asked(s, i) ==
  HasCalls(s[i]) =>
    \A j \in 1 .. s[i].call :
      i + j <= Len(s) /\ s[i + j] = [s[i] EXCEPT !.role = "tool", !.call = j]

\* The result at i, if it is one, stands among those of the answer that asked for it.
Told(s, i) ==
  s[i].role = "tool" =>
    /\ i > s[i].call
    /\ LET a == s[i - s[i].call]
       IN HasCalls(a) /\ a.call >= s[i].call /\ a.conn = s[i].conn
            /\ a.n = s[i].n /\ a.round = s[i].round

\* Paired is the two of them at every place.
LEMMA PairedIs ==
  ASSUME NEW s \in Seq(Msg)
  PROVE  Paired(s) <=> \A i \in 1 .. Len(s) : Asked(s, i) /\ Told(s, i)
  BY DEF Paired, Asked, Told

\* The fields of the messages of a list.
LEMMA MsgFacts ==
  ASSUME NEW s \in Seq(Msg), NEW i \in 1 .. Len(s)
  PROVE  /\ s[i] \in Msg /\ s[i].call \in Nat /\ i \in Nat /\ Len(s) \in Nat
         /\ s[i].role \in {"user", "assistant", "tool"}
  <1>1. s[i] \in Msg
    OBVIOUS
  <1>2. QED
    BY <1>1 DEF Msg

\* What stands in a list is paired after a message is added as it was before.
LEMMA AppendKeepsPair ==
  ASSUME NEW s \in Seq(Msg), NEW m \in Msg, NEW i \in 1 .. Len(s)
  PROVE  /\ Asked(s, i) => Asked(Append(s, m), i)
         /\ Told(s, i) => Told(Append(s, m), i)
  <1> DEFINE t == Append(s, m)
  <1>1. /\ Len(s) \in Nat /\ Len(t) = Len(s) + 1 /\ t[Len(s) + 1] = m
        /\ \A j \in 1 .. Len(s) : t[j] = s[j]
    OBVIOUS
  <1>2. s[i].call \in Nat /\ i \in Nat /\ t[i] = s[i]
    BY <1>1, MsgFacts
  <1>3. ASSUME Asked(s, i) PROVE Asked(t, i)
    <2>1. SUFFICES ASSUME HasCalls(s[i]), NEW j \in 1 .. s[i].call
                   PROVE  i + j <= Len(t) /\ t[i + j] = [s[i] EXCEPT !.role = "tool",
                                                                     !.call = j]
      BY <1>2 DEF Asked
    <2>2. i + j <= Len(s) /\ s[i + j] = [s[i] EXCEPT !.role = "tool", !.call = j]
      BY <1>3, <2>1 DEF Asked
    <2>3. j \in Nat /\ i + j \in 1 .. Len(s)
      BY <1>1, <1>2, <2>2
    <2>4. QED
      BY <1>1, <2>2, <2>3
  <1>4. ASSUME Told(s, i) PROVE Told(t, i)
    <2>1. SUFFICES ASSUME s[i].role = "tool" PROVE Told(t, i)
      BY <1>2 DEF Told
    <2>2. i - s[i].call \in 1 .. Len(s)
      BY <1>1, <1>2, <1>4, <2>1 DEF Told
    <2>3. t[i - s[i].call] = s[i - s[i].call]
      BY <1>1, <2>2
    <2>4. QED
      BY <1>2, <1>4, <2>3 DEF Told
  <1>5. QED
    BY <1>3, <1>4

\* In a paired list: an answer that asks for tools is not the last message, and a result
\* stands after the first.
LEMMA PairedEnds ==
  ASSUME NEW s \in Seq(Msg), Paired(s), NEW i \in 1 .. Len(s)
  PROVE  /\ HasCalls(s[i]) => i < Len(s) /\ s[i + 1].role = "tool"
         /\ s[i].role = "tool" => i # 1
  <1>1. Asked(s, i) /\ Told(s, i) /\ s[i] \in Msg /\ s[i].call \in Nat
    BY PairedIs, MsgFacts
  <1>2. ASSUME HasCalls(s[i]) PROVE i < Len(s) /\ s[i + 1].role = "tool"
    <2>1. 1 \in 1 .. s[i].call
      BY <1>1, <1>2 DEF HasCalls
    <2>2. i + 1 <= Len(s) /\ s[i + 1] = [s[i] EXCEPT !.role = "tool", !.call = 1]
      BY <1>1, <1>2, <2>1 DEF Asked
    <2>3. s[i + 1].role = "tool"
      BY <1>1, <2>2 DEF Msg
    <2>4. QED
      BY <2>2, <2>3, MsgFacts
  <1>3. ASSUME s[i].role = "tool", i = 1 PROVE FALSE
    <2>1. s[i].call = 0 /\ i - s[i].call = i
      BY <1>1, <1>3 DEF Told
    <2>2. HasCalls(s[i])
      BY <1>1, <1>3, <2>1 DEF Told
    <2>3. QED
      BY <1>3, <2>2 DEF HasCalls
  <1>4. QED
    BY <1>2, <1>3

\* Places of an answer, of a result and of what is between them.
LEMMA PlaceBetween ==
  \A i, k, g, n \in Nat :
    i > k /\ n >= k /\ i - k < g /\ g <= i
      => g - (i - k) \in 1 .. n /\ (i - k) + (g - (i - k)) = g
  OBVIOUS

\* Places after a cut, of what stands j behind or k before another.
LEMMA PlaceAfterCut ==
  ASSUME NEW o \in Nat, NEW n \in Nat, o <= n, NEW i \in 1 .. n - o, NEW j \in Nat
  PROVE  /\ (o + i) + j <= n => i + j \in 1 .. n - o /\ o + (i + j) = (o + i) + j
         /\ (o + i) - j >= o + 1 =>
              i - j \in 1 .. n - o /\ o + (i - j) = (o + i) - j /\ i > j
  OBVIOUS

\* Results of a paired list stand together: no answer stands between a result and the
\* answer that asked for it.
LEMMA ResultsTogether ==
  ASSUME NEW s \in Seq(Msg), Paired(s), NEW i \in 1 .. Len(s), s[i].role = "tool",
         NEW g \in 1 .. Len(s), i - s[i].call < g, g <= i
  PROVE  s[g].role = "tool"
  <1> DEFINE a == i - s[i].call
  <1>1. s[i].call \in Nat /\ i \in Nat /\ g \in Nat
    BY MsgFacts
  <1>2. i > s[i].call /\ HasCalls(s[a]) /\ s[a].call >= s[i].call
    BY PairedIs DEF Told
  <1>3. a \in 1 .. Len(s)
    BY <1>1, <1>2
  <1>4. s[a].call \in Nat /\ s[a] \in Msg
    BY <1>3, MsgFacts
  <1>5. g - a \in 1 .. s[a].call /\ a + (g - a) = g
    BY <1>1, <1>2, <1>4, PlaceBetween
  <1>6. Asked(s, a)
    BY <1>3, PairedIs
  <1>7. s[g] = [s[a] EXCEPT !.role = "tool", !.call = g - a]
    BY <1>2, <1>5, <1>6 DEF Asked
  <1>8. QED
    BY <1>4, <1>7 DEF Msg

\* A paired list may be cut before any message that is not a result.
LEMMA CutPaired ==
  ASSUME NEW s \in Seq(Msg), Paired(s), NEW g \in 1 .. Len(s) + 1,
         g <= Len(s) => s[g].role # "tool"
  PROVE  Paired(SubSeq(s, g, Len(s)))
  <1> DEFINE t == SubSeq(s, g, Len(s))
  <1>0. PICK o \in Nat : g = o + 1
    <2>1. g - 1 \in Nat /\ g = (g - 1) + 1
      OBVIOUS
    <2>2. QED
      BY <2>1
  <1>1. /\ Len(s) \in Nat /\ g \in Nat /\ o <= Len(s)
        /\ t \in Seq(Msg) /\ Len(t) = Len(s) - o
        /\ \A i \in 1 .. Len(t) : t[i] = s[o + i]
    BY <1>0
  <1> HIDE DEF t
  <1>2. SUFFICES ASSUME NEW i \in 1 .. Len(t) PROVE Asked(t, i) /\ Told(t, i)
    BY <1>1, PairedIs DEF t
  <1>3. /\ o + i \in 1 .. Len(s) /\ i \in Nat /\ i \in 1 .. Len(s) - o
        /\ t[i] = s[o + i] /\ g \in 1 .. Len(s)
    BY <1>0, <1>1
  <1>4. s[o + i].call \in Nat /\ Asked(s, o + i) /\ Told(s, o + i)
    BY <1>3, MsgFacts, PairedIs
  <1>5. Asked(t, i)
    <2>1. SUFFICES ASSUME HasCalls(s[o + i]), NEW j \in 1 .. s[o + i].call
                   PROVE  i + j <= Len(t) /\ t[i + j] = [s[o + i] EXCEPT !.role = "tool",
                                                                         !.call = j]
      BY <1>3 DEF Asked
    <2>2. /\ (o + i) + j <= Len(s)
          /\ s[(o + i) + j] = [s[o + i] EXCEPT !.role = "tool", !.call = j]
      BY <1>4, <2>1 DEF Asked
    <2>3. j \in Nat
      BY <1>4
    <2>4. i + j \in 1 .. Len(t) /\ o + (i + j) = (o + i) + j
      BY <1>1, <1>3, <2>2, <2>3, PlaceAfterCut
    <2>5. t[i + j] = s[(o + i) + j] /\ i + j <= Len(t)
      BY <1>1, <2>4
    <2>6. QED
      BY <2>2, <2>5
  <1>6. Told(t, i)
    <2>1. SUFFICES ASSUME s[o + i].role = "tool" PROVE Told(t, i)
      BY <1>3 DEF Told
    <2>2. (o + i) - s[o + i].call >= o + 1
      <3>1. SUFFICES ASSUME (o + i) - s[o + i].call < g PROVE FALSE
        BY <1>0, <1>1, <1>3, <1>4
      <3>2. g <= o + i /\ g <= Len(s)
        BY <1>0, <1>1, <1>3
      <3>3. s[g].role = "tool"
        BY <1>3, <2>1, <3>1, <3>2, ResultsTogether
      <3>4. QED
        BY <3>2, <3>3
    <2>3. /\ i - s[o + i].call \in 1 .. Len(t) /\ i > s[o + i].call
          /\ o + (i - s[o + i].call) = (o + i) - s[o + i].call
      BY <1>1, <1>3, <1>4, <2>2, PlaceAfterCut
    <2>4. t[i - s[o + i].call] = s[(o + i) - s[o + i].call]
      BY <1>1, <2>3
    <2>5. QED
      BY <1>3, <1>4, <2>1, <2>3, <2>4 DEF Told
  <1>7. QED
    BY <1>5, <1>6

\* The results of one answer end somewhere, and what follows them is no result.
LEMMA ResultsEnd ==
  ASSUME NEW s \in Seq(Msg), Paired(s), NEW i \in 1 .. Len(s), s[i].role = "tool"
  PROVE  \E e \in i .. Len(s) :
           /\ \A j \in i .. e : s[j].role = "tool"
           /\ e < Len(s) => s[e + 1].role # "tool"
  <1>1. i \in Nat /\ Len(s) \in Nat /\ s[i].call \in Nat /\ Told(s, i)
    BY MsgFacts, PairedIs
  <1>2. PICK a \in 1 .. Len(s) : a = i - s[i].call /\ HasCalls(s[a]) /\ s[a].call >= s[i].call
    <2>1. i - s[i].call \in 1 .. Len(s)
      BY <1>1 DEF Told
    <2>2. QED
      BY <1>1, <2>1 DEF Told
  <1>3. PICK k \in Nat : k = s[a].call
    BY MsgFacts
  <1>4. k > 0 /\ Asked(s, a) /\ s[a] \in Msg /\ s[a].role = "assistant"
    BY <1>2, <1>3, PairedIs, MsgFacts DEF HasCalls
  <1>5. \A j \in 1 .. k : a + j <= Len(s) /\ s[a + j].role = "tool"
    <2>1. SUFFICES ASSUME NEW j \in 1 .. k
                   PROVE  a + j <= Len(s) /\ s[a + j].role = "tool"
      OBVIOUS
    <2>2. /\ a + j <= Len(s)
          /\ s[a + j] = [s[a] EXCEPT !.role = "tool", !.call = j]
      BY <1>2, <1>3, <1>4, <2>1 DEF Asked
    <2>3. s[a + j].role = "tool"
      BY <1>4, <2>2 DEF Msg
    <2>4. QED
      BY <2>2, <2>3
  <1>6. a + k <= Len(s) /\ a <= i /\ i <= a + k /\ a # i
    BY <1>1, <1>2, <1>3, <1>4, <1>5
  <1>7. ASSUME NEW j \in i .. a + k PROVE s[j].role = "tool"
    <2>1. j - a \in 1 .. k /\ a + (j - a) = j
      BY <1>1, <1>6
    <2>2. QED
      BY <1>5, <2>1
  <1>8. ASSUME a + k < Len(s), s[a + k + 1].role = "tool" PROVE FALSE
    <2>1. PICK g \in 1 .. Len(s) : g = a + k + 1
      BY <1>6, <1>8
    <2>2. s[g].role = "tool" /\ s[g].call \in Nat /\ Told(s, g)
      BY <1>8, <2>1, MsgFacts, PairedIs
    <2>3. PICK b \in 1 .. Len(s) : /\ b = g - s[g].call /\ HasCalls(s[b])
                                   /\ s[b].call >= s[g].call
      <3>1. g - s[g].call \in 1 .. Len(s)
        BY <2>2 DEF Told
      <3>2. QED
        BY <2>2, <3>1 DEF Told
    <2>0. PICK l \in Nat : l = s[g].call
      BY <2>2
    <2>4. s[b].role = "assistant"
      BY <2>3 DEF HasCalls
    <2>5. CASE b < a
      <3>1. a <= g
        BY <2>1
      <3>2. s[a].role = "tool"
        BY <2>2, <2>3, <2>5, <3>1, ResultsTogether
      <3>3. QED
        BY <1>4, <3>2
    <2>6. CASE b = a
      <3>1. a = a + k + 1 - l /\ k >= l
        BY <1>3, <2>0, <2>1, <2>3, <2>6
      <3>2. QED
        BY <3>1
    <2>7. CASE b > a /\ b <= a + k
      <3>1. b - a \in 1 .. k /\ a + (b - a) = b
        BY <2>7
      <3>2. QED
        BY <1>5, <2>4, <3>1
    <2>8. CASE b > a + k
      <3>1. b = g
        BY <2>1, <2>2, <2>3, <2>8
      <3>2. QED
        BY <2>2, <2>4, <3>1
    <2>9. QED
      BY <2>5, <2>6, <2>7, <2>8
  <1>9. a + k \in i .. Len(s)
    BY <1>1, <1>6
  <1>10. QED
    BY <1>7, <1>8, <1>9

\* A suffix of a suffix is a suffix.
LEMMA SuffixOfSuffix ==
  ASSUME NEW s \in Seq(Msg), NEW o \in Nat, o <= Len(s), NEW t, t = SubSeq(s, o + 1, Len(s)),
         NEW f \in 1 .. Len(t) + 1
  PROVE  SubSeq(t, f, Len(t)) = SubSeq(s, o + f, Len(s))
  <1>1. /\ t \in Seq(Msg) /\ Len(t) = Len(s) - o /\ Len(s) \in Nat
        /\ \A i \in 1 .. Len(t) : t[i] = s[o + i]
    OBVIOUS
  <1> DEFINE u == SubSeq(t, f, Len(t))
  <1> DEFINE v == SubSeq(s, o + f, Len(s))
  <1>2. /\ u \in Seq(Msg) /\ Len(u) = Len(t) + 1 - f
        /\ \A i \in 1 .. Len(u) : u[i] = t[f + i - 1]
    BY <1>1
  <1>3. /\ v \in Seq(Msg) /\ Len(v) = Len(s) + 1 - (o + f)
        /\ \A i \in 1 .. Len(v) : v[i] = s[o + f + i - 1]
    BY <1>1
  <1> HIDE DEF u, v
  <1>4. Len(u) = Len(v)
    BY <1>1, <1>2, <1>3
  <1>5. ASSUME NEW i \in 1 .. Len(u) PROVE u[i] = v[i]
    <2>1. f + i - 1 \in 1 .. Len(t) /\ o + (f + i - 1) = o + f + i - 1
      BY <1>1, <1>2
    <2>2. QED
      BY <1>1, <1>2, <1>3, <1>4, <2>1
  <1>6. u = v
    BY <1>2, <1>3, <1>4, <1>5, SeqEqual
  <1>7. QED
    BY <1>6 DEF u, v

\* What buildMessages makes of a paired session is paired, if the budget cuts nothing or
\* the leading trim acts.
LEMMA BuiltPaired ==
  ASSUME NEW s \in Seq(Msg), Paired(s), SystemRole => Len(s) <= Budget
  PROVE  Paired(buildMessages(s))
  <1> DEFINE t == WithinBudget(s)
  <1>1. PICK o \in Nat : /\ o <= Len(s) /\ t = SubSeq(s, o + 1, Len(s))
                         /\ SystemRole => o = 0
    <2>1. Len(s) \in Nat /\ Budget \in Nat
      BY ChatAssumption
    <2>2. CASE Len(s) > Budget
      <3>1. Len(s) - Budget \in Nat /\ Len(s) - Budget <= Len(s)
        BY <2>1, <2>2
      <3>2. t = SubSeq(s, (Len(s) - Budget) + 1, Len(s)) /\ ~SystemRole
        BY <2>1, <2>2 DEF WithinBudget
      <3>3. QED
        BY <3>1, <3>2
    <2>3. CASE ~(Len(s) > Budget)
      BY <2>1, <2>3 DEF WithinBudget
    <2>4. QED
      BY <2>2, <2>3
  <1>2. /\ t \in Seq(Msg) /\ Len(t) = Len(s) - o /\ Len(s) \in Nat /\ Len(t) \in Nat
        /\ \A i \in 1 .. Len(t) : t[i] = s[o + i] /\ o + i \in 1 .. Len(s)
    BY <1>1
  <1> HIDE DEF t
  <1>3. PICK f \in 1 .. Len(t) + 1 :
          /\ f <= Len(t) => t[f].role # "tool"
          /\ SystemRole => f = 1
          /\ \A j \in 1 .. f - 1 : t[j].role = "tool"
    <2>1. CASE Len(t) = 0
      BY <2>1
    <2>2. CASE Len(t) # 0 /\ t[1].role # "tool"
      BY <1>2, <2>2
    <2>3. CASE Len(t) # 0 /\ t[1].role = "tool"
      <3>1. o + 1 \in 1 .. Len(s) /\ s[o + 1].role = "tool" /\ o # 0
        BY <1>2, <2>3, PairedEnds
      <3>2. PICK e \in o + 1 .. Len(s) :
              /\ \A j \in o + 1 .. e : s[j].role = "tool"
              /\ e < Len(s) => s[e + 1].role # "tool"
        BY <3>1, ResultsEnd
      <3>3. /\ e - o + 1 \in 1 .. Len(t) + 1 /\ o + (e - o + 1) = e + 1
            /\ e - o + 1 <= Len(t) => e < Len(s)
        BY <1>2
      <3>4. e - o + 1 <= Len(t) => t[e - o + 1].role # "tool"
        BY <1>2, <3>2, <3>3
      <3>5. ASSUME NEW j \in 1 .. (e - o + 1) - 1 PROVE t[j].role = "tool"
        <4>1. j \in 1 .. Len(t) /\ o + j \in o + 1 .. e
          BY <1>2
        <4>2. QED
          BY <1>2, <3>2, <4>1
      <3>6. QED
        BY <1>1, <3>1, <3>3, <3>4, <3>5
    <2>4. QED
      BY <2>1, <2>2, <2>3
  <1>4. f <= Len(t) => ~Orphan(t, f)
    <2>1. SUFFICES ASSUME f <= Len(t), HasCalls(t[f])
                   PROVE  f < Len(t) /\ t[f + 1].role = "tool"
      BY <1>3 DEF Orphan
    <2>2. f \in 1 .. Len(t) /\ HasCalls(s[o + f]) /\ o + f \in 1 .. Len(s)
      BY <1>2, <2>1
    <2>3. o + f < Len(s) /\ s[o + f + 1].role = "tool"
      BY <2>2, PairedEnds
    <2>4. f + 1 \in 1 .. Len(t) /\ o + (f + 1) = o + f + 1
      BY <1>2, <2>3
    <2>5. QED
      BY <1>2, <2>3, <2>4
  <1>5. FirstKept(t) = f
    <2>1. CASE SystemRole
      BY <1>3, <2>1 DEF FirstKept
    <2>2. CASE ~SystemRole
      <3> DEFINE P(i) == /\ i <= Len(t) => ~Orphan(t, i)
                         /\ \A j \in 1 .. i - 1 : Orphan(t, j)
      <3>1. P(f)
        BY <1>3, <1>4 DEF Orphan
      <3>2. ASSUME NEW i \in 1 .. Len(t) + 1, P(i) PROVE i = f
        <4>1. CASE i < f
          <5>1. i <= Len(t) /\ i \in 1 .. f - 1
            BY <1>2, <4>1
          <5>2. QED
            BY <3>1, <3>2, <5>1
        <4>2. CASE f < i
          <5>1. f <= Len(t) /\ f \in 1 .. i - 1
            BY <1>2, <4>2
          <5>2. QED
            BY <3>1, <3>2, <5>1
        <4>3. QED
          BY <1>2, <4>1, <4>2
      <3>3. FirstKept(t) = CHOOSE i \in 1 .. Len(t) + 1 : P(i)
        BY <2>2 DEF FirstKept
      <3> HIDE DEF P
      <3>4. QED
        BY <3>1, <3>2, <3>3
    <2>3. QED
      BY <2>1, <2>2
  <1>6. LastKept(t) = Len(t)
    <2> DEFINE Q(i) == /\ i > 0 => ~HasCalls(t[i])
                       /\ \A j \in i + 1 .. Len(t) : HasCalls(t[j])
    <2>1. Len(t) > 0 => ~HasCalls(t[Len(t)])
      <3>1. SUFFICES ASSUME Len(t) > 0, HasCalls(t[Len(t)]) PROVE FALSE
        OBVIOUS
      <3>2. HasCalls(s[o + Len(t)]) /\ o + Len(t) = Len(s) /\ Len(s) \in 1 .. Len(s)
        BY <1>2, <3>1
      <3>3. QED
        BY <3>2, PairedEnds
    <2>2. Q(Len(t))
      BY <1>2, <2>1
    <2>3. ASSUME NEW i \in 0 .. Len(t), Q(i) PROVE i = Len(t)
      <3>1. SUFFICES ASSUME i < Len(t) PROVE FALSE
        BY <1>2
      <3>2. Len(t) \in i + 1 .. Len(t) /\ Len(t) > 0
        BY <1>2, <3>1
      <3>3. QED
        BY <2>1, <2>3, <3>2
    <2>4. LastKept(t) = CHOOSE i \in 0 .. Len(t) : Q(i)
      BY DEF LastKept
    <2>5. Len(t) \in 0 .. Len(t)
      BY <1>2
    <2> HIDE DEF Q
    <2>6. QED
      BY <2>2, <2>3, <2>4, <2>5
  <1>7. buildMessages(s) = SubSeq(t, f, Len(t))
    BY <1>5, <1>6 DEF buildMessages, t
  <1>8. buildMessages(s) = SubSeq(s, o + f, Len(s))
    BY <1>1, <1>7, SuffixOfSuffix
  <1>9. o + f \in 1 .. Len(s) + 1 /\ (o + f <= Len(s) => s[o + f].role # "tool")
    <2>1. o + f \in 1 .. Len(s) + 1 /\ (o + f <= Len(s) => f \in 1 .. Len(t))
      BY <1>2
    <2>2. QED
      BY <1>2, <1>3, <2>1
  <1>10. QED
    BY <1>8, <1>9, CutPaired

\* The result of call j of the answer a.
ResultOf(a, j) == [a EXCEPT !.role = "tool", !.call = j]

\* Messages with the same fields are the same.
LEMMA SameMessage ==
  ASSUME NEW x \in Msg, NEW y \in Msg, x.role = y.role, x.conn = y.conn, x.n = y.n,
         x.round = y.round, x.call = y.call
  PROVE  x = y
  BY DEF Msg

\* A worker's tool message is the result of a call of the answer it is at.
LEMMA ToolMessage ==
  ASSUME TypeOK, NEW w \in Worker, NEW j \in Nat
  PROVE  Message(w, "tool", round[w], j)
           = ResultOf(Message(w, "assistant", round[w], calls[w]), j)
  <1> DEFINE a == Message(w, "assistant", round[w], calls[w])
  <1> DEFINE x == Message(w, "tool", round[w], j)
  <1> DEFINE y == ResultOf(a, j)
  <1>1. ConnOf(w) \in Conns /\ turn[w] \in Nat /\ round[w] \in Nat /\ calls[w] \in Nat
    BY WorkerFacts, ChatAssumption DEF TypeOK, WorkType
  <1>2. a \in Msg /\ x \in Msg
    BY <1>1 DEF Message, Msg
  <1>3. /\ a.conn = x.conn /\ a.n = x.n /\ a.round = x.round
        /\ x.role = "tool" /\ x.call = j
    BY DEF Message
  <1> HIDE DEF a, x
  <1>4. /\ y \in Msg /\ y.role = "tool" /\ y.call = j /\ y.conn = a.conn /\ y.n = a.n
        /\ y.round = a.round
    BY <1>2 DEF ResultOf, Msg
  <1> HIDE DEF y
  <1>5. x = y
    BY <1>2, <1>3, <1>4, SameMessage
  <1>6. QED
    BY <1>5 DEF x, y, a

\* s ends in the answer a and the results of its calls before k, and is paired otherwise.
OpenFrom(s, a, k, p) ==
  /\ p + k = Len(s) + 1
  /\ s[p] = a
  /\ \A j \in 1 .. k - 1 : s[p + j] = ResultOf(a, j)
  /\ \A i \in 1 .. Len(s) : Told(s, i) /\ (i # p => Asked(s, i))

Open(s, a, k) ==
  HasCalls(a) /\ k \in 1 .. a.call /\ \E p \in 1 .. Len(s) : OpenFrom(s, a, k, p)

\* An answer without calls, or a message of the user, leaves a list paired.
LEMMA PlainKeepsPaired ==
  ASSUME NEW s \in Seq(Msg), NEW m \in Msg, Paired(s), ~HasCalls(m), m.role # "tool"
  PROVE  Paired(Append(s, m))
  <1> DEFINE t == Append(s, m)
  <1>1. /\ Len(s) \in Nat /\ Len(t) = Len(s) + 1 /\ t[Len(s) + 1] = m /\ t \in Seq(Msg)
    OBVIOUS
  <1>2. SUFFICES ASSUME NEW i \in 1 .. Len(t) PROVE Asked(t, i) /\ Told(t, i)
    BY <1>1, PairedIs
  <1>3. CASE i = Len(s) + 1
    BY <1>1, <1>3 DEF Asked, Told
  <1>4. CASE i \in 1 .. Len(s)
    BY <1>4, PairedIs, AppendKeepsPair
  <1>5. QED
    BY <1>1, <1>3, <1>4

\* An answer that asks for tools opens a paired list.
LEMMA AnswerOpens ==
  ASSUME NEW s \in Seq(Msg), NEW a \in Msg, Paired(s), HasCalls(a)
  PROVE  Open(Append(s, a), a, 1)
  <1> DEFINE t == Append(s, a)
  <1> DEFINE p == Len(s) + 1
  <1>1. /\ Len(s) \in Nat /\ Len(t) = Len(s) + 1 /\ t[p] = a /\ p \in 1 .. Len(t)
    OBVIOUS
  <1>2. a.call \in Nat /\ 1 \in 1 .. a.call /\ a.role = "assistant"
    BY DEF HasCalls, Msg
  <1>3. ASSUME NEW i \in 1 .. Len(t) PROVE Told(t, i) /\ (i # p => Asked(t, i))
    <2>1. CASE i = p
      BY <1>1, <1>2, <2>1 DEF Told
    <2>2. CASE i # p
      <3>1. i \in 1 .. Len(s)
        BY <1>1, <2>2
      <3>2. QED
        BY <3>1, PairedIs, AppendKeepsPair
    <2>3. QED
      BY <2>1, <2>2
  <1>4. OpenFrom(t, a, 1, p)
    BY <1>1, <1>3 DEF OpenFrom
  <1>5. QED
    BY <1>1, <1>2, <1>4 DEF Open

\* What a list open at k is once the result of call k is added.
LEMMA ResultAdded ==
  ASSUME NEW s \in Seq(Msg), NEW a \in Msg, NEW k \in 1 .. a.call, HasCalls(a),
         NEW p \in 1 .. Len(s), OpenFrom(s, a, k, p)
  PROVE  OpenFrom(Append(s, ResultOf(a, k)), a, k + 1, p)
  <1> DEFINE m == ResultOf(a, k)
  <1> DEFINE t == Append(s, m)
  <1>1. a.call \in Nat /\ k \in Nat /\ p \in Nat /\ Len(s) \in Nat
    BY DEF Msg
  <1>2. /\ m \in Msg /\ m.role = "tool" /\ m.call = k /\ m.conn = a.conn /\ m.n = a.n
        /\ m.round = a.round
    BY <1>1 DEF ResultOf, Msg
  <1>3. /\ Len(t) = Len(s) + 1 /\ t[Len(s) + 1] = m
        /\ \A i \in 1 .. Len(s) : t[i] = s[i]
    BY <1>2
  <1> HIDE DEF m, t
  <1>4. p + k = Len(s) + 1 /\ s[p] = a
    BY DEF OpenFrom
  <1>5. ASSUME NEW j \in 1 .. (k + 1) - 1 PROVE t[p + j] = ResultOf(a, j)
    <2>1. CASE j = k
      BY <1>3, <1>4, <2>1 DEF m
    <2>2. CASE j # k
      <3>1. j \in 1 .. k - 1 /\ p + j \in 1 .. Len(s)
        BY <1>1, <1>4, <2>2
      <3>2. QED
        BY <1>3, <3>1 DEF OpenFrom
    <2>3. QED
      BY <2>1, <2>2
  <1>6. ASSUME NEW i \in 1 .. Len(t) PROVE Told(t, i) /\ (i # p => Asked(t, i))
    <2>1. CASE i = Len(s) + 1
      <3>1. t[i] = m /\ i - k = p /\ t[p] = a /\ i > k
        BY <1>1, <1>3, <1>4, <2>1
      <3>2. i - t[i].call = p /\ i > t[i].call /\ t[i - t[i].call] = a
        BY <1>2, <3>1
      <3>3. a.call >= t[i].call
        BY <1>1, <1>2, <3>1
      <3>4. Told(t, i)
        BY <1>2, <3>1, <3>2, <3>3 DEF Told
      <3>5. Asked(t, i)
        BY <1>2, <3>1 DEF Asked, HasCalls
      <3>6. QED
        BY <3>4, <3>5
    <2>2. CASE i \in 1 .. Len(s)
      <3>1. Told(s, i) /\ (i # p => Asked(s, i))
        BY <2>2 DEF OpenFrom
      <3>2. QED
        BY <1>2, <2>2, <3>1, AppendKeepsPair DEF t
    <2>3. QED
      BY <1>1, <1>3, <2>1, <2>2
  <1>7. p + (k + 1) = Len(t) + 1 /\ t[p] = a
    BY <1>1, <1>3, <1>4
  <1>8. QED
    BY <1>5, <1>6, <1>7 DEF OpenFrom, t, m

\* A result that is not the last leaves the list open at the next call.
LEMMA ResultGoesOn ==
  ASSUME NEW s \in Seq(Msg), NEW a \in Msg, NEW k \in Nat, Open(s, a, k), k < a.call
  PROVE  Open(Append(s, ResultOf(a, k)), a, k + 1)
  <1>1. PICK p \in 1 .. Len(s) : OpenFrom(s, a, k, p)
    BY DEF Open
  <1>2. HasCalls(a) /\ k \in 1 .. a.call /\ a.call \in Nat
    BY DEF Open, Msg
  <1>3. OpenFrom(Append(s, ResultOf(a, k)), a, k + 1, p)
    BY <1>1, <1>2, ResultAdded
  <1>4. p \in 1 .. Len(Append(s, ResultOf(a, k)))
    OBVIOUS
  <1>5. k + 1 \in 1 .. a.call
    BY <1>2
  <1>6. QED
    BY <1>2, <1>3, <1>4, <1>5 DEF Open

\* The last result makes the list paired.
LEMMA LastResultPairs ==
  ASSUME NEW s \in Seq(Msg), NEW a \in Msg, NEW k \in Nat, Open(s, a, k), ~(k < a.call)
  PROVE  Paired(Append(s, ResultOf(a, k)))
  <1> DEFINE t == Append(s, ResultOf(a, k))
  <1>1. PICK p \in 1 .. Len(s) : OpenFrom(s, a, k, p)
    BY DEF Open
  <1>2. HasCalls(a) /\ k \in 1 .. a.call /\ a.call \in Nat /\ k = a.call
    BY DEF Open, Msg
  <1>3. OpenFrom(t, a, k + 1, p)
    BY <1>1, <1>2, ResultAdded
  <1>4. ResultOf(a, k) \in Msg
    BY DEF ResultOf, Msg
  <1>5. t \in Seq(Msg) /\ Len(t) \in Nat
    BY <1>4
  <1> HIDE DEF t
  <1>6. p + (k + 1) = Len(t) + 1 /\ t[p] = a
        /\ \A j \in 1 .. (k + 1) - 1 : t[p + j] = ResultOf(a, j)
    BY <1>3 DEF OpenFrom
  <1>7. Asked(t, p)
    <2>1. SUFFICES ASSUME NEW j \in 1 .. a.call
                   PROVE  p + j <= Len(t) /\ t[p + j] = ResultOf(a, j)
      BY <1>6 DEF Asked, ResultOf
    <2>2. p \in Nat /\ j \in 1 .. (k + 1) - 1 /\ j <= k
      BY <1>2
    <2>3. QED
      BY <1>2, <1>5, <1>6, <2>2
  <1>8. \A i \in 1 .. Len(t) : Told(t, i) /\ Asked(t, i)
    BY <1>3, <1>7 DEF OpenFrom
  <1>9. Paired(t)
    BY <1>5, <1>8, PairedIs
  <1>10. QED
    BY <1>9 DEF t

-----------------------------------------------------------------------------
(* Then of the service.  While a worker is at the calls of an answer, that   *)
(* answer is the one whose results are not all there yet.                    *)

AtCalls(w) == pc[w] \in {"ask", "capture", "approval", "exec", "captureExec", "result"}

\* c has its server for itself, and was neither cancelled nor cleared.
Alone(c) ==
  \A d \in Conns : KeyOf[d] = KeyOf[c] => d = c /\ cancels[d] = 0 /\ clears[d] = 0

\* A session that is empty was never saved, so that nothing is read into it.
Fresh(c) == messages[KeyOf[c]] = <<>> => \A s \in Lists(c) : s = <<>>

Talk(c) ==
  /\ \A w \in Worker : ConnOf(w) = c /\ AtCalls(w) =>
       Open(messages[KeyOf[c]], Message(w, "assistant", round[w], calls[w]), call[w])
  /\ (\A w \in Worker : ConnOf(w) = c => ~AtCalls(w)) => Paired(messages[KeyOf[c]])

TalkInv == \A c \in Conns : Alone(c) => Fresh(c) /\ Talk(c)

\* Who is alone now was alone before.
LEMMA AloneBefore ==
  ASSUME TypeOK, [Next]_vars, NEW c \in Conns, Alone(c)'
  PROVE  Alone(c) /\ ~ClearSession(c)
  <1>1. ASSUME NEW d \in Conns, KeyOf[d] = KeyOf[c]
        PROVE  d = c /\ cancels'[d] = 0 /\ clears'[d] = 0
    BY <1>1 DEF Alone
  <1>2. QED
    BY <1>1, CountersGrow DEF Alone

\* A step that leaves the session of c, and the calls of its workers, as they are.
Still(c) ==
  /\ messages'[KeyOf[c]] = messages[KeyOf[c]]
  /\ \A w \in Worker : ConnOf(w) = c =>
       /\ AtCalls(w)' <=> AtCalls(w)
       /\ AtCalls(w) => /\ turn'[w] = turn[w] /\ round'[w] = round[w]
                        /\ calls'[w] = calls[w] /\ call'[w] = call[w]

\* A worker of c adds to the session.
Speaks(w) ==
  \/ AppendUser(w) \/ CallFails(w) \/ CallReplies(w) \/ Summarise(w)
  \/ \E k \in 1 .. MaxCalls : CallAsksTools(w, k)
  \/ Refused(w) \/ Finish(w)

\* What a worker does to the session of a connection it is none of.
LEMMA OthersElsewhere ==
  ASSUME TypeOK, NEW w \in Worker, WorkerStep(w), NEW c \in Conns,
         KeyOf[ConnOf(w)] # KeyOf[c]
  PROVE  Still(c)
  <1>1. KeyOf[c] \in Keys /\ KeyOf[ConnOf(w)] \in Keys
    BY ConnFacts, WorkerFacts
  <1>2. \A v \in Worker : ConnOf(v) = c => v # w
    OBVIOUS
  <1>3. messages'[KeyOf[c]] = messages[KeyOf[c]]
    <2>1. UNCHANGED messages
          \/ \E m : messages' = [messages EXCEPT ![KeyOf[ConnOf(w)]] = m]
      BY DEF WorkerStep, GoesOn, CallEnds, AppendUser, Dequeue, ReadCancel,
         RoundCancelled, StartRound, CallFails, CallReplies, CallAsksTools, Ask, Execute,
         Capture, Approved, Refused, Finish, ToolDone,
         Summarise, Copy, Save, Say, sessVars
    <2>2. QED
      BY <1>1, <2>1 DEF TypeOK, SessType
  <1>4. ASSUME NEW v \in Worker, v # w
        PROVE  /\ pc'[v] = pc[v] /\ turn'[v] = turn[v] /\ round'[v] = round[v]
               /\ calls'[v] = calls[v] /\ call'[v] = call[v]
    <2>1. pc'[v] = pc[v]
      BY <1>4 DEF WorkerStep, GoesOn, CallEnds, AppendUser, Dequeue, ReadCancel,
         RoundCancelled, StartRound, CallFails, CallReplies, CallAsksTools, Ask, Execute,
         Capture, Approved, Refused, Finish, ToolDone,
         Summarise, Copy, Save, Goto, TypeOK, WorkType
    <2>2. turn'[v] = turn[v] /\ calls'[v] = calls[v]
      BY <1>4 DEF WorkerStep, GoesOn, CallEnds, AppendUser, Dequeue, ReadCancel,
         RoundCancelled, StartRound, CallFails, CallReplies, CallAsksTools, Ask, Execute,
         Capture, Approved, Refused, Finish, ToolDone,
         Summarise, Copy, Save, TypeOK, WorkType
    <2>3. round'[v] = round[v] /\ call'[v] = call[v]
      BY <1>4 DEF WorkerStep, GoesOn, CallEnds, AppendUser, Dequeue, ReadCancel,
         RoundCancelled, StartRound, CallFails, CallReplies, CallAsksTools, Ask, Execute,
         Capture, Approved, Refused, Finish, ToolDone,
         Summarise, Copy, Save, TypeOK, WorkType
    <2>4. QED
      BY <2>1, <2>2, <2>3
  <1>5. QED
    BY <1>2, <1>3, <1>4 DEF Still, AtCalls

\* A worker of c that does not speak leaves its calls where they are.
LEMMA QuietWorkerStill ==
  ASSUME TypeOK, NEW w \in Worker, WorkerStep(w) \/ Start(w), ~Speaks(w),
         NEW c \in Conns, c = ConnOf(w)
  PROVE  Still(c)
  <1>1. ASSUME \/ Start(w) \/ Dequeue(w) \/ ReadCancel(w) \/ RoundCancelled(w)
               \/ StartRound(w) \/ Copy(w) \/ Save(w)
        PROVE  Still(c)
    <2>1. UNCHANGED messages
      BY <1>1 DEF Start, Dequeue, ReadCancel, RoundCancelled, StartRound, Copy, Save,
         sessVars
    <2>2. ~AtCalls(w) /\ ~AtCalls(w)'
      BY <1>1 DEF Start, Dequeue, ReadCancel, RoundCancelled, StartRound, Copy, Save,
         Goto, AtCalls, Live, TypeOK, WorkType
    <2>3. ASSUME NEW v \in Worker, v # w
          PROVE  /\ pc'[v] = pc[v] /\ turn'[v] = turn[v] /\ round'[v] = round[v]
                 /\ calls'[v] = calls[v] /\ call'[v] = call[v]
      BY <1>1, <2>3 DEF Start, Dequeue, ReadCancel, RoundCancelled, StartRound, Copy,
         Save, Goto, TypeOK, WorkType
    <2>4. QED
      BY <2>1, <2>2, <2>3 DEF Still, AtCalls
  <1>2. ASSUME Ask(w) \/ Execute(w) \/ Capture(w) \/ Approved(w)
        PROVE  Still(c)
    <2>1. UNCHANGED <<messages, turn, round, calls, call>>
      BY <1>2 DEF Ask, Execute, Capture, Approved, sessVars
    <2>2. AtCalls(w) /\ AtCalls(w)' /\ \A v \in Worker : v # w => pc'[v] = pc[v]
      BY <1>2 DEF Ask, Execute, Capture, Approved, Goto, AtCalls, TypeOK, WorkType
    <2>3. QED
      BY <2>1, <2>2 DEF Still, AtCalls
  <1>3. QED
    BY <1>1, <1>2 DEF WorkerStep, GoesOn, CallEnds, Speaks

\* A connection that is alone sees the steps of its own workers that speak; every other
\* step leaves its session and its calls as they are.
LEMMA TalkCases ==
  ASSUME TypeOK, [Next]_vars, NEW c \in Conns, Alone(c)', Fresh(c)
  PROVE  Still(c) \/ \E w \in Worker : ConnOf(w) = c /\ Speaks(w)
  <1>1. KeyOf[c] \in Keys /\ ~ClearSession(c)
    BY ConnFacts, AloneBefore
  <1>2. \A d \in Conns : KeyOf[d] = KeyOf[c] => d = c
    BY DEF Alone
  <1>3. ASSUME UNCHANGED <<messages, pc, turn, round, calls, call>> PROVE Still(c)
    BY <1>3 DEF Still, AtCalls
  <1>4. ASSUME NEW w \in Worker, WorkerStep(w)
        PROVE  Still(c) \/ (ConnOf(w) = c /\ Speaks(w))
    <2>1. ConnOf(w) \in Conns
      BY WorkerFacts
    <2>2. QED
      <3>1. CASE KeyOf[ConnOf(w)] # KeyOf[c]
        BY <1>4, <3>1, OthersElsewhere
      <3>2. CASE KeyOf[ConnOf(w)] = KeyOf[c]
        BY <1>2, <1>4, <2>1, <3>2, QuietWorkerStill
      <3>3. QED
        BY <3>1, <3>2
  <1>5. ASSUME NEW w \in Worker, Start(w) PROVE Still(c)
    <2>1. UNCHANGED <<messages, round, calls, call>>
      BY <1>5 DEF Start, sessVars
    <2>2. /\ ~AtCalls(w) /\ ~AtCalls(w)'
          /\ \A v \in Worker : v # w => pc'[v] = pc[v] /\ turn'[v] = turn[v]
      BY <1>5 DEF Start, Goto, AtCalls, Live, TypeOK, WorkType
    <2>3. QED
      BY <2>1, <2>2 DEF Still, AtCalls
  <1>6. ASSUME NEW d \in Conns, UserStep(d) PROVE Still(c)
    <2>0. KeyOf[d] \in Keys
      BY ConnFacts
    <2>1. UNCHANGED <<pc, turn, round, calls, call>>
      BY <1>6 DEF UserStep, Enqueue, CancelProcessing, DropCards, ClosePanel, OpenPanel,
         GetChatHistory, ClearSession, ClearFile, workVars
    <2>2. CASE \/ Enqueue(d) \/ CancelProcessing(d) \/ DropCards(d)
               \/ ClosePanel(d) \/ OpenPanel(d) \/ ClearFile(d)
      <3>1. UNCHANGED messages
        BY <2>2 DEF Enqueue, CancelProcessing, DropCards, ClosePanel, OpenPanel, ClearFile,
           sessVars
      <3>2. QED
        BY <1>3, <2>1, <3>1
    <2>3. CASE GetChatHistory(d)
      <3>1. messages' = [messages EXCEPT ![KeyOf[d]] = disk[KeyOf[d]]]
            /\ messages[KeyOf[d]] = <<>>
        BY <2>3 DEF GetChatHistory
      <3>2. messages'[KeyOf[c]] = messages[KeyOf[c]]
        <4>1. CASE KeyOf[d] = KeyOf[c]
          <5>1. disk[KeyOf[c]] = <<>>
            BY <3>1, <4>1 DEF Fresh, Lists
          <5>2. QED
            BY <1>1, <3>1, <4>1, <5>1 DEF TypeOK, SessType
        <4>2. CASE KeyOf[d] # KeyOf[c]
          BY <1>1, <2>0, <3>1, <4>2 DEF TypeOK, SessType
        <4>3. QED
          BY <4>1, <4>2
      <3>3. QED
        BY <2>1, <3>2 DEF Still, AtCalls
    <2>4. CASE ClearSession(d)
      <3>1. KeyOf[d] # KeyOf[c] /\ messages' = [messages EXCEPT ![KeyOf[d]] = <<>>]
        BY <1>1, <1>2, <2>4 DEF ClearSession
      <3>2. messages'[KeyOf[c]] = messages[KeyOf[c]]
        BY <1>1, <2>0, <3>1 DEF TypeOK, SessType
      <3>3. QED
        BY <2>1, <3>2 DEF Still, AtCalls
    <2>5. QED
      BY <1>6, <2>2, <2>3, <2>4 DEF UserStep
  <1>7. CASE \E id \in cards, v \in BOOLEAN : Decide(id, v)
    BY <1>3, <1>7 DEF Decide, sessVars, workVars
  <1>8. CASE \E id \in executing : SubmitToolResult(id)
    BY <1>3, <1>8 DEF SubmitToolResult, sessVars, workVars
  <1>9. CASE UNCHANGED vars
    BY <1>3, <1>9 DEF vars, sessVars, workVars
  <1>10. QED
    BY <1>4, <1>5, <1>6, <1>7, <1>8, <1>9 DEF Next

\* A step that leaves session and calls as they are leaves the talk as it is.
LEMMA StillTalk ==
  ASSUME NEW c \in Conns, Still(c), Talk(c)
  PROVE  Talk(c)'
  <1>1. ASSUME NEW w \in Worker, ConnOf(w) = c, AtCalls(w)'
        PROVE  Open(messages[KeyOf[c]], Message(w, "assistant", round[w], calls[w]),
                    call[w])'
    <2>1. /\ AtCalls(w) /\ turn'[w] = turn[w] /\ round'[w] = round[w]
          /\ calls'[w] = calls[w] /\ call'[w] = call[w]
      BY <1>1 DEF Still
    <2>2. Message(w, "assistant", round[w], calls[w])'
            = Message(w, "assistant", round[w], calls[w])
      BY <2>1 DEF Message
    <2>3. Open(messages[KeyOf[c]], Message(w, "assistant", round[w], calls[w]), call[w])
      BY <1>1, <2>1 DEF Talk
    <2>4. messages'[KeyOf[c]] = messages[KeyOf[c]]
      BY DEF Still
    <2>5. QED
      BY <2>1, <2>2, <2>3, <2>4
  <1>2. ASSUME \A w \in Worker : ConnOf(w) = c => ~AtCalls(w)'
        PROVE  Paired(messages[KeyOf[c]])'
    BY <1>2 DEF Still, Talk
  <1>3. QED
    BY <1>1, <1>2 DEF Talk

\* What a step of w makes of the session, if w is no longer at calls, or is at some.
LEMMA TalkOfOne ==
  ASSUME NEW w \in Worker, NEW c \in Conns, ConnOf(w) = c,
         \A v \in Worker : ConnOf(v) = c /\ v # w => ~AtCalls(v)',
         \/ ~AtCalls(w)' /\ Paired(messages[KeyOf[c]])'
         \/ /\ AtCalls(w)'
            /\ Open(messages[KeyOf[c]], Message(w, "assistant", round[w], calls[w]),
                    call[w])'
  PROVE  Talk(c)'
  BY DEF Talk

\* A worker of c that speaks keeps the session paired but for the answer it is at: it is
\* the only one.
LEMMA SpeakTalk ==
  ASSUME TypeOK, CalmInv, NEW w \in Worker, Speaks(w), NEW c \in Conns, c = ConnOf(w),
         cancels[c] = 0, Talk(c)
  PROVE  Talk(c)'
  <1> DEFINE s == messages[KeyOf[c]]
  <1>0. KeyOf[c] \in Keys /\ s \in Seq(Msg) /\ round[w] \in Nat /\ call[w] \in Nat
    BY WorkerFacts
  <1>1. Live(w) /\ \A v \in Worker : v # w => pc'[v] = pc[v]
    BY DEF Speaks, AppendUser, CallFails, CallReplies, Summarise, CallAsksTools, Refused,
       Finish, ToolDone, Goto, Live, TypeOK, WorkType
  <1>2. \A v \in Worker : ConnOf(v) = c /\ v # w => ~AtCalls(v) /\ ~AtCalls(v)'
    BY <1>1 DEF CalmInv, CalmOf, Live, AtCalls
  <1>3. ASSUME NEW m \in Msg,
               messages' = [messages EXCEPT ![KeyOf[ConnOf(w)]] =
                              Append(messages[KeyOf[ConnOf(w)]], m)]
        PROVE  messages'[KeyOf[c]] = Append(s, m)
    BY <1>0, <1>3 DEF TypeOK, SessType
  <1>4. ASSUME NEW role \in {"user", "assistant", "tool"}, NEW r \in Nat, NEW k \in Nat,
               Say(w, Message(w, role, r, k))
        PROVE  /\ messages'[KeyOf[c]] = Append(s, Message(w, role, r, k))
               /\ Message(w, role, r, k) \in Msg
    <2>1. Message(w, role, r, k) \in Msg
      BY WorkerFacts DEF Message, Msg, TypeOK, WorkType
    <2>2. QED
      BY <1>3, <1>4, <2>1 DEF Say
  <1>5. ASSUME NEW role \in {"user", "assistant"}, NEW r \in Nat,
               Say(w, Message(w, role, r, 0)), ~AtCalls(w), ~AtCalls(w)'
        PROVE  Talk(c)'
    <2>1. Paired(s)
      BY <1>2, <1>5 DEF Talk
    <2>2. ~HasCalls(Message(w, role, r, 0)) /\ Message(w, role, r, 0).role # "tool"
      BY DEF HasCalls, Message
    <2>3. Message(w, role, r, 0) \in Msg /\ messages'[KeyOf[c]] = Append(s, Message(w, role, r, 0))
      <3>1. role \in {"user", "assistant", "tool"} /\ 0 \in Nat
        OBVIOUS
      <3>2. Say(w, Message(w, role, r, 0))
        BY <1>5
      <3> HIDE DEF s
      <3>3. QED
        BY <1>4, <3>1, <3>2, Zenon
    <2>4. Paired(messages[KeyOf[c]])'
      BY <1>0, <2>1, <2>2, <2>3, PlainKeepsPaired
    <2>5. QED
      BY <1>2, <1>5, <2>4, TalkOfOne
  <1>6. CASE AppendUser(w)
    <2>1. Say(w, Message(w, "user", 0, 0)) /\ ~AtCalls(w) /\ ~AtCalls(w)'
      BY <1>6 DEF AppendUser, Goto, AtCalls, TypeOK, WorkType
    <2>2. QED
      BY <1>5, <2>1
  <1>7. CASE CallFails(w) \/ CallReplies(w)
    <2>1. Say(w, Message(w, "assistant", round[w], 0)) /\ ~AtCalls(w) /\ ~AtCalls(w)'
      BY <1>7 DEF CallFails, CallReplies, Goto, AtCalls, TypeOK, WorkType
    <2>2. QED
      BY <1>0, <1>5, <2>1
  <1>8. CASE Summarise(w)
    <2>1. Say(w, Message(w, "user", round[w], 0)) /\ ~AtCalls(w) /\ ~AtCalls(w)'
      BY <1>8 DEF Summarise, Goto, AtCalls, TypeOK, WorkType
    <2>2. QED
      BY <1>0, <1>5, <2>1
  <1>9. ASSUME NEW k \in 1 .. MaxCalls, CallAsksTools(w, k) PROVE Talk(c)'
    <2> DEFINE a == Message(w, "assistant", round[w], k)
    <2>1. k \in Nat /\ k > 0
      BY ChatAssumption
    <2>2. /\ Say(w, a) /\ ~AtCalls(w) /\ AtCalls(w)' /\ calls'[w] = k /\ call'[w] = 1
          /\ UNCHANGED <<turn, round>>
      BY <1>9 DEF CallAsksTools, Goto, AtCalls, TypeOK, WorkType
    <2>3. Paired(s)
      BY <1>2, <2>2 DEF Talk
    <2>4. a \in Msg /\ messages'[KeyOf[c]] = Append(s, a)
      BY <1>0, <1>4, <2>1, <2>2
    <2>5. HasCalls(a)
      BY <2>1 DEF HasCalls, Message
    <2>6. Message(w, "assistant", round[w], calls[w])' = a
      BY <2>2 DEF Message
    <2> HIDE DEF a
    <2>7. Open(messages'[KeyOf[c]], a, 1)
      BY <1>0, <2>3, <2>4, <2>5, AnswerOpens
    <2>8. Open(messages[KeyOf[c]], Message(w, "assistant", round[w], calls[w]), call[w])'
      BY <2>2, <2>6, <2>7
    <2>9. QED
      BY <1>2, <2>2, <2>8, TalkOfOne
  <1>10. CASE Refused(w) \/ Finish(w)
    <2> DEFINE a == Message(w, "assistant", round[w], calls[w])
    <2> DEFINE m == Message(w, "tool", round[w], call[w])
    <2>1. ToolDone(w) /\ Say(w, m) /\ AtCalls(w) /\ UNCHANGED <<turn, calls>>
      BY <1>10 DEF Refused, Finish, ToolDone, AtCalls
    <2>2. Open(s, a, call[w])
      BY <2>1 DEF Talk
    <2>3. /\ a \in Msg /\ a.call = calls[w] /\ m = ResultOf(a, call[w])
      <3>1. ConnOf(w) \in Conns /\ turn[w] \in Nat /\ calls[w] \in Nat
        BY WorkerFacts, ChatAssumption DEF TypeOK, WorkType
      <3>2. a \in Msg /\ a.call = calls[w]
        BY <1>0, <3>1 DEF Message, Msg
      <3>3. m = ResultOf(a, call[w])
        BY <1>0, ToolMessage
      <3>4. QED
        BY <3>2, <3>3
    <2>4. messages'[KeyOf[c]] = Append(s, m)
      BY <1>0, <1>4, <2>1
    <2>5. CASE call[w] < calls[w]
      <3>1. /\ call'[w] = call[w] + 1 /\ round'[w] = round[w] /\ AtCalls(w)'
        BY <2>1, <2>5 DEF ToolDone, Goto, AtCalls, TypeOK, WorkType
      <3>2. Message(w, "assistant", round[w], calls[w])' = a
        BY <2>1, <3>1 DEF Message
      <3> HIDE DEF a, m
      <3>3. Open(messages'[KeyOf[c]], a, call[w] + 1)
        BY <1>0, <2>2, <2>3, <2>4, <2>5, ResultGoesOn
      <3>4. Open(messages[KeyOf[c]], Message(w, "assistant", round[w], calls[w]), call[w])'
        BY <3>1, <3>2, <3>3
      <3>5. QED
        BY <1>2, <3>1, <3>4, TalkOfOne
    <2>6. CASE ~(call[w] < calls[w])
      <3>1. ~AtCalls(w)'
        BY <2>1, <2>6 DEF ToolDone, Goto, AtCalls, TypeOK, WorkType
      <3> HIDE DEF a, m
      <3>2. Paired(messages[KeyOf[c]])'
        BY <1>0, <2>2, <2>3, <2>4, <2>6, LastResultPairs
      <3>3. QED
        BY <1>2, <3>1, <3>2, TalkOfOne
    <2>7. QED
      BY <2>5, <2>6
  <1>11. QED
    BY <1>6, <1>7, <1>8, <1>9, <1>10 DEF Speaks

\* An empty session of a connection that is alone stays unsaved.
LEMMA FreshStep ==
  ASSUME TypeOK, [Next]_vars, NEW c \in Conns, Alone(c)', Fresh(c)
  PROVE  Fresh(c)'
  <1>1. SUFFICES ASSUME messages'[KeyOf[c]] = <<>>, NEW s \in Lists(c)' PROVE s = <<>>
    BY DEF Fresh
  <1>2. messages[KeyOf[c]] = <<>>
    <2>1. CASE Still(c)
      BY <1>1, <2>1 DEF Still
    <2>2. ASSUME NEW w \in Worker, ConnOf(w) = c, Speaks(w) PROVE FALSE
      <3>1. KeyOf[c] \in Keys /\ messages[KeyOf[c]] \in Seq(Msg)
        BY <2>2, WorkerFacts
      <3>2. \E m : Say(w, m)
        BY <2>2 DEF Speaks, AppendUser, CallFails, CallReplies, Summarise, CallAsksTools,
           Refused, Finish, ToolDone
      <3>3. \E m : messages'[KeyOf[c]] = Append(messages[KeyOf[c]], m)
        BY <2>2, <3>1, <3>2 DEF Say, TypeOK, SessType
      <3>4. QED
        BY <1>1, <3>1, <3>3
    <2>3. QED
      BY <2>1, <2>2, TalkCases
  <1>3. Grown(c, s)
    BY ListsGrow
  <1>4. QED
    BY <1>1, <1>2, <1>3 DEF Grown, Fresh

\* Every step keeps the talk of a connection that is alone.
LEMMA TalkStep ==
  ASSUME TypeOK, CalmInv, TalkInv, [Next]_vars
  PROVE  TalkInv'
  <1>1. SUFFICES ASSUME NEW c \in Conns, Alone(c)' PROVE Fresh(c)' /\ Talk(c)'
    BY DEF TalkInv
  <1>2. Alone(c) /\ Fresh(c) /\ Talk(c) /\ cancels[c] = 0
    BY <1>1, AloneBefore DEF TalkInv, Alone
  <1>3. Talk(c)'
    BY <1>1, <1>2, TalkCases, StillTalk, SpeakTalk
  <1>4. QED
    BY <1>1, <1>2, <1>3, FreshStep

\* At first nothing was said.
LEMMA TalkInit == Init => TalkInv
  <1>1. SUFFICES ASSUME Init, NEW c \in Conns PROVE Fresh(c) /\ Talk(c)
    BY DEF TalkInv
  <1>2. KeyOf[c] \in Keys
    BY ChatAssumption
  <1>3. Fresh(c)
    BY <1>1, <1>2 DEF Init, Fresh, Lists
  <1>4. messages[KeyOf[c]] = <<>> /\ \A w \in Worker : ~AtCalls(w)
    BY <1>1, <1>2 DEF Init, AtCalls
  <1>5. Paired(messages[KeyOf[c]])
    <2>1. <<>> \in Seq(Msg) /\ \A i \in 1 .. Len(<<>>) : FALSE
      OBVIOUS
    <2>2. QED
      BY <1>4, <2>1, PairedIs
  <1>6. QED
    BY <1>3, <1>4, <1>5 DEF Talk

\* The session of a connection that is alone is paired, but for the answer whose calls
\* its worker is at.
THEOREM SessionPaired == Spec => []TalkInv
  <1>1. IInv /\ TalkInv /\ [Next]_vars => TalkInv'
    BY TalkStep DEF IInv, TypeInv
  <1>2. QED
    BY TalkInit, Inductive, <1>1, PTL DEF Spec

\* Every request of such a connection is one the API accepts: what buildMessages makes of
\* the session has the results of every call right behind the answer that asked for it.
THEOREM RequestsPairedAlone == Spec => []PairedAlone
  <1>1. IInv /\ TalkInv => PairedAlone
    <2>1. SUFFICES ASSUME IInv, TalkInv, NEW w \in Worker, pc[w] \in {"check", "final"},
                          \A c \in Conns : KeyOf[c] = KeyOf[ConnOf(w)] =>
                            c = ConnOf(w) /\ cancels[c] = 0 /\ clears[c] = 0,
                          SystemRole => Len(messages[KeyOf[ConnOf(w)]]) <= Budget
                   PROVE  Paired(buildMessages(messages[KeyOf[ConnOf(w)]]))
      BY DEF PairedAlone
    <2>2. /\ TypeOK /\ CalmInv /\ ConnOf(w) \in Conns
          /\ messages[KeyOf[ConnOf(w)]] \in Seq(Msg)
      BY <2>1, WorkerFacts DEF IInv, TypeInv
    <2>3. Alone(ConnOf(w)) /\ Talk(ConnOf(w)) /\ cancels[ConnOf(w)] = 0
      BY <2>1, <2>2 DEF Alone, TalkInv
    <2>4. \A v \in Worker : ConnOf(v) = ConnOf(w) => ~AtCalls(v)
      BY <2>1, <2>2, <2>3 DEF CalmInv, CalmOf, Live, AtCalls
    <2>5. QED
      BY <2>1, <2>2, <2>3, <2>4, BuiltPaired DEF Talk
  <1>2. QED
    BY SessionPaired, Inductive, <1>1, PTL
=============================================================================

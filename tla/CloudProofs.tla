---------------------------- MODULE CloudProofs -----------------------------
(***************************************************************************)
(* Safety of the private cloud for every number of calls, loops, sockets   *)
(* and connections: answers that are their own, sockets that have an owner *)
(* and passwords that are encrypted once.                                  *)
(***************************************************************************)
EXTENDS Cloud, SequenceTheorems, TLAPS

Ops == {None, "connect", "disconnect", "pull", "push", "heartbeat"}
Steps == {None, "start", "dial", "write", "read", "answered", "top", "select"}
Answers == [by : Threads, ok : BOOLEAN]
Requests == [by : Threads, op : Ops, hosts : SUBSET Hosts]
Entries == [source : Nat, at : Nat, layers : Nat]

ThreadType ==
  [op : Ops, at : Steps, socket : 0 .. Sockets, chan : 0 .. Sockets, answer : Answers \cup {None}]
SocketType ==
  [up : BOOLEAN, handler : BOOLEAN, registered : BOOLEAN, asked : Seq(Requests), told : Seq(Answers)]

ServiceTyped ==
  /\ threads \in [Threads -> ThreadType]
  /\ mu \in Calls \cup {None}
  /\ client \in 0 .. made /\ stop \in 0 .. Sockets
  /\ crossed \in BOOLEAN

SocketsTyped ==
  /\ sockets \in [1 .. Sockets -> SocketType]
  /\ made \in 0 .. Sockets
  /\ shared \subseteq 1 .. Sockets
  /\ \A s \in 1 .. Sockets : s > made => sockets[s] = NoSocket

DataTyped ==
  /\ stored \in [Hosts -> Entries \cup {None}]
  /\ file \in [Hosts -> Entries \cup {None}]
  /\ now \in Nat /\ setBack \in BOOLEAN
  /\ life \in Nat

\* Which steps are of a call, and which of a loop; a send has a socket that was made.
WellPlaced(t, r, sofar) ==
  /\ t \in Loops => r.op \in {None, "heartbeat"}
  /\ t \in Calls => r.op # "heartbeat" /\ r.at \notin {"top", "select"}
  /\ r.op = None <=> r.at = None
  /\ r.at = "dial" => r.op = "connect"
  /\ r.at \in {"write", "read", "answered"} => r.socket \in 1 .. sofar
  /\ r.at = "answered" => r.answer \in Answers

StepsInv == \A t \in Threads : WellPlaced(t, threads[t], made)

CloudTyped == ServiceTyped /\ SocketsTyped /\ DataTyped /\ StepsInv

-----------------------------------------------------------------------------
\* At most one thread waits on a socket that was not shared, and what is on its way,
\* either way, is one message at most, asked by that thread.
OfReader(s, q) == q = <<>> \/ (Len(q) = 1 /\ q[1].by \in Sending(s))

QuietInv ==
  \A s \in (1 .. made) \ shared :
    /\ \A t, u \in Sending(s) : t = u
    /\ sockets[s].up => /\ OfReader(s, sockets[s].asked)
                        /\ OfReader(s, sockets[s].told)
                        /\ sockets[s].asked = <<>> \/ sockets[s].told = <<>>

AnswersInv == QuietInv /\ AnswersAreOwn

-----------------------------------------------------------------------------
\* The lock is held through the registration, by one Connect at a time.
Registering(t) == Connecting(t) /\ threads[t].at \in {"write", "read", "answered"}

LockInv == \A t \in Threads : mu = t <=> Registering(t)

\* Unless two overlapped there is one Connect, and once it has disconnected there is no client.
OneConnect ==
  ~crossed =>
    /\ \A t, u \in Threads : Connecting(t) /\ Connecting(u) => t = u
    /\ \A t \in Threads : Connecting(t) /\ ~At(t, "start") => client = 0

OwnersInv == LockInv /\ OneConnect /\ SocketsAreOwned

-----------------------------------------------------------------------------
\* What was merged by a clock that was never set back is not of the future.
Fresh(data) == \A k \in Hosts : data[k] # None => data[k].layers = 1 /\ data[k].at <= now

EncryptedInv == ~setBack => Fresh(stored) /\ Fresh(file)

CloudInv == CloudTyped /\ AnswersInv /\ OwnersInv /\ EncryptedInv

\* What the server does with a socket, of its own accord or for a network that is out.
Deals(s) == Serves(s) \/ PingsLost(s)

-----------------------------------------------------------------------------
\* At first nobody calls, no socket is made and nothing is stored.
LEMMA CloudTypedInit == CloudInit => CloudTyped
  <1> SUFFICES ASSUME CloudInit PROVE CloudTyped
    OBVIOUS
  <1>1. Idle \in ThreadType /\ \A t \in Threads : WellPlaced(t, Idle, made)
    BY CloudAssumption DEF CloudInit, Idle, ThreadType, Ops, Steps, WellPlaced, Threads
  <1>2. NoSocket \in SocketType
    BY EmptySeq DEF NoSocket, SocketType
  <1>3. ServiceTyped
    <2>1. threads \in [Threads -> ThreadType]
      BY <1>1 DEF CloudInit
    <2>2. 0 \in 0 .. 0 /\ 0 \in 0 .. Sockets
      BY CloudAssumption
    <2>3. QED
      BY <2>1, <2>2 DEF CloudInit, ServiceTyped
  <1>4. SocketsTyped
    BY <1>2, CloudAssumption DEF CloudInit, SocketsTyped
  <1>5. DataTyped
    BY DEF CloudInit, DataTyped
  <1>6. StepsInv
    BY <1>1 DEF CloudInit, StepsInv
  <1>7. QED
    BY <1>3, <1>4, <1>5, <1>6 DEF CloudTyped

\* Where a thread is after a call that returned, or a turn of its loop.
Freed(t) ==
  IF t \in Loops THEN [threads[t] EXCEPT !.at = "top", !.socket = 0, !.answer = None] ELSE Idle

\* The parts of the type invariant that the proofs keep asking for.
LEMMA TypesOf ==
  ASSUME CloudTyped
  PROVE  /\ threads \in [Threads -> ThreadType]
         /\ \A t \in Threads : threads[t] \in ThreadType /\ WellPlaced(t, threads[t], made)
         /\ Sockets \in Nat /\ made \in Nat /\ made <= Sockets /\ made \in 0 .. Sockets
         /\ client \in 0 .. made /\ client \in 0 .. Sockets /\ stop \in 0 .. Sockets
         /\ mu \in Calls \cup {None} /\ crossed \in BOOLEAN
         /\ sockets \in [1 .. Sockets -> SocketType] /\ DOMAIN sockets = 1 .. Sockets
  BY CloudAssumption DEF CloudTyped, ServiceTyped, SocketsTyped, StepsInv

\* The record of a thread whose call returned or whose loop turns.
LEMMA FreedMoves ==
  ASSUME CloudTyped, NEW t \in Threads, ~At(t, None)
  PROVE  /\ After(t) = [threads EXCEPT ![t] = Freed(t)]
         /\ Freed(t) \in ThreadType
         /\ WellPlaced(t, Freed(t), made)
  <1>1. CASE t \in Loops
    <2>1. t \notin Calls /\ threads[t].op = "heartbeat"
      BY <1>1, TypesOf, CloudAssumption DEF WellPlaced, At
    <2>2. Freed(t) \in ThreadType
      <3>1. threads[t] \in ThreadType /\ 0 \in 0 .. Sockets
        BY TypesOf
      <3>2. Freed(t) = [threads[t] EXCEPT !.at = "top", !.socket = 0, !.answer = None]
        BY <1>1 DEF Freed
      <3>3. QED
        BY <3>1, <3>2 DEF ThreadType, Steps
    <2>3. WellPlaced(t, Freed(t), made)
      BY <1>1, <2>1, TypesOf, CloudAssumption DEF ThreadType, WellPlaced, Freed
    <2>4. QED
      BY <1>1, <2>2, <2>3 DEF After, Freed
  <1>2. CASE t \notin Loops
    BY <1>2, TypesOf, CloudAssumption
    DEF ThreadType, WellPlaced, After, Freed, At, Ops, Steps, Idle
  <1>3. QED
    BY <1>1, <1>2

\* What waits to be read is an answer.
LEMMA ToldTyped ==
  ASSUME CloudTyped, NEW s \in 1 .. Sockets, sockets[s].told # <<>>
  PROVE  Head(sockets[s].told) \in Answers /\ Tail(sockets[s].told) \in Seq(Answers)
  BY TypesOf, HeadTailProperties DEF SocketType

\* One thread moves on, the others stay where they are.
LEMMA ThreadMoves ==
  ASSUME CloudTyped, made' \in made .. Sockets,
         NEW t \in Threads, NEW r \in ThreadType, WellPlaced(t, r, made'),
         threads' = [threads EXCEPT ![t] = r]
  PROVE  threads' \in [Threads -> ThreadType] /\ StepsInv'
  BY TypesOf DEF StepsInv, WellPlaced

\* Every step leaves the calls, the loops and the lock well formed.
LEMMA ServiceTypedStep ==
  ASSUME CloudTyped, CloudNext
  PROVE  ServiceTyped' /\ StepsInv'
  <1>1. ASSUME NEW t \in Calls, NEW op \in {"connect", "disconnect", "pull", "push"}, Call(t, op)
        PROVE  ServiceTyped' /\ StepsInv'
    <2> DEFINE r == [threads[t] EXCEPT !.op = op, !.at = "start"]
    <2>1. threads' = [threads EXCEPT ![t] = r]
      BY <1>1, CloudAssumption DEF Call, GoTo, Return, Connecting, Idle, At
    <2>2. r \in ThreadType /\ WellPlaced(t, r, made')
      BY <1>1, TypesOf, CloudAssumption
      DEF Call, GoTo, Return, Connecting, Idle, At, Threads, ThreadType, WellPlaced, Ops, Steps,
          Connected, socketVars
    <2>3. made' \in made .. Sockets /\ t \in Threads
      BY <1>1, TypesOf DEF Call, socketVars, Threads
    <2>4. threads' \in [Threads -> ThreadType] /\ StepsInv'
      <3> HIDE DEF r
      <3>1. QED
        BY <2>1, <2>2, <2>3, ThreadMoves
    <2>5. QED
      BY <1>1, <2>3, <2>4, TypesOf DEF Call, Fails, Call, socketVars, ServiceTyped
  <1>2. ASSUME NEW t \in Threads, Disconnect(t) PROVE ServiceTyped' /\ StepsInv'
    <2> DEFINE r == IF Connecting(t) THEN [threads[t] EXCEPT !.at = "dial"] ELSE Idle
    <2>1. threads' = [threads EXCEPT ![t] = r]
      BY <1>2, CloudAssumption DEF Disconnect, GoTo, Return, Connecting, Idle, At
    <2>2. r \in ThreadType /\ WellPlaced(t, r, made')
      BY <1>2, TypesOf, CloudAssumption
      DEF Disconnect, GoTo, Return, Connecting, Idle, At, Threads, ThreadType, WellPlaced, Ops,
          Steps, Connected, socketVars
    <2>3. made' \in made .. Sockets /\ t \in Threads
      BY <1>2, TypesOf DEF Disconnect, socketVars, Threads
    <2>4. threads' \in [Threads -> ThreadType] /\ StepsInv'
      <3> HIDE DEF r
      <3>1. QED
        BY <2>1, <2>2, <2>3, ThreadMoves
    <2>5. QED
      BY <1>2, <2>3, <2>4, TypesOf DEF Disconnect, Fails, Call, socketVars, ServiceTyped
  <1>3. ASSUME NEW t \in Threads, Dial(t) PROVE ServiceTyped' /\ StepsInv'
    <2> DEFINE r == [threads[t] EXCEPT !.at = "write", !.socket = made']
    <2>1. threads' = [threads EXCEPT ![t] = r]
      BY <1>3, CloudAssumption DEF Dial, GoTo, Return, Connecting, Idle, At
    <2>2. r \in ThreadType /\ WellPlaced(t, r, made')
      <3>1. made' = made + 1 /\ made' \in 0 .. Sockets /\ made' \in 1 .. made'
        BY <1>3, TypesOf DEF Dial
      <3>2. threads[t].op = "connect" /\ threads[t] \in ThreadType
        BY <1>3, TypesOf DEF Dial, At, WellPlaced
      <3>3. t \notin Loops
        BY <3>2, TypesOf, CloudAssumption DEF WellPlaced
      <3>4. r \in ThreadType
        BY <3>1, <3>2 DEF ThreadType, Steps
      <3>5. QED
        BY <3>1, <3>2, <3>3, <3>4, CloudAssumption DEF WellPlaced, ThreadType
    <2>3. made' \in made .. Sockets /\ t \in Threads
      BY <1>3, TypesOf DEF Dial, socketVars, Threads
    <2>4. threads' \in [Threads -> ThreadType] /\ StepsInv'
      <3> HIDE DEF r
      <3>1. QED
        BY <2>1, <2>2, <2>3, ThreadMoves
    <2>5. t \in Calls
      BY <1>3, TypesOf, CloudAssumption DEF Dial, At, WellPlaced, Threads
    <2>6. made' = made + 1 /\ made' \in Nat /\ client \in 0 .. made'
      BY <1>3, TypesOf DEF Dial
    <2>7. QED
      BY <1>3, <2>4, <2>5, <2>6, TypesOf DEF Dial, ServiceTyped
  <1>4. ASSUME NEW t \in Threads, DialFails(t) PROVE ServiceTyped' /\ StepsInv'
    <2> DEFINE r == Idle
    <2>1. threads' = [threads EXCEPT ![t] = r]
      BY <1>4, CloudAssumption DEF DialFails, GoTo, Return, Connecting, Idle, At
    <2>2. r \in ThreadType /\ WellPlaced(t, r, made')
      BY <1>4, TypesOf, CloudAssumption
      DEF DialFails, GoTo, Return, Connecting, Idle, At, Threads, ThreadType, WellPlaced, Ops,
          Steps, Connected, socketVars
    <2>3. made' \in made .. Sockets /\ t \in Threads
      BY <1>4, TypesOf DEF DialFails, socketVars, Threads
    <2>4. threads' \in [Threads -> ThreadType] /\ StepsInv'
      <3> HIDE DEF r
      <3>1. QED
        BY <2>1, <2>2, <2>3, ThreadMoves
    <2>5. QED
      BY <1>4, <2>3, <2>4, TypesOf DEF DialFails, Fails, Call, socketVars, ServiceTyped
  <1>5. ASSUME NEW t \in Threads, Begin(t) PROVE ServiceTyped' /\ StepsInv'
    <2> DEFINE r == IF Connected THEN [threads[t] EXCEPT !.at = "write", !.socket = client] ELSE Freed(t)
    <2>1. threads' = [threads EXCEPT ![t] = r]
      BY <1>5, CloudAssumption, FreedMoves DEF Begin, GoTo, Return, Connecting, Idle, At
    <2>2. r \in ThreadType /\ WellPlaced(t, r, made')
      <3>1. threads[t].at = "start" /\ t \in Threads /\ made' = made
        BY <1>5 DEF Begin, At, socketVars, Threads
      <3>2. CASE ~Connected
        BY <3>1, <3>2, FreedMoves, CloudAssumption DEF At
      <3>3. CASE Connected
        <4>1. client \in 1 .. made /\ client \in 0 .. Sockets
          BY <3>3, TypesOf DEF Connected
        <4>2. threads[t] \in ThreadType /\ WellPlaced(t, threads[t], made)
          BY <3>1, TypesOf
        <4>3. r = [threads[t] EXCEPT !.at = "write", !.socket = client]
          BY <3>3
        <4>4. r \in ThreadType
          BY <4>1, <4>2, <4>3 DEF ThreadType, Steps
        <4>5. QED
          BY <3>1, <4>1, <4>2, <4>3, <4>4, CloudAssumption DEF WellPlaced, ThreadType
      <3>4. QED
        BY <3>2, <3>3
    <2>3. made' \in made .. Sockets /\ t \in Threads
      BY <1>5, TypesOf DEF Begin, socketVars, Threads
    <2>4. threads' \in [Threads -> ThreadType] /\ StepsInv'
      <3> HIDE DEF r
      <3>1. QED
        BY <2>1, <2>2, <2>3, ThreadMoves
    <2>5. QED
      BY <1>5, <2>3, <2>4, TypesOf DEF Begin, Fails, Call, socketVars, ServiceTyped
  <1>6. ASSUME NEW l \in Loops, LoopTurns(l) PROVE ServiceTyped' /\ StepsInv'
    <2> DEFINE r == [threads[l] EXCEPT !.at = "select", !.chan = stop]
    <2>1. threads' = [threads EXCEPT ![l] = r]
      BY <1>6, CloudAssumption DEF LoopTurns, GoTo, Return, Connecting, Idle, At
    <2>2. r \in ThreadType /\ WellPlaced(l, r, made')
      BY <1>6, TypesOf, CloudAssumption
      DEF LoopTurns, GoTo, Return, Connecting, Idle, At, Threads, ThreadType, WellPlaced, Ops,
          Steps, Connected, socketVars
    <2>3. made' \in made .. Sockets /\ l \in Threads
      BY <1>6, TypesOf DEF LoopTurns, socketVars, Threads
    <2>4. threads' \in [Threads -> ThreadType] /\ StepsInv'
      <3> HIDE DEF r
      <3>1. QED
        BY <2>1, <2>2, <2>3, ThreadMoves
    <2>5. QED
      BY <1>6, <2>3, <2>4, TypesOf DEF LoopTurns, Fails, Call, socketVars, ServiceTyped
  <1>7. ASSUME NEW l \in Loops, LoopEnds(l) PROVE ServiceTyped' /\ StepsInv'
    <2> DEFINE r == Idle
    <2>1. threads' = [threads EXCEPT ![l] = r]
      BY <1>7, CloudAssumption DEF LoopEnds, GoTo, Return, Connecting, Idle, At
    <2>2. r \in ThreadType /\ WellPlaced(l, r, made')
      BY <1>7, TypesOf, CloudAssumption
      DEF LoopEnds, GoTo, Return, Connecting, Idle, At, Threads, ThreadType, WellPlaced, Ops,
          Steps, Connected, socketVars
    <2>3. made' \in made .. Sockets /\ l \in Threads
      BY <1>7, TypesOf DEF LoopEnds, socketVars, Threads
    <2>4. threads' \in [Threads -> ThreadType] /\ StepsInv'
      <3> HIDE DEF r
      <3>1. QED
        BY <2>1, <2>2, <2>3, ThreadMoves
    <2>5. QED
      BY <1>7, <2>3, <2>4, TypesOf DEF LoopEnds, Fails, Call, socketVars, ServiceTyped
  <1>8. ASSUME NEW l \in Loops, Tick(l) PROVE ServiceTyped' /\ StepsInv'
    <2> DEFINE r == IF Connected THEN [threads[l] EXCEPT !.at = "write", !.socket = client] ELSE Freed(l)
    <2>1. threads' = [threads EXCEPT ![l] = r]
      BY <1>8, CloudAssumption, FreedMoves DEF Tick, At, Threads
    <2>2. r \in ThreadType /\ WellPlaced(l, r, made')
      <3>1. threads[l].at = "select" /\ l \in Threads /\ made' = made
        BY <1>8 DEF Tick, At, socketVars, Threads
      <3>2. CASE ~Connected
        BY <3>1, <3>2, FreedMoves, CloudAssumption DEF At
      <3>3. CASE Connected
        <4>1. client \in 1 .. made /\ client \in 0 .. Sockets
          BY <3>3, TypesOf DEF Connected
        <4>2. threads[l] \in ThreadType /\ WellPlaced(l, threads[l], made)
          BY <3>1, TypesOf
        <4>3. r = [threads[l] EXCEPT !.at = "write", !.socket = client]
          BY <3>3
        <4>4. r \in ThreadType
          BY <4>1, <4>2, <4>3 DEF ThreadType, Steps
        <4>5. QED
          BY <3>1, <4>1, <4>2, <4>3, <4>4, CloudAssumption DEF WellPlaced, ThreadType
      <3>4. QED
        BY <3>2, <3>3
    <2>3. made' \in made .. Sockets /\ l \in Threads
      BY <1>8, TypesOf DEF Tick, socketVars, Threads
    <2>4. threads' \in [Threads -> ThreadType] /\ StepsInv'
      <3> HIDE DEF r
      <3>1. QED
        BY <2>1, <2>2, <2>3, ThreadMoves
    <2>5. QED
      BY <1>8, <2>3, <2>4, TypesOf DEF Tick, Fails, Call, socketVars, ServiceTyped
  <1>9. ASSUME NEW t \in Threads, Write(t) PROVE ServiceTyped' /\ StepsInv'
    <2> DEFINE r == [threads[t] EXCEPT !.at = "read"]
    <2>1. threads' = [threads EXCEPT ![t] = r]
      BY <1>9, CloudAssumption DEF Write, GoTo, Return, Connecting, Idle, At
    <2>2. r \in ThreadType /\ WellPlaced(t, r, made')
      BY <1>9, TypesOf, CloudAssumption
      DEF Write, GoTo, Return, Connecting, Idle, At, Threads, ThreadType, WellPlaced, Ops, Steps,
          Connected, socketVars
    <2>3. made' \in made .. Sockets /\ t \in Threads
      BY <1>9, TypesOf DEF Write, socketVars, Threads
    <2>4. threads' \in [Threads -> ThreadType] /\ StepsInv'
      <3> HIDE DEF r
      <3>1. QED
        BY <2>1, <2>2, <2>3, ThreadMoves
    <2>5. QED
      BY <1>9, <2>3, <2>4, TypesOf DEF Write, Fails, Call, socketVars, ServiceTyped
  <1>10. ASSUME NEW t \in Threads, NotConnected(t) PROVE ServiceTyped' /\ StepsInv'
    <2> DEFINE r == Freed(t)
    <2>1. threads' = [threads EXCEPT ![t] = r]
      BY <1>10, CloudAssumption, FreedMoves
      DEF NotConnected, Fails, GoTo, Return, Connecting, Idle, At
    <2>2. r \in ThreadType /\ WellPlaced(t, r, made')
      BY <1>10, TypesOf, FreedMoves, CloudAssumption
      DEF NotConnected, Fails, GoTo, Return, Connecting, Idle, At, Threads, ThreadType,
          WellPlaced, Ops, Steps, Connected, socketVars
    <2>3. made' \in made .. Sockets /\ t \in Threads
      BY <1>10, TypesOf DEF NotConnected, Fails, socketVars, Threads
    <2>4. threads' \in [Threads -> ThreadType] /\ StepsInv'
      <3> HIDE DEF r
      <3>1. QED
        BY <2>1, <2>2, <2>3, ThreadMoves
    <2>5. QED
      BY <1>10, <2>3, <2>4, TypesOf DEF NotConnected, Fails, Fails, Call, socketVars, ServiceTyped
  <1>11. ASSUME NEW t \in Threads, Read(t) PROVE ServiceTyped' /\ StepsInv'
    <2> DEFINE r == [threads[t] EXCEPT !.at = "answered", !.answer = Head(sockets[threads[t].socket].told)]
    <2>1. threads' = [threads EXCEPT ![t] = r]
      BY <1>11, CloudAssumption DEF Read, GoTo, Return, Connecting, Idle, At
    <2>2. r \in ThreadType /\ WellPlaced(t, r, made')
      <3>1. threads[t] \in ThreadType /\ WellPlaced(t, threads[t], made) /\ threads[t].at = "read"
        BY <1>11, TypesOf DEF Read, At
      <3>2. Head(sockets[threads[t].socket].told) \in Answers
        BY <1>11, <3>1, TypesOf, ToldTyped DEF Read, WellPlaced
      <3>3. r \in ThreadType
        BY <3>1, <3>2 DEF ThreadType, Steps
      <3>4. QED
        BY <1>11, <3>1, <3>2, <3>3, CloudAssumption DEF Read, WellPlaced, ThreadType
    <2>3. made' \in made .. Sockets /\ t \in Threads
      BY <1>11, TypesOf DEF Read, socketVars, Threads
    <2>4. threads' \in [Threads -> ThreadType] /\ StepsInv'
      <3> HIDE DEF r
      <3>1. QED
        BY <2>1, <2>2, <2>3, ThreadMoves
    <2>5. QED
      BY <1>11, <2>3, <2>4, TypesOf DEF Read, Fails, Call, socketVars, ServiceTyped
  <1>12. ASSUME NEW t \in Threads, ReadFails(t) PROVE ServiceTyped' /\ StepsInv'
    <2> DEFINE r == Freed(t)
    <2>1. threads' = [threads EXCEPT ![t] = r]
      BY <1>12, CloudAssumption, FreedMoves
      DEF ReadFails, Fails, GoTo, Return, Connecting, Idle, At
    <2>2. r \in ThreadType /\ WellPlaced(t, r, made')
      BY <1>12, TypesOf, FreedMoves, CloudAssumption
      DEF ReadFails, Fails, GoTo, Return, Connecting, Idle, At, Threads, ThreadType, WellPlaced,
          Ops, Steps, Connected, socketVars
    <2>3. made' \in made .. Sockets /\ t \in Threads
      BY <1>12, TypesOf DEF ReadFails, Fails, socketVars, Threads
    <2>4. threads' \in [Threads -> ThreadType] /\ StepsInv'
      <3> HIDE DEF r
      <3>1. QED
        BY <2>1, <2>2, <2>3, ThreadMoves
    <2>5. QED
      BY <1>12, <2>3, <2>4, TypesOf DEF ReadFails, Fails, Fails, Call, socketVars, ServiceTyped
  <1>13. ASSUME NEW t \in Threads, Refused(t) PROVE ServiceTyped' /\ StepsInv'
    <2> DEFINE r == Freed(t)
    <2>1. threads' = [threads EXCEPT ![t] = r]
      BY <1>13, CloudAssumption, FreedMoves DEF Refused, Fails, GoTo, Return, Connecting, Idle, At
    <2>2. r \in ThreadType /\ WellPlaced(t, r, made')
      BY <1>13, TypesOf, FreedMoves, CloudAssumption
      DEF Refused, Fails, GoTo, Return, Connecting, Idle, At, Threads, ThreadType, WellPlaced,
          Ops, Steps, Connected, socketVars
    <2>3. made' \in made .. Sockets /\ t \in Threads
      BY <1>13, TypesOf DEF Refused, Fails, socketVars, Threads
    <2>4. threads' \in [Threads -> ThreadType] /\ StepsInv'
      <3> HIDE DEF r
      <3>1. QED
        BY <2>1, <2>2, <2>3, ThreadMoves
    <2>5. QED
      BY <1>13, <2>3, <2>4, TypesOf DEF Refused, Fails, Fails, Call, socketVars, ServiceTyped
  <1>14. ASSUME NEW t \in Threads, Answered(t) PROVE ServiceTyped' /\ StepsInv'
    <2> DEFINE r == Freed(t)
    <2>1. threads' = [threads EXCEPT ![t] = r]
      BY <1>14, CloudAssumption, FreedMoves DEF Answered, GoTo, Return, Connecting, Idle, At
    <2>2. r \in ThreadType /\ WellPlaced(t, r, made')
      BY <1>14, TypesOf, FreedMoves, CloudAssumption
      DEF Answered, GoTo, Return, Connecting, Idle, At, Threads, ThreadType, WellPlaced, Ops,
          Steps, Connected, socketVars
    <2>3. made' \in made .. Sockets /\ t \in Threads
      BY <1>14, TypesOf DEF Answered, socketVars, Threads
    <2>4. threads' \in [Threads -> ThreadType] /\ StepsInv'
      <3> HIDE DEF r
      <3>1. QED
        BY <2>1, <2>2, <2>3, ThreadMoves
    <2>5. QED
      BY <1>14, <2>3, <2>4, TypesOf DEF Answered, Fails, Call, socketVars, ServiceTyped
  <1>15. ASSUME NEW t \in Threads, ConnectEnds(t) PROVE ServiceTyped' /\ StepsInv'
    <2>1. PICK l \in Loops :
            /\ At(l, None)
            /\ threads' = [threads EXCEPT ![t] = Idle, ![l].op = "heartbeat", ![l].at = "top"]
      BY <1>15 DEF ConnectEnds
    <2> DEFINE r == [threads[l] EXCEPT !.op = "heartbeat", !.at = "top"]
    <2>2. Idle \in ThreadType /\ WellPlaced(t, Idle, made)
      BY TypesOf, CloudAssumption DEF Idle, ThreadType, WellPlaced, Ops, Steps
    <2>3. r \in ThreadType /\ WellPlaced(l, r, made)
      BY TypesOf, CloudAssumption DEF ThreadType, WellPlaced, Ops, Steps, Threads
    <2>4. t # l /\ threads[t].socket \in 0 .. Sockets /\ threads[t].socket \in 0 .. made
      BY <1>15, <2>1, TypesOf, CloudAssumption DEF ConnectEnds, At, ThreadType, WellPlaced
    <2>5. threads' = [[threads EXCEPT ![t] = Idle] EXCEPT ![l] = r]
      BY <2>1, <2>4, TypesOf DEF Threads
    <2>6. threads' \in [Threads -> ThreadType] /\ StepsInv'
      BY <1>15, <2>2, <2>3, <2>5, TypesOf DEF StepsInv, ConnectEnds, socketVars, Threads
    <2>7. QED
      BY <1>15, <2>4, <2>6, TypesOf DEF ServiceTyped, ConnectEnds, socketVars
  <1>16. ASSUME UNCHANGED <<serviceVars, made>> PROVE ServiceTyped' /\ StepsInv'
    BY <1>16 DEF CloudTyped, ServiceTyped, StepsInv, serviceVars
  <1>17. ASSUME NEW s \in 1 .. Sockets, Deals(s) PROVE UNCHANGED <<serviceVars, made>>
    BY <1>17 DEF Deals, Serves, processMessage, HandlerEnds, PingsLost
  <1>18. \/ Expire \/ RestartServer \/ SetClockBack \/ clearSync \/ OtherLeaves
         \/ (\E k \in Hosts : OtherPushes(k))
         => UNCHANGED <<serviceVars, made>>
    BY DEF Expire, RestartServer, SetClockBack, clearSync, OtherLeaves, OtherPushes, socketVars
  <1>19. QED
    BY <1>1, <1>2, <1>3, <1>4, <1>5, <1>6, <1>7, <1>8, <1>9, <1>10, <1>11, <1>12, <1>13, <1>14,
       <1>15, <1>16, <1>17, <1>18, TypesOf
    DEF CloudNext, UserActs, GoesOn, Beats, Deals

-----------------------------------------------------------------------------
\* One socket changes, among those that were made.
LEMMA SocketMoves ==
  ASSUME CloudTyped, made' \in made .. Sockets,
         NEW s \in 1 .. made', NEW r \in SocketType,
         sockets' = [sockets EXCEPT ![s] = r]
  PROVE  /\ sockets' \in [1 .. Sockets -> SocketType]
         /\ sockets'[s] = r
         /\ \A u \in 1 .. Sockets : u # s => sockets'[u] = sockets[u]
         /\ \A u \in 1 .. Sockets : u > made' => sockets'[u] = NoSocket
  <1>1. s \in 1 .. Sockets /\ \A u \in 1 .. Sockets : u > made' => u # s /\ u > made
    BY TypesOf
  <1>2. QED
    BY <1>1, TypesOf DEF CloudTyped, SocketsTyped

\* A socket that is shut is not open, and the others are left alone.
LEMMA ShutOne ==
  ASSUME CloudTyped, NEW s \in 0 .. made
  PROVE  /\ Shut(sockets, s) \in [1 .. Sockets -> SocketType]
         /\ \A u \in 1 .. Sockets : u > made => Shut(sockets, s)[u] = NoSocket
         /\ \A u \in 1 .. Sockets : u # s => Shut(sockets, s)[u] = sockets[u]
         /\ s # 0 => s \in 1 .. Sockets /\ ~Shut(sockets, s)[s].up
  <1>1. CASE s = 0
    BY <1>1, TypesOf DEF Shut, CloudTyped, SocketsTyped
  <1>2. CASE s # 0
    <2> DEFINE r == [sockets[s] EXCEPT !.up = FALSE, !.told = <<>>]
    <2>1. s \in 1 .. Sockets /\ s \in 1 .. made
      BY <1>2, TypesOf
    <2>2. r \in SocketType /\ ~r.up
      BY <2>1, TypesOf, EmptySeq DEF SocketType
    <2>3. Shut(sockets, s) = [sockets EXCEPT ![s] = r]
      BY <1>2 DEF Shut
    <2>4. QED
      <3> HIDE DEF r
      <3>1. QED
        BY <2>1, <2>2, <2>3, TypesOf DEF CloudTyped, SocketsTyped
  <1>3. QED
    BY <1>1, <1>2

\* The request a thread writes.
LEMMA RequestTyped ==
  ASSUME CloudTyped, NEW t \in Threads, NEW hosts \in SUBSET Hosts
  PROVE  [by |-> t, op |-> threads[t].op, hosts |-> hosts] \in Requests
  BY TypesOf DEF ThreadType, Requests

\* A handler that takes a message leaves a well-formed socket.
LEMMA ServedTyped ==
  ASSUME CloudTyped, NEW s \in 1 .. Sockets, processMessage(s)
  PROVE  \E r \in SocketType : sockets' = [sockets EXCEPT ![s] = r]
  <1> DEFINE m == Head(sockets[s].asked)
  <1>1. PICK ok \in {TRUE, m.op # "connect"} :
          sockets' = [sockets EXCEPT
            ![s].asked = Tail(@),
            ![s].told = IF sockets[s].up THEN Append(@, Answer(m.by, ok)) ELSE @,
            ![s].registered = @ \/ (m.op = "connect" /\ ok)]
    BY DEF processMessage
  <1> DEFINE told == IF sockets[s].up THEN Append(sockets[s].told, Answer(m.by, ok)) ELSE sockets[s].told
             r == [sockets[s] EXCEPT !.asked = Tail(@), !.told = told,
                                     !.registered = @ \/ (m.op = "connect" /\ ok)]
  <1>2. sockets[s] \in SocketType /\ sockets[s].asked # <<>>
    BY TypesOf DEF processMessage
  <1>3. m \in Requests /\ Tail(sockets[s].asked) \in Seq(Requests)
    BY <1>2, HeadTailProperties DEF SocketType
  <1>4. ok \in BOOLEAN
    BY <1>1
  <1>5. Answer(m.by, ok) \in Answers
    BY <1>3, <1>4 DEF Answer, Answers, Requests
  <1>6. told \in Seq(Answers)
    BY <1>2, <1>5, AppendProperties DEF SocketType
  <1>7. (sockets[s].registered \/ (m.op = "connect" /\ ok)) \in BOOLEAN
    OBVIOUS
  <1>8. r \in SocketType
    <2> HIDE DEF told, m
    <2>1. QED
      BY <1>2, <1>3, <1>6, <1>7 DEF SocketType
  <1>9. sockets' = [sockets EXCEPT ![s] = r]
    BY <1>1, <1>2, TypesOf DEF SocketType
  <1>10. QED
    BY <1>8, <1>9

\* The steps that change a socket.
LEMMA SocketsChange ==
  ASSUME CloudTyped, CloudNext
  PROVE  \/ \E t \in Threads :
              Disconnect(t) \/ Dial(t) \/ Write(t) \/ Read(t) \/ ReadFails(t) \/ Refused(t)
         \/ \E s \in 1 .. Sockets : Deals(s)
         \/ RestartServer
         \/ UNCHANGED socketVars
  BY TypesOf
  DEF CloudNext, Deals, UserActs, GoesOn, Beats, SetClockBack, Call, DialFails, ConnectEnds, Begin, LoopTurns,
      LoopEnds, Tick,
      NotConnected, Answered, Expire, clearSync, OtherPushes, OtherLeaves, Threads

\* What a step does to the sockets: it shuts one, makes one, or changes an open one.
LEMMA SocketsTypedStep ==
  ASSUME CloudTyped, CloudNext
  PROVE  SocketsTyped'
  <1>1. ASSUME NEW t \in Threads, Disconnect(t) PROVE SocketsTyped'
    <2>1. client \in 0 .. made
      BY TypesOf
    <2>2. QED
      BY <1>1, <2>1, ShutOne, TypesOf DEF Disconnect, SocketsTyped, CloudTyped
  <1>2. ASSUME NEW t \in Threads, Dial(t) PROVE SocketsTyped'
    <2> DEFINE r == [sockets[made'] EXCEPT !.up = TRUE, !.handler = TRUE]
    <2>1. made' \in made .. Sockets /\ made' \in 1 .. made' /\ made' \in 1 .. Sockets
      BY <1>2, TypesOf DEF Dial
    <2>2. r \in SocketType
      BY <2>1, TypesOf DEF SocketType
    <2>3. sockets' = [sockets EXCEPT ![made'] = r]
      BY <1>2 DEF Dial
    <2>4. QED
      <3> HIDE DEF r
      <3>1. shared' \subseteq 1 .. Sockets /\ made' \in 0 .. Sockets
        BY <1>2, <2>1, TypesOf DEF Dial, CloudTyped, SocketsTyped
      <3>2. QED
        BY <2>1, <2>2, <2>3, <3>1, SocketMoves DEF SocketsTyped
  <1>3. ASSUME NEW t \in Threads, Write(t) PROVE SocketsTyped'
    <2> DEFINE s == threads[t].socket
    <2>1. s \in 1 .. made /\ s \in 1 .. Sockets /\ made' = made /\ made' \in made .. Sockets
      BY <1>3, TypesOf DEF Write, At, WellPlaced
    <2>2. PICK hosts \in SUBSET Hosts :
            sockets' = IF sockets[s].handler
                       THEN [sockets EXCEPT ![s].asked =
                               Append(@, [by |-> t, op |-> threads[t].op, hosts |-> hosts])]
                       ELSE sockets
      BY <1>3 DEF Write
    <2> DEFINE m == [by |-> t, op |-> threads[t].op, hosts |-> hosts]
               r == [sockets[s] EXCEPT !.asked = Append(@, m)]
    <2>3. r \in SocketType
      <3>1. m \in Requests
        BY RequestTyped
      <3>2. sockets[s] \in SocketType
        BY <2>1, TypesOf
      <3>3. Append(sockets[s].asked, m) \in Seq(Requests)
        BY <3>1, <3>2, AppendProperties DEF SocketType
      <3>4. QED
        BY <3>2, <3>3 DEF SocketType
    <2>4. sockets' = [sockets EXCEPT ![s] = r] \/ sockets' = sockets
      BY <2>2
    <2>5. shared' \subseteq 1 .. Sockets
      BY <1>3, <2>1 DEF Write, CloudTyped, SocketsTyped
    <2>6. QED
      <3> HIDE DEF r, s
      <3>1. QED
        BY <2>1, <2>3, <2>4, <2>5, SocketMoves DEF SocketsTyped, CloudTyped
  <1>4. ASSUME NEW t \in Threads, Read(t) PROVE SocketsTyped'
    <2> DEFINE s == threads[t].socket
               r == [sockets[s] EXCEPT !.told = Tail(@)]
    <2>1. s \in 1 .. made /\ s \in 1 .. Sockets /\ made' = made /\ made' \in made .. Sockets
      BY <1>4, TypesOf DEF Read, At, WellPlaced
    <2>2. r \in SocketType
      BY <1>4, <2>1, TypesOf, ToldTyped DEF Read, SocketType
    <2>3. sockets' = [sockets EXCEPT ![s] = r] /\ UNCHANGED shared
      BY <1>4 DEF Read
    <2>4. QED
      <3> HIDE DEF r, s
      <3>1. QED
        BY <2>1, <2>2, <2>3, SocketMoves DEF SocketsTyped, CloudTyped
  <1>5. ASSUME NEW t \in Threads, ReadFails(t) \/ Refused(t) PROVE SocketsTyped'
    <2>1. threads[t].socket \in 0 .. made
      BY <1>5, TypesOf DEF ReadFails, Refused, At, WellPlaced
    <2>2. sockets' = Shut(sockets, threads[t].socket) /\ UNCHANGED <<made, shared>>
      BY <1>5 DEF ReadFails, Refused
    <2>3. QED
      BY <2>1, <2>2, ShutOne DEF SocketsTyped, CloudTyped
  <1>6. ASSUME NEW s \in 1 .. Sockets, Deals(s) PROVE SocketsTyped'
    <2>1. s \in 1 .. made /\ made' \in made .. Sockets /\ UNCHANGED <<made, shared>>
      <3>1. sockets[s].handler /\ UNCHANGED <<made, shared>>
        BY <1>6 DEF Deals, Serves, processMessage, HandlerEnds, PingsLost
      <3>2. ~(s > made)
        BY <3>1 DEF NoSocket, CloudTyped, SocketsTyped
      <3>3. QED
        BY <3>1, <3>2, TypesOf
    <2>2. PICK r \in SocketType : sockets' = [sockets EXCEPT ![s] = r]
      <3>1. CASE processMessage(s)
        BY <3>1, ServedTyped
      <3>2. CASE HandlerEnds(s)
        <4> DEFINE r == [sockets[s] EXCEPT !.handler = FALSE]
        <4>1. r \in SocketType
          BY TypesOf DEF SocketType
        <4>2. sockets' = [sockets EXCEPT ![s] = r]
          BY <3>2 DEF HandlerEnds
        <4>3. QED
          BY <4>1, <4>2
      <3>3. CASE PingsLost(s)
        <4> DEFINE r == [sockets[s] EXCEPT !.handler = FALSE, !.asked = <<>>]
        <4>1. r \in SocketType
          BY TypesOf, EmptySeq DEF SocketType
        <4>2. sockets' = [sockets EXCEPT ![s] = r]
          BY <3>3 DEF PingsLost
        <4>3. QED
          BY <4>1, <4>2
      <3>4. QED
        BY <1>6, <3>1, <3>2, <3>3 DEF Deals, Serves
    <2>3. QED
      BY <2>1, <2>2, SocketMoves DEF SocketsTyped, CloudTyped
  <1>7. ASSUME RestartServer PROVE SocketsTyped'
    <2>1. \A s \in 1 .. Sockets : [sockets[s] EXCEPT !.handler = FALSE, !.asked = <<>>] \in SocketType
      BY TypesOf, EmptySeq DEF SocketType
    <2>2. [NoSocket EXCEPT !.handler = FALSE, !.asked = <<>>] = NoSocket
      <3>1. NoSocket \in SocketType /\ NoSocket.handler = FALSE /\ NoSocket.asked = <<>>
        BY EmptySeq DEF NoSocket, SocketType
      <3>2. QED
        BY <3>1 DEF SocketType
    <2>3. sockets' = [s \in 1 .. Sockets |-> [sockets[s] EXCEPT !.handler = FALSE, !.asked = <<>>]]
      BY <1>7, TypesOf DEF RestartServer
    <2>4. UNCHANGED <<made, shared>>
      BY <1>7 DEF RestartServer
    <2>5. QED
      BY <2>1, <2>2, <2>3, <2>4 DEF SocketsTyped, CloudTyped
  <1>8. ASSUME UNCHANGED socketVars PROVE SocketsTyped'
    BY <1>8 DEF SocketsTyped, CloudTyped, socketVars
  <1>9. QED
    BY <1>1, <1>2, <1>3, <1>4, <1>5, <1>6, <1>7, <1>8, SocketsChange

-----------------------------------------------------------------------------
\* What was merged changes with a push, by a restart of the server, or not at all; the clock
\* may be set back.
LEMMA DataChange ==
  ASSUME CloudTyped, CloudNext
  PROVE  \/ (\E hosts : UpdateSyncData(hosts)) /\ UNCHANGED life
         \/ RestartServer
         \/ SetClockBack
         \/ UNCHANGED <<dataVars, life>>
  <1>1. ASSUME NEW s \in 1 .. Sockets, Deals(s)
        PROVE  \/ (\E hosts : UpdateSyncData(hosts)) /\ UNCHANGED life
               \/ UNCHANGED <<dataVars, life>>
    <2>1. CASE HandlerEnds(s) \/ PingsLost(s)
      BY <2>1 DEF HandlerEnds, PingsLost, MarkDeviceOffline, deviceVars
    <2>2. CASE processMessage(s)
      <3> DEFINE m == Head(sockets[s].asked)
      <3>1. PICK ok \in BOOLEAN :
              CASE m.op = "connect" /\ ok -> RegisterDevice /\ UNCHANGED dataVars
                [] m.op = "heartbeat" -> UpdateDeviceHeartbeat /\ UNCHANGED dataVars
                [] m.op = "push" -> UpdateSyncData(m.hosts) /\ UNCHANGED deviceVars
                [] OTHER -> UNCHANGED <<dataVars, deviceVars>>
        BY <2>2 DEF processMessage
      <3> HIDE DEF m
      <3>2. CASE m.op = "push"
        BY <3>1, <3>2 DEF deviceVars
      <3>3. CASE m.op # "push"
        BY <3>1, <3>3 DEF deviceVars, RegisterDevice, UpdateDeviceHeartbeat
      <3>4. QED
        BY <3>2, <3>3
    <2>3. QED
      BY <1>1, <2>1, <2>2 DEF Deals, Serves
  <1>2. ASSUME NEW k \in Hosts, OtherPushes(k) PROVE UpdateSyncData({k}) /\ UNCHANGED life
    BY <1>2 DEF OtherPushes, RegisterDevice
  <1>3. ASSUME clearSync PROVE UpdateSyncData({}) /\ UNCHANGED life
    BY <1>3 DEF clearSync, deviceVars
  <1>4. ASSUME Expire \/ OtherLeaves PROVE UNCHANGED <<dataVars, life>>
    BY <1>4 DEF Expire, OtherLeaves, MarkDeviceOffline
  <1>5. ASSUME UserActs \/ (\E t \in Threads : GoesOn(t) \/ DialFails(t)) \/ (\E l \in Loops : Beats(l))
        PROVE  UNCHANGED <<dataVars, life>>
    BY <1>5
    DEF UserActs, GoesOn, Beats, Call, Disconnect, Dial, DialFails, ConnectEnds, Begin,
        LoopTurns, LoopEnds,
        Tick, Write, NotConnected, Read, ReadFails, Refused, Answered, deviceVars
  <1>6. QED
    BY <1>1, <1>2, <1>3, <1>4, <1>5, TypesOf DEF CloudNext, Deals

\* A merge makes entries, which are of their time.
LEMMA MergeStep ==
  ASSUME DataTyped, NEW hosts, UpdateSyncData(hosts), UNCHANGED life
  PROVE  DataTyped' /\ (EncryptedInv => EncryptedInv')
  <1>1. now \in Nat /\ now' = now + 1 /\ now' \in Nat /\ now < now' /\ life \in Nat
    BY DEF DataTyped, UpdateSyncData
  <1>2. stored' = Merged(hosts) /\ (file' = file \/ file' = stored') /\ setBack' = setBack
    BY DEF UpdateSyncData
  <1>3. ASSUME NEW k \in Hosts
        PROVE  /\ stored'[k] \in Entries \cup {None}
               /\ stored[k] # None => stored[k] \in Entries
               /\ file[k] # None => file[k] \in Entries
               /\ \/ stored'[k] = stored[k]
                  \/ stored'[k] = [source |-> life, at |-> now', layers |-> 1]
                  \/ stored[k] # None /\ ~(now' > stored[k].at)
    <2>1. stored[k] \in Entries \cup {None} /\ file[k] \in Entries \cup {None}
      BY DEF DataTyped
    <2>2. [source |-> life, at |-> now', layers |-> 1] \in Entries
      BY <1>1 DEF Entries
    <2>3. stored[k] \in Entries => [stored[k] EXCEPT !.layers = @ + 1] \in Entries
      BY DEF Entries
    <2>4. stored'[k] = IF k \notin hosts THEN stored[k]
                       ELSE IF stored[k] = None \/ stored[k].source = life \/ now' > stored[k].at
                       THEN [source |-> life, at |-> now', layers |-> 1]
                       ELSE [stored[k] EXCEPT !.layers = @ + 1]
      BY <1>2 DEF Merged
    <2>5. QED
      BY <2>1, <2>2, <2>3, <2>4
  <1>4. DataTyped'
    <2>1. stored' = [k \in Hosts |-> stored'[k]]
      BY <1>2 DEF Merged
    <2>2. stored' \in [Hosts -> Entries \cup {None}]
      BY <1>3, <2>1
    <2>3. QED
      BY <1>1, <1>2, <2>2 DEF DataTyped
  <1>5. ASSUME EncryptedInv, ~setBack' PROVE Fresh(stored)' /\ Fresh(file)'
    <2>1. Fresh(stored) /\ Fresh(file)
      BY <1>2, <1>5 DEF EncryptedInv
    <2>2. ASSUME NEW k \in Hosts, stored'[k] # None
          PROVE  stored'[k].layers = 1 /\ stored'[k].at <= now'
      <3>1. CASE stored'[k] = stored[k]
        BY <1>1, <1>3, <2>1, <2>2, <3>1 DEF Fresh, Entries
      <3>2. CASE stored'[k] = [source |-> life, at |-> now', layers |-> 1]
        BY <1>1, <3>2
      <3>3. CASE stored[k] # None /\ ~(now' > stored[k].at)
        BY <1>1, <1>3, <2>1, <3>3 DEF Fresh, Entries
      <3>4. QED
        BY <1>3, <3>1, <3>2, <3>3
    <2>3. ASSUME NEW k \in Hosts, file[k] # None
          PROVE  file[k].layers = 1 /\ file[k].at <= now'
      BY <1>1, <1>3, <2>1, <2>3 DEF Fresh, Entries
    <2>4. QED
      BY <1>2, <2>2, <2>3 DEF Fresh
  <1>6. QED
    BY <1>4, <1>5 DEF EncryptedInv

\* A server that is started again has what its file held, or nothing.
LEMMA RestartStep ==
  ASSUME DataTyped, RestartServer
  PROVE  DataTyped' /\ (EncryptedInv => EncryptedInv')
  <1>1. /\ file' = stored' /\ (stored' = file \/ stored' = [k \in Hosts |-> None])
        /\ life' = life + 1 /\ (now' = 0 \/ now' = now) /\ setBack' = (setBack \/ now' < now)
    BY DEF RestartServer
  <1>2. DataTyped'
    BY <1>1 DEF DataTyped
  <1>3. ASSUME EncryptedInv, ~setBack' PROVE Fresh(stored)' /\ Fresh(file)'
    <2>1. now' = now /\ ~setBack
      <3>1. ~setBack /\ ~(now' < now)
        BY <1>1, <1>3, Zenon
      <3>2. QED
        BY <1>1, <3>1 DEF DataTyped
    <2>2. QED
      BY <1>1, <1>3, <2>1 DEF EncryptedInv, Fresh
  <1>4. QED
    BY <1>2, <1>3 DEF EncryptedInv

\* Every step leaves what the server keeps well formed, and encrypted once.
LEMMA DataStep ==
  ASSUME CloudTyped, CloudNext
  PROVE  DataTyped' /\ (EncryptedInv => EncryptedInv')
  <1>1. ASSUME UNCHANGED <<dataVars, life>> PROVE DataTyped' /\ (EncryptedInv => EncryptedInv')
    BY <1>1 DEF CloudTyped, DataTyped, EncryptedInv, Fresh, dataVars
  <1>2. ASSUME SetClockBack PROVE DataTyped' /\ (EncryptedInv => EncryptedInv')
    BY <1>2 DEF SetClockBack, deviceVars, CloudTyped, DataTyped, EncryptedInv
  <1>3. QED
    BY <1>1, <1>2, DataChange, MergeStep, RestartStep DEF CloudTyped

\* The type invariant is inductive.
LEMMA CloudTypedStep ==
  ASSUME CloudTyped, [CloudNext]_cloudVars
  PROVE  CloudTyped'
  <1>1. CASE CloudNext
    BY <1>1, ServiceTypedStep, SocketsTypedStep, DataStep DEF CloudTyped
  <1>2. CASE UNCHANGED cloudVars
    BY <1>2
    DEF CloudTyped, ServiceTyped, SocketsTyped, DataTyped, StepsInv, cloudVars, serviceVars,
        socketVars,
        dataVars, deviceVars
  <1>3. QED
    BY <1>1, <1>2

\* The program's calls and loops, the sockets and what the server keeps stay well formed.
THEOREM CloudIsTyped == CloudSpec => []CloudTyped
  <1>1. QED
    BY CloudTypedInit, CloudTypedStep, PTL DEF CloudSpec

\* For every number of connections and programs: as long as the clock is not set back, every
\* password the server has merged, in memory or in its file, is encrypted once, in whatever
\* order pushes, restarts and lost writes come.
THEOREM PasswordsOnce == CloudSpec => []EncryptedOnce
  <1>1. CloudInit => EncryptedInv
    BY DEF CloudInit, EncryptedInv, Fresh
  <1>2. CloudTyped /\ EncryptedInv /\ [CloudNext]_cloudVars => EncryptedInv'
    BY DataStep DEF EncryptedInv, Fresh, cloudVars, dataVars
  <1>3. EncryptedInv => EncryptedOnce
    BY DEF EncryptedInv, EncryptedOnce, Fresh
  <1>4. QED
    BY <1>1, <1>2, <1>3, CloudIsTyped, PTL DEF CloudSpec

-----------------------------------------------------------------------------
\* Who has returned, or turned, sends nothing and connects to nothing.
LEMMA AfterReturns ==
  ASSUME CloudTyped, NEW t \in Threads, ~At(t, None), threads' = After(t)
  PROVE  /\ threads'[t].op # "connect" /\ threads'[t].at \in {None, "top"} /\ threads'[t].socket = 0
         /\ \A u \in Threads : u # t => threads'[u] = threads[u]
  <1>1. threads' = [threads EXCEPT ![t] = Freed(t)]
    BY FreedMoves
  <1>2. threads'[t] = Freed(t) /\ \A u \in Threads : u # t => threads'[u] = threads[u]
    BY <1>1, TypesOf
  <1>3. CASE t \in Loops
    <2>1. threads[t] \in ThreadType /\ threads[t].op \in {None, "heartbeat"}
      BY <1>3, TypesOf DEF WellPlaced
    <2>2. threads'[t] = [threads[t] EXCEPT !.at = "top", !.socket = 0, !.answer = None]
      BY <1>2, <1>3 DEF Freed
    <2>3. QED
      BY <1>2, <2>1, <2>2, CloudAssumption DEF ThreadType
  <1>4. CASE t \notin Loops
    BY <1>2, <1>4, CloudAssumption DEF Freed, Idle
  <1>5. QED
    BY <1>3, <1>4

\* A pull, a push or a heartbeat goes on to its socket if there is one that is open.
LEMMA BeginsOrReturns ==
  ASSUME CloudTyped, NEW t \in Threads, Begin(t) \/ (t \in Loops /\ Tick(t))
  PROVE  /\ threads[t].op # "connect" /\ threads'[t].op # "connect"
         /\ threads'[t].at \in {None, "top", "write"}
         /\ threads'[t].at = "write" => threads'[t].socket = client
         /\ \A u \in Threads : u # t => threads'[u] = threads[u]
  <1>1. threads[t].at \in {"start", "select"} /\ threads[t].op # "connect"
    BY TypesOf, CloudAssumption DEF Begin, Tick, At, WellPlaced
  <1>2. CASE Connected
    BY <1>1, <1>2, TypesOf DEF Begin, Tick, ThreadType
  <1>3. CASE ~Connected
    <2>1. threads' = After(t) /\ ~At(t, None)
      BY <1>1, <1>3, CloudAssumption DEF Begin, Tick, At
    <2>2. QED
      BY <1>1, <2>1, AfterReturns, CloudAssumption
  <1>4. QED
    BY <1>2, <1>3

\* The steps of calls and loops, and the others.
LEMMA ServiceMoves ==
  ASSUME CloudTyped, CloudNext
  PROVE  \/ \E t \in Calls, op \in {"connect", "disconnect", "pull", "push"} : Call(t, op)
         \/ \E t \in Threads :
              \/ Disconnect(t) \/ Dial(t) \/ DialFails(t) \/ ConnectEnds(t) \/ Begin(t)
              \/ Write(t) \/ NotConnected(t) \/ Read(t) \/ ReadFails(t) \/ Refused(t) \/ Answered(t)
         \/ \E l \in Loops : LoopTurns(l) \/ LoopEnds(l) \/ Tick(l)
         \/ (\E s \in 1 .. Sockets : Deals(s)) /\ UNCHANGED <<serviceVars, made, shared>>
         \/ RestartServer /\ UNCHANGED <<serviceVars, made, shared>>
         \/ UNCHANGED <<serviceVars, socketVars>>
  <1>1. ASSUME NEW s \in 1 .. Sockets, Deals(s) PROVE UNCHANGED <<serviceVars, made, shared>>
    BY <1>1 DEF Deals, Serves, processMessage, HandlerEnds, PingsLost
  <1>2. Expire \/ SetClockBack \/ clearSync \/ OtherLeaves \/ (\E k \in Hosts : OtherPushes(k)) =>
          UNCHANGED <<serviceVars, socketVars>>
    BY DEF Expire, SetClockBack, clearSync, OtherLeaves, OtherPushes
  <1>3. RestartServer => UNCHANGED <<serviceVars, made, shared>>
    BY DEF RestartServer
  <1>4. QED
    BY <1>1, <1>2, <1>3, TypesOf DEF CloudNext, Deals, UserActs, GoesOn, Beats

\* A Disconnect that runs moves its own thread only, and stays the Connect it is part of.
LEMMA DisconnectMoves ==
  ASSUME CloudTyped, NEW t \in Threads, Disconnect(t)
  PROVE  /\ threads[t].at = "start" /\ threads'[t].at \in {None, "dial"}
         /\ Connecting(t)' <=> Connecting(t)
         /\ \A u \in Threads : u # t => threads'[u] = threads[u]
  <1>1. threads[t].at = "start"
    BY DEF Disconnect, At
  <1>2. CASE Connecting(t)
    BY <1>1, <1>2, TypesOf DEF Disconnect, Connecting, GoTo, ThreadType
  <1>3. CASE ~Connecting(t)
    BY <1>1, <1>3, TypesOf, CloudAssumption DEF Disconnect, Connecting, Return, Idle
  <1>4. QED
    BY <1>2, <1>3

\* The lock is taken by the Connect that registers, and let go when it ends.
LEMMA LockStep ==
  ASSUME CloudTyped, LockInv, CloudNext
  PROVE  LockInv'
  <1> USE TypesOf, CloudAssumption DEF LockInv, Registering, Connecting, At, WellPlaced, Threads
  <1>1. ASSUME NEW t \in Calls, NEW op \in {"connect", "disconnect", "pull", "push"}, Call(t, op)
        PROVE  LockInv'
    BY <1>1 DEF Call, Idle
  <1>2. ASSUME NEW t \in Threads, Disconnect(t) PROVE LockInv'
    BY <1>2, DisconnectMoves DEF Disconnect
  <1>3. ASSUME NEW t \in Threads, Dial(t) PROVE LockInv'
    BY <1>3 DEF Dial
  <1>4. ASSUME NEW t \in Threads, DialFails(t) PROVE LockInv'
    BY <1>4 DEF DialFails, Return, Idle
  <1>5. ASSUME NEW t \in Threads, ConnectEnds(t) PROVE LockInv'
    BY <1>5 DEF ConnectEnds, Idle
  <1>6. ASSUME NEW t \in Threads, Begin(t) PROVE LockInv'
    <2>1. /\ threads[t].op # "connect" /\ threads'[t].op # "connect" /\ mu' = mu
          /\ \A u \in Threads : u # t => threads'[u] = threads[u]
      BY <1>6, BeginsOrReturns DEF Begin
    <2>2. QED
      BY <2>1
  <1>7. ASSUME NEW l \in Loops, LoopTurns(l) PROVE LockInv'
    BY <1>7 DEF LoopTurns
  <1>8. ASSUME NEW l \in Loops, LoopEnds(l) PROVE LockInv'
    BY <1>8 DEF LoopEnds, Return, Idle
  <1>9. ASSUME NEW l \in Loops, Tick(l) PROVE LockInv'
    <2>1. /\ threads[l].op # "connect" /\ threads'[l].op # "connect" /\ mu' = mu
          /\ \A u \in Threads : u # l => threads'[u] = threads[u]
      BY <1>9, BeginsOrReturns DEF Tick
    <2>2. QED
      BY <2>1
  <1>10. ASSUME NEW t \in Threads, Write(t) PROVE LockInv'
    BY <1>10 DEF Write, GoTo
  <1>11. ASSUME NEW t \in Threads, NotConnected(t) PROVE LockInv'
    BY <1>11, AfterReturns DEF NotConnected, Fails
  <1>12. ASSUME NEW t \in Threads, Read(t) PROVE LockInv'
    BY <1>12 DEF Read
  <1>13. ASSUME NEW t \in Threads, ReadFails(t) PROVE LockInv'
    BY <1>13, AfterReturns DEF ReadFails, Fails
  <1>14. ASSUME NEW t \in Threads, Refused(t) PROVE LockInv'
    BY <1>14, AfterReturns DEF Refused, Fails
  <1>15. ASSUME NEW t \in Threads, Answered(t) PROVE LockInv'
    BY <1>15, AfterReturns DEF Answered
  <1>16. ASSUME UNCHANGED serviceVars PROVE LockInv'
    BY <1>16 DEF serviceVars
  <1>17. QED
    BY <1>1, <1>2, <1>3, <1>4, <1>5, <1>6, <1>7, <1>8, <1>9, <1>10, <1>11, <1>12, <1>13, <1>14,
       <1>15, <1>16, ServiceMoves

\* A Connect begins alone or is noted as one that overlaps; it disconnects first of all.
LEMMA OneConnectStep ==
  ASSUME CloudTyped, OneConnect, CloudNext
  PROVE  OneConnect'
  <1> USE TypesOf, CloudAssumption DEF OneConnect, Connecting, At, WellPlaced, Threads
  <1>1. ASSUME NEW t \in Calls, NEW op \in {"connect", "disconnect", "pull", "push"}, Call(t, op)
        PROVE  OneConnect'
    BY <1>1 DEF Call, Idle
  <1>2. ASSUME NEW t \in Threads, Disconnect(t) PROVE OneConnect'
    BY <1>2, DisconnectMoves DEF Disconnect
  <1>3. ASSUME NEW t \in Threads, Dial(t) PROVE OneConnect'
    BY <1>3 DEF Dial
  <1>4. ASSUME NEW t \in Threads, DialFails(t) PROVE OneConnect'
    BY <1>4 DEF DialFails, Return, Idle
  <1>5. ASSUME NEW t \in Threads, ConnectEnds(t) PROVE OneConnect'
    BY <1>5 DEF ConnectEnds, Idle
  <1>6. ASSUME NEW t \in Threads, Begin(t) PROVE OneConnect'
    <2>1. /\ threads[t].op # "connect" /\ threads'[t].op # "connect" /\ UNCHANGED <<client, crossed>>
          /\ \A u \in Threads : u # t => threads'[u] = threads[u]
      BY <1>6, BeginsOrReturns DEF Begin
    <2>2. QED
      BY <2>1
  <1>7. ASSUME NEW l \in Loops, LoopTurns(l) PROVE OneConnect'
    BY <1>7 DEF LoopTurns
  <1>8. ASSUME NEW l \in Loops, LoopEnds(l) PROVE OneConnect'
    BY <1>8 DEF LoopEnds, Return, Idle
  <1>9. ASSUME NEW l \in Loops, Tick(l) PROVE OneConnect'
    <2>1. /\ threads[l].op # "connect" /\ threads'[l].op # "connect" /\ UNCHANGED <<client, crossed>>
          /\ \A u \in Threads : u # l => threads'[u] = threads[u]
      BY <1>9, BeginsOrReturns DEF Tick
    <2>2. QED
      BY <2>1
  <1>10. ASSUME NEW t \in Threads, Write(t) PROVE OneConnect'
    BY <1>10 DEF Write, GoTo
  <1>11. ASSUME NEW t \in Threads, NotConnected(t) PROVE OneConnect'
    BY <1>11, AfterReturns DEF NotConnected, Fails
  <1>12. ASSUME NEW t \in Threads, Read(t) PROVE OneConnect'
    BY <1>12 DEF Read
  <1>13. ASSUME NEW t \in Threads, ReadFails(t) PROVE OneConnect'
    BY <1>13, AfterReturns DEF ReadFails, Fails
  <1>14. ASSUME NEW t \in Threads, Refused(t) PROVE OneConnect'
    BY <1>14, AfterReturns DEF Refused, Fails
  <1>15. ASSUME NEW t \in Threads, Answered(t) PROVE OneConnect'
    BY <1>15, AfterReturns DEF Answered
  <1>16. ASSUME UNCHANGED serviceVars PROVE OneConnect'
    BY <1>16 DEF serviceVars
  <1>17. QED
    BY <1>1, <1>2, <1>3, <1>4, <1>5, <1>6, <1>7, <1>8, <1>9, <1>10, <1>11, <1>12, <1>13, <1>14,
       <1>15, <1>16, ServiceMoves

\* The server does not open or close the client's end.
LEMMA DealsKeepsOpen ==
  ASSUME CloudTyped, NEW s \in 1 .. Sockets, Deals(s)
  PROVE  /\ \A u \in 1 .. Sockets : sockets'[u].up = sockets[u].up
         /\ \A u \in 1 .. Sockets : u # s => sockets'[u] = sockets[u]
  <1>1. CASE HandlerEnds(s)
    BY <1>1, TypesOf DEF HandlerEnds, SocketType
  <1>2. CASE processMessage(s)
    <2> DEFINE m == Head(sockets[s].asked)
    <2>1. PICK ok \in {TRUE, m.op # "connect"} :
            sockets' = [sockets EXCEPT
              ![s].asked = Tail(@),
              ![s].told = IF sockets[s].up THEN Append(@, Answer(m.by, ok)) ELSE @,
              ![s].registered = @ \/ (m.op = "connect" /\ ok)]
      BY <1>2 DEF processMessage
    <2>2. QED
      BY <2>1, TypesOf DEF SocketType
  <1>3. CASE PingsLost(s)
    BY <1>3, TypesOf DEF PingsLost, SocketType
  <1>4. QED
    BY <1>1, <1>2, <1>3 DEF Deals, Serves

\* While the holder of the lock keeps its socket and none is opened, all stay owned.
LEMMA OwnedKept ==
  ASSUME CloudTyped, SocketsAreOwned, UNCHANGED <<client, made, mu>>, crossed => crossed',
         \A s \in 1 .. made : sockets'[s].up => sockets[s].up,
         mu # None => threads'[mu].socket = threads[mu].socket
  PROVE  SocketsAreOwned'
  BY DEF SocketsAreOwned

\* Who fails with the lock leaves its socket shut.
LEMMA FailsOwned ==
  ASSUME CloudTyped, OwnersInv, NEW t \in Threads, ~At(t, None), Fails(t), UNCHANGED made,
         \A s \in 1 .. made : sockets'[s].up => sockets[s].up,
         mu = t => ~sockets'[threads[t].socket].up
  PROVE  SocketsAreOwned'
  <1>1. UNCHANGED <<client, crossed>> /\ threads' = After(t)
    BY DEF Fails
  <1>2. \A u \in Threads : u # t => threads'[u] = threads[u]
    BY <1>1, AfterReturns
  <1>3. CASE mu = t
    BY <1>1, <1>3 DEF OwnersInv, SocketsAreOwned
  <1>4. CASE mu # t
    <2>1. mu' = mu /\ (mu # None => mu \in Threads)
      BY <1>4, TypesOf DEF Fails, Threads
    <2>2. QED
      BY <1>1, <1>2, <1>4, <2>1, OwnedKept DEF OwnersInv
  <1>5. QED
    BY <1>3, <1>4

\* A socket is opened by the Connect that holds the lock, which hands it over or shuts it.
LEMMA OwnersStep ==
  ASSUME CloudTyped, OwnersInv, CloudNext
  PROVE  SocketsAreOwned'
  <1>0. /\ mu # None => mu \in Calls /\ mu \in Threads /\ Registering(mu)
        /\ \A t \in Threads : Registering(t) => mu = t
        /\ SocketsAreOwned
    BY TypesOf DEF OwnersInv, LockInv, Threads
  <1>1. ASSUME NEW t \in Calls, NEW op \in {"connect", "disconnect", "pull", "push"}, Call(t, op)
        PROVE  SocketsAreOwned'
    <2>1. /\ UNCHANGED <<client, made, mu, sockets>> /\ (crossed => crossed')
          /\ t # mu \/ threads'[t].socket = threads[t].socket
          /\ \A u \in Threads : u # t => threads'[u] = threads[u]
      BY <1>1, <1>0, TypesOf, CloudAssumption
      DEF Call, Idle, socketVars, At, Registering, Connecting, ThreadType, Threads
    <2>2. QED
      BY <1>0, <2>1, OwnedKept
  <1>2. ASSUME NEW t \in Threads, Disconnect(t) PROVE SocketsAreOwned'
    <2>1. UNCHANGED <<made, crossed>> /\ mu = None /\ sockets' = Shut(sockets, client) /\ client \in 0 .. made
      BY <1>2, TypesOf DEF Disconnect
    <2>2. ASSUME NEW s \in 1 .. made, sockets'[s].up PROVE crossed
      <3>1. s # client
        BY <2>1, <2>2, ShutOne, TypesOf
      <3>2. sockets[s].up
        BY <2>1, <2>2, <3>1, ShutOne, TypesOf
      <3>3. QED
        BY <1>0, <2>1, <3>1, <3>2 DEF SocketsAreOwned
    <2>3. QED
      BY <2>1, <2>2 DEF SocketsAreOwned
  <1>3. ASSUME NEW t \in Threads, Dial(t) PROVE SocketsAreOwned'
    <2>1. /\ made' = made + 1 /\ mu = None /\ mu' = t /\ UNCHANGED <<client, crossed>>
          /\ threads'[t].socket = made' /\ threads[t].at = "dial" /\ Connecting(t) /\ mu' # None
      BY <1>3, TypesOf, CloudAssumption DEF Dial, At, WellPlaced, ThreadType, Threads, Connecting
    <2>2. ASSUME NEW s \in 1 .. made', sockets'[s].up, s # made' PROVE crossed
      <3>1. s \in 1 .. made /\ sockets[s].up /\ s # 0
        BY <1>3, <2>1, <2>2, TypesOf DEF Dial
      <3>2. s = client \/ crossed
        BY <1>0, <2>1, <3>1 DEF SocketsAreOwned
      <3>3. ~crossed => client = 0
        BY <2>1 DEF OwnersInv, OneConnect, At
      <3>4. QED
        BY <3>1, <3>2, <3>3
    <2>3. QED
      BY <2>1, <2>2 DEF SocketsAreOwned
  <1>4. ASSUME NEW t \in Threads, DialFails(t) PROVE SocketsAreOwned'
    <2>1. /\ UNCHANGED <<client, made, mu, sockets>> /\ (crossed => crossed')
          /\ t # mu \/ threads'[t].socket = threads[t].socket
          /\ \A u \in Threads : u # t => threads'[u] = threads[u]
      BY <1>4, <1>0, TypesOf, CloudAssumption
      DEF DialFails, Return, Idle, socketVars, At, Registering, Connecting, ThreadType, Threads
    <2>2. QED
      BY <1>0, <2>1, OwnedKept
  <1>5. ASSUME NEW t \in Threads, ConnectEnds(t) PROVE SocketsAreOwned'
    <2>1. /\ client' = threads[t].socket /\ UNCHANGED <<made, crossed, sockets>>
          /\ threads[t].at = "answered" /\ Connecting(t)
      BY <1>5 DEF ConnectEnds, At, socketVars
    <2>2. mu = t
      BY <1>0, <2>1 DEF Registering
    <2>3. ~crossed => client = 0
      BY <2>1 DEF OwnersInv, OneConnect, At
    <2>4. QED
      BY <1>0, <2>1, <2>2, <2>3, TypesOf DEF SocketsAreOwned
  <1>6. ASSUME NEW t \in Threads, Begin(t) PROVE SocketsAreOwned'
    <2>1. /\ UNCHANGED <<client, made, mu, sockets, crossed>> /\ threads[t].op # "connect"
          /\ \A u \in Threads : u # t => threads'[u] = threads[u]
      BY <1>6, BeginsOrReturns DEF Begin, socketVars, Threads
    <2>2. mu # t
      BY <1>0, <2>1, CloudAssumption DEF Registering, Connecting, Threads
    <2>3. QED
      BY <1>0, <2>1, <2>2, OwnedKept
  <1>9. ASSUME NEW l \in Loops, Tick(l) PROVE SocketsAreOwned'
    <2>1. /\ UNCHANGED <<client, made, mu, sockets, crossed>> /\ threads[l].op # "connect"
          /\ \A u \in Threads : u # l => threads'[u] = threads[u]
      BY <1>9, BeginsOrReturns DEF Tick, socketVars, Threads
    <2>2. mu # l
      BY <1>0, <2>1, CloudAssumption DEF Registering, Connecting, Threads
    <2>3. QED
      BY <1>0, <2>1, <2>2, OwnedKept
  <1>7. ASSUME NEW l \in Loops, LoopTurns(l) PROVE SocketsAreOwned'
    <2>1. /\ UNCHANGED <<client, made, mu, sockets>> /\ (crossed => crossed')
          /\ l # mu \/ threads'[l].socket = threads[l].socket
          /\ \A u \in Threads : u # l => threads'[u] = threads[u]
      BY <1>7, <1>0, TypesOf, CloudAssumption
      DEF LoopTurns, socketVars, At, Registering, Connecting, ThreadType, Threads
    <2>2. QED
      BY <1>0, <2>1, OwnedKept
  <1>8. ASSUME NEW l \in Loops, LoopEnds(l) PROVE SocketsAreOwned'
    <2>1. /\ UNCHANGED <<client, made, mu, sockets>> /\ (crossed => crossed')
          /\ l # mu \/ threads'[l].socket = threads[l].socket
          /\ \A u \in Threads : u # l => threads'[u] = threads[u]
      BY <1>8, <1>0, TypesOf, CloudAssumption
      DEF LoopEnds, Return, Idle, socketVars, At, Registering, Connecting, ThreadType, Threads
    <2>2. QED
      BY <1>0, <2>1, OwnedKept
  <1>10. ASSUME NEW t \in Threads, Write(t) PROVE SocketsAreOwned'
    <2>1. /\ UNCHANGED <<client, made, mu, crossed>>
          /\ \A s \in 1 .. made : sockets'[s].up => sockets[s].up
      BY <1>10, TypesOf DEF Write, SocketType
    <2>2. \A u \in Threads : threads'[u].socket = threads[u].socket
      BY <1>10, TypesOf DEF Write, GoTo, ThreadType
    <2>3. QED
      BY <1>0, <2>1, <2>2, OwnedKept
  <1>11. ASSUME NEW t \in Threads, NotConnected(t) PROVE SocketsAreOwned'
    <2>1. Fails(t) /\ UNCHANGED <<made, sockets>> /\ ~At(t, None) /\ ~sockets[threads[t].socket].up
      BY <1>11, CloudAssumption DEF NotConnected, At, socketVars
    <2>2. QED
      BY <2>1, FailsOwned
  <1>12. ASSUME NEW t \in Threads, Read(t) PROVE SocketsAreOwned'
    <2>1. /\ UNCHANGED <<client, made, mu, crossed>>
          /\ \A s \in 1 .. made : sockets'[s].up => sockets[s].up
      BY <1>12, TypesOf DEF Read, SocketType
    <2>2. \A u \in Threads : threads'[u].socket = threads[u].socket
      BY <1>12, TypesOf DEF Read, ThreadType
    <2>3. QED
      BY <1>0, <2>1, <2>2, OwnedKept
  <1>13. ASSUME NEW t \in Threads, ReadFails(t) \/ Refused(t) PROVE SocketsAreOwned'
    <2>1. /\ Fails(t) /\ UNCHANGED made /\ ~At(t, None)
          /\ sockets' = Shut(sockets, threads[t].socket)
          /\ threads[t].at \in {"read", "answered"}
      BY <1>13, CloudAssumption DEF ReadFails, Refused, At
    <2>2. threads[t].socket \in 1 .. made /\ threads[t].socket \in 0 .. made /\ threads[t].socket # 0
      BY <2>1, TypesOf DEF WellPlaced
    <2>3. \A s \in 1 .. made : sockets'[s].up => sockets[s].up
      BY <2>1, <2>2, ShutOne, TypesOf
    <2>4. QED
      BY <2>1, <2>2, <2>3, ShutOne, FailsOwned
  <1>14. ASSUME NEW t \in Threads, Answered(t) PROVE SocketsAreOwned'
    <2>1. /\ UNCHANGED <<client, made, mu, sockets, crossed>> /\ threads[t].op # "connect"
          /\ threads' = After(t) /\ ~At(t, None)
      BY <1>14, CloudAssumption DEF Answered, socketVars, At, Connecting
    <2>2. mu # t /\ \A u \in Threads : u # t => threads'[u] = threads[u]
      BY <1>0, <2>1, AfterReturns, CloudAssumption DEF Registering, Connecting, Threads
    <2>3. QED
      BY <1>0, <2>1, <2>2, OwnedKept
  <1>15. ASSUME NEW s \in 1 .. Sockets, Deals(s), UNCHANGED <<serviceVars, made>>
         PROVE  SocketsAreOwned'
    <2>1. \A u \in 1 .. Sockets : sockets'[u].up = sockets[u].up
      BY <1>15, DealsKeepsOpen
    <2>2. QED
      BY <1>0, <1>15, <2>1, TypesOf, OwnedKept DEF serviceVars
  <1>16. ASSUME RestartServer, UNCHANGED <<serviceVars, made>> PROVE SocketsAreOwned'
    <2>1. \A u \in 1 .. Sockets : sockets'[u].up = sockets[u].up
      BY <1>16, TypesOf DEF RestartServer, SocketType
    <2>2. QED
      BY <1>0, <1>16, <2>1, TypesOf, OwnedKept DEF serviceVars
  <1>17. ASSUME UNCHANGED <<serviceVars, socketVars>> PROVE SocketsAreOwned'
    BY <1>0, <1>17 DEF SocketsAreOwned, serviceVars, socketVars
  <1>18. QED
    BY <1>1, <1>2, <1>3, <1>4, <1>5, <1>6, <1>7, <1>8, <1>9, <1>10, <1>11, <1>12, <1>13, <1>14,
       <1>15, <1>16, <1>17, ServiceMoves

\* For every number of calls, loops and sockets: unless two Connects overlapped, an open socket
\* is the one in use or is being made by the call that holds the lock; the lock is held by the
\* Connect that registers and by nobody else.
THEOREM NoSocketLeft == CloudSpec => [](LockInv /\ SocketsAreOwned)
  <1>1. CloudInit => OwnersInv
    BY CloudAssumption
    DEF CloudInit, OwnersInv, LockInv, OneConnect, SocketsAreOwned, Registering, Connecting,
        Idle, At, Threads
  <1>2. CloudTyped /\ OwnersInv /\ [CloudNext]_cloudVars => OwnersInv'
    <2>1. ASSUME CloudTyped, OwnersInv, CloudNext PROVE OwnersInv'
      BY <2>1, LockStep, OneConnectStep, OwnersStep DEF OwnersInv
    <2>2. ASSUME OwnersInv, UNCHANGED cloudVars PROVE OwnersInv'
      BY <2>2
      DEF OwnersInv, LockInv, OneConnect, SocketsAreOwned, Registering, Connecting, At,
          cloudVars, serviceVars, socketVars
    <2>3. QED
      BY <2>1, <2>2
  <1>3. OwnersInv => LockInv /\ SocketsAreOwned
    BY DEF OwnersInv
  <1>4. QED
    BY <1>1, <1>2, <1>3, CloudIsTyped, PTL DEF CloudSpec

-----------------------------------------------------------------------------
\* What a step leaves alone: who waits where, what is on its way, and who has an answer.
SameWaits ==
  \A u \in Threads : /\ At(u, "read")' <=> At(u, "read")
                     /\ At(u, "read") => threads'[u].socket = threads[u].socket
SameMail(s) ==
  sockets'[s].up => sockets[s].up /\ sockets'[s].asked = sockets[s].asked /\ sockets'[s].told = sockets[s].told
SameAnswers == \A u \in Threads : At(u, "answered")' => threads'[u] = threads[u]

\* Answers that were read stay, and no shared socket becomes unshared.
LEMMA AnswersKept ==
  ASSUME AnswersAreOwn, SameAnswers, shared \subseteq shared'
  PROVE  AnswersAreOwn'
  BY DEF AnswersAreOwn, SameAnswers, At

\* A step that leaves who waits, and what is on its way, disturbs nothing.
LEMMA QuietKept ==
  ASSUME QuietInv, SameWaits, UNCHANGED <<made, shared>>, \A s \in 1 .. made : SameMail(s)
  PROVE  QuietInv'
  <1>1. \A s : Sending(s)' = Sending(s)
    BY DEF SameWaits, Sending, At
  <1>2. QED
    BY <1>1 DEF QuietInv, SameMail, OfReader

\* A thread that neither waits before nor after changes nothing of this.
LEMMA MovesQuietly ==
  ASSUME NEW t \in Threads, \A u \in Threads : u # t => threads'[u] = threads[u],
         threads[t].at # "read", threads'[t].at \notin {"read", "answered"}
  PROVE  SameWaits /\ SameAnswers
  BY DEF SameWaits, SameAnswers, At

\* The steps that neither write nor read.
LEMMA QuietSteps ==
  ASSUME CloudTyped, AnswersInv, CloudNext
  PROVE  \/ AnswersInv'
         \/ \E t \in Threads : Dial(t) \/ Write(t) \/ Read(t) \/ ReadFails(t)
         \/ \E s \in 1 .. Sockets : Deals(s) /\ UNCHANGED <<serviceVars, made, shared>>
         \/ RestartServer /\ UNCHANGED <<serviceVars, made, shared>>
  <1>1. ASSUME NEW t \in Calls, NEW op \in {"connect", "disconnect", "pull", "push"}, Call(t, op)
        PROVE  AnswersInv'
    <2>1. /\ \A u \in Threads : u # t => threads'[u] = threads[u]
          /\ t \in Threads /\ threads[t].at # "read" /\ threads'[t].at \notin {"read", "answered"}
      BY <1>1, TypesOf, CloudAssumption DEF Call, Idle, At, ThreadType, Threads
    <2>2. SameWaits /\ SameAnswers
      BY <2>1, MovesQuietly
    <2>3. UNCHANGED <<made, shared>> /\ \A s \in 1 .. made : SameMail(s)
      BY <1>1 DEF Call, Idle, socketVars, SameMail
    <2>4. QED
      BY <2>2, <2>3, QuietKept, AnswersKept DEF AnswersInv
  <1>2. ASSUME NEW t \in Threads, Disconnect(t) PROVE AnswersInv'
    <2>1. /\ \A u \in Threads : u # t => threads'[u] = threads[u]
          /\ t \in Threads /\ threads[t].at # "read" /\ threads'[t].at \notin {"read", "answered"}
      BY <1>2, TypesOf, CloudAssumption, DisconnectMoves DEF Disconnect, At, ThreadType, Threads
    <2>2. SameWaits /\ SameAnswers
      BY <2>1, MovesQuietly
    <2>3. UNCHANGED <<made, shared>> /\ \A s \in 1 .. made : SameMail(s)
      <3>1. PICK c \in 0 .. made : sockets' = Shut(sockets, c) /\ UNCHANGED <<made, shared>>
        BY <1>2, TypesOf DEF Disconnect, At, WellPlaced
      <3>2. QED
        BY <3>1, ShutOne, TypesOf DEF SameMail
    <2>4. QED
      BY <2>2, <2>3, QuietKept, AnswersKept DEF AnswersInv
  <1>3. ASSUME NEW t \in Threads, DialFails(t) PROVE AnswersInv'
    <2>1. /\ \A u \in Threads : u # t => threads'[u] = threads[u]
          /\ t \in Threads /\ threads[t].at # "read" /\ threads'[t].at \notin {"read", "answered"}
      BY <1>3, TypesOf, CloudAssumption DEF DialFails, Return, Idle, At, ThreadType, Threads
    <2>2. SameWaits /\ SameAnswers
      BY <2>1, MovesQuietly
    <2>3. UNCHANGED <<made, shared>> /\ \A s \in 1 .. made : SameMail(s)
      BY <1>3 DEF DialFails, Return, Idle, socketVars, SameMail
    <2>4. QED
      BY <2>2, <2>3, QuietKept, AnswersKept DEF AnswersInv
  <1>4. ASSUME NEW t \in Threads, Begin(t) PROVE AnswersInv'
    <2>1. /\ \A u \in Threads : u # t => threads'[u] = threads[u]
          /\ t \in Threads /\ threads[t].at # "read" /\ threads'[t].at \notin {"read", "answered"}
      BY <1>4, TypesOf, CloudAssumption, BeginsOrReturns DEF Begin, At, ThreadType, Threads
    <2>2. SameWaits /\ SameAnswers
      BY <2>1, MovesQuietly
    <2>3. UNCHANGED <<made, shared>> /\ \A s \in 1 .. made : SameMail(s)
      BY <1>4 DEF Begin, socketVars, SameMail
    <2>4. QED
      BY <2>2, <2>3, QuietKept, AnswersKept DEF AnswersInv
  <1>5. ASSUME NEW l \in Loops, LoopTurns(l) PROVE AnswersInv'
    <2>1. /\ \A u \in Threads : u # l => threads'[u] = threads[u]
          /\ l \in Threads /\ threads[l].at # "read" /\ threads'[l].at \notin {"read", "answered"}
      BY <1>5, TypesOf, CloudAssumption DEF LoopTurns, At, ThreadType, Threads
    <2>2. SameWaits /\ SameAnswers
      BY <2>1, MovesQuietly
    <2>3. UNCHANGED <<made, shared>> /\ \A s \in 1 .. made : SameMail(s)
      BY <1>5 DEF LoopTurns, socketVars, SameMail
    <2>4. QED
      BY <2>2, <2>3, QuietKept, AnswersKept DEF AnswersInv
  <1>6. ASSUME NEW l \in Loops, LoopEnds(l) PROVE AnswersInv'
    <2>1. /\ \A u \in Threads : u # l => threads'[u] = threads[u]
          /\ l \in Threads /\ threads[l].at # "read" /\ threads'[l].at \notin {"read", "answered"}
      BY <1>6, TypesOf, CloudAssumption DEF LoopEnds, Return, Idle, At, ThreadType, Threads
    <2>2. SameWaits /\ SameAnswers
      BY <2>1, MovesQuietly
    <2>3. UNCHANGED <<made, shared>> /\ \A s \in 1 .. made : SameMail(s)
      BY <1>6 DEF LoopEnds, Return, Idle, socketVars, SameMail
    <2>4. QED
      BY <2>2, <2>3, QuietKept, AnswersKept DEF AnswersInv
  <1>7. ASSUME NEW l \in Loops, Tick(l) PROVE AnswersInv'
    <2>1. /\ \A u \in Threads : u # l => threads'[u] = threads[u]
          /\ l \in Threads /\ threads[l].at # "read" /\ threads'[l].at \notin {"read", "answered"}
      BY <1>7, TypesOf, CloudAssumption, BeginsOrReturns DEF Tick, At, ThreadType, Threads
    <2>2. SameWaits /\ SameAnswers
      BY <2>1, MovesQuietly
    <2>3. UNCHANGED <<made, shared>> /\ \A s \in 1 .. made : SameMail(s)
      BY <1>7 DEF Tick, socketVars, SameMail
    <2>4. QED
      BY <2>2, <2>3, QuietKept, AnswersKept DEF AnswersInv
  <1>8. ASSUME NEW t \in Threads, NotConnected(t) PROVE AnswersInv'
    <2>1. /\ \A u \in Threads : u # t => threads'[u] = threads[u]
          /\ t \in Threads /\ threads[t].at # "read" /\ threads'[t].at \notin {"read", "answered"}
      BY <1>8, TypesOf, CloudAssumption, AfterReturns
      DEF NotConnected, Fails, At, ThreadType, Threads
    <2>2. SameWaits /\ SameAnswers
      BY <2>1, MovesQuietly
    <2>3. UNCHANGED <<made, shared>> /\ \A s \in 1 .. made : SameMail(s)
      BY <1>8 DEF NotConnected, Fails, socketVars, SameMail
    <2>4. QED
      BY <2>2, <2>3, QuietKept, AnswersKept DEF AnswersInv
  <1>9. ASSUME NEW t \in Threads, Refused(t) PROVE AnswersInv'
    <2>1. /\ \A u \in Threads : u # t => threads'[u] = threads[u]
          /\ t \in Threads /\ threads[t].at # "read" /\ threads'[t].at \notin {"read", "answered"}
      BY <1>9, TypesOf, CloudAssumption, AfterReturns DEF Refused, Fails, At, ThreadType, Threads
    <2>2. SameWaits /\ SameAnswers
      BY <2>1, MovesQuietly
    <2>3. UNCHANGED <<made, shared>> /\ \A s \in 1 .. made : SameMail(s)
      <3>1. PICK c \in 0 .. made : sockets' = Shut(sockets, c) /\ UNCHANGED <<made, shared>>
        BY <1>9, TypesOf DEF Refused, Fails, At, WellPlaced
      <3>2. QED
        BY <3>1, ShutOne, TypesOf DEF SameMail
    <2>4. QED
      BY <2>2, <2>3, QuietKept, AnswersKept DEF AnswersInv
  <1>10. ASSUME NEW t \in Threads, Answered(t) PROVE AnswersInv'
    <2>1. /\ \A u \in Threads : u # t => threads'[u] = threads[u]
          /\ t \in Threads /\ threads[t].at # "read" /\ threads'[t].at \notin {"read", "answered"}
      BY <1>10, TypesOf, CloudAssumption, AfterReturns DEF Answered, At, ThreadType, Threads
    <2>2. SameWaits /\ SameAnswers
      BY <2>1, MovesQuietly
    <2>3. UNCHANGED <<made, shared>> /\ \A s \in 1 .. made : SameMail(s)
      BY <1>10 DEF Answered, socketVars, SameMail
    <2>4. QED
      BY <2>2, <2>3, QuietKept, AnswersKept DEF AnswersInv
  <1>11. ASSUME NEW t \in Threads, ConnectEnds(t) PROVE AnswersInv'
    <2>1. SameWaits /\ SameAnswers
      BY <1>11, TypesOf, CloudAssumption
      DEF ConnectEnds, Idle, SameWaits, SameAnswers, At, ThreadType, Threads
    <2>2. UNCHANGED <<made, shared>> /\ \A s \in 1 .. made : SameMail(s)
      BY <1>11 DEF ConnectEnds, socketVars, SameMail
    <2>3. QED
      BY <2>1, <2>2, QuietKept, AnswersKept DEF AnswersInv
  <1>12. ASSUME UNCHANGED <<serviceVars, socketVars>> PROVE AnswersInv'
    BY <1>12
    DEF AnswersInv, QuietInv, AnswersAreOwn, OfReader, Sending, At, serviceVars, socketVars
  <1>13. QED
    BY <1>1, <1>2, <1>3, <1>4, <1>5, <1>6, <1>7, <1>8, <1>9, <1>10, <1>11, <1>12, ServiceMoves

\* Nobody waits on a socket that is just made, and nothing is on its way.
LEMMA DialQuietly ==
  ASSUME CloudTyped, AnswersInv, NEW t \in Threads, Dial(t)
  PROVE  AnswersInv'
  <1>1. /\ \A u \in Threads : u # t => threads'[u] = threads[u]
        /\ threads[t].at = "dial" /\ threads'[t].at = "write"
        /\ made' = made + 1 /\ made' \in 1 .. Sockets /\ UNCHANGED shared
    BY TypesOf DEF Dial, At, ThreadType
  <1>2. SameWaits /\ SameAnswers
    BY <1>1, MovesQuietly
  <1>3. \A s : Sending(s)' = Sending(s)
    BY <1>2 DEF SameWaits, Sending, At
  <1>4. Sending(made') = {}
    BY <1>1, TypesOf DEF Sending, At, WellPlaced
  <1>5. sockets'[made'].asked = <<>> /\ sockets'[made'].told = <<>>
    <2>1. sockets[made'] = NoSocket
      BY <1>1, TypesOf DEF CloudTyped, SocketsTyped
    <2>2. NoSocket.asked = <<>> /\ NoSocket.told = <<>>
      BY DEF NoSocket
    <2>3. QED
      BY <1>1, <2>1, <2>2, TypesOf DEF Dial, SocketType
  <1>6. \A s \in 1 .. made : s \in 1 .. Sockets /\ s # made' /\ sockets'[s] = sockets[s]
    BY <1>1, TypesOf DEF Dial
  <1>7. ASSUME NEW s \in (1 .. made') \ shared'
        PROVE  /\ \A v, u \in Sending(s)' : v = u
               /\ sockets'[s].up => /\ OfReader(s, sockets[s].asked)'
                                    /\ OfReader(s, sockets[s].told)'
                                    /\ sockets'[s].asked = <<>> \/ sockets'[s].told = <<>>
    <2>1. CASE s = made'
      BY <1>3, <1>4, <1>5, <2>1 DEF OfReader
    <2>2. CASE s # made'
      <3>1. s \in (1 .. made) \ shared
        BY <1>1, <1>7, <2>2, TypesOf
      <3>2. QED
        BY <1>3, <1>6, <3>1 DEF AnswersInv, QuietInv, OfReader
    <2>3. QED
      BY <2>1, <2>2
  <1>8. QED
    BY <1>1, <1>2, <1>7, AnswersKept DEF AnswersInv, QuietInv

\* A thread that writes where nobody waits finds nothing on its way; where somebody does, the
\* socket is noted as shared.
LEMMA WriteQuietly ==
  ASSUME CloudTyped, AnswersInv, NEW t \in Threads, Write(t)
  PROVE  AnswersInv'
  <1>0. PICK s \in 1 .. made : s = threads[t].socket
    BY TypesOf DEF Write, At, WellPlaced
  <1>1. s \in 1 .. made /\ s \in 1 .. Sockets /\ UNCHANGED made /\ threads[t].at = "write" /\ sockets[s].up
    BY <1>0, TypesOf DEF Write, At, WellPlaced
  <1>2. /\ threads'[t].at = "read" /\ threads'[t].socket = s
        /\ \A u \in Threads : u # t => threads'[u] = threads[u]
    BY <1>0, TypesOf DEF Write, GoTo, ThreadType
  <1>3. shared' = (IF Sending(s) = {} THEN shared ELSE shared \cup {s})
    BY <1>0 DEF Write
  <1>4. PICK hosts \in SUBSET Hosts :
          sockets' = IF sockets[s].handler
                     THEN [sockets EXCEPT ![s].asked =
                             Append(@, [by |-> t, op |-> threads[t].op, hosts |-> hosts])]
                     ELSE sockets
    BY <1>0 DEF Write
  <1> DEFINE m == [by |-> t, op |-> threads[t].op, hosts |-> hosts]
  <1>5. /\ \A u \in 1 .. Sockets : u # s => sockets'[u] = sockets[u]
        /\ sockets'[s].told = sockets[s].told
        /\ sockets'[s].asked \in {sockets[s].asked, Append(sockets[s].asked, m)}
    BY <1>0, <1>1, <1>4, TypesOf DEF SocketType
  <1>6. \A u : u # s => Sending(u)' = Sending(u)
    BY <1>0, <1>1, <1>2 DEF Sending, At
  <1>7. Sending(s)' = Sending(s) \cup {t}
    BY <1>0, <1>1, <1>2 DEF Sending, At
  <1>8. ASSUME NEW u \in (1 .. made') \ shared'
        PROVE  /\ \A v, w \in Sending(u)' : v = w
               /\ sockets'[u].up => /\ OfReader(u, sockets[u].asked)'
                                    /\ OfReader(u, sockets[u].told)'
                                    /\ sockets'[u].asked = <<>> \/ sockets'[u].told = <<>>
    <2>1. u \in (1 .. made) \ shared /\ u \in 1 .. Sockets
      BY <1>1, <1>3, <1>8, TypesOf
    <2>2. CASE u # s
      BY <1>5, <1>6, <2>1, <2>2 DEF AnswersInv, QuietInv, OfReader
    <2>3. CASE u = s
      <3>1. Sending(s) = {} /\ Sending(s)' = {t}
        BY <1>3, <1>7, <1>8, <2>3
      <3>2. sockets[s].asked = <<>> /\ sockets[s].told = <<>>
        BY <1>1, <2>1, <2>3, <3>1 DEF AnswersInv, QuietInv, OfReader
      <3>3. m \in Requests /\ m.by = t
        BY RequestTyped
      <3> HIDE DEF m
      <3>4. Len(Append(<<>>, m)) = 1 /\ Append(<<>>, m)[1] = m
        BY <3>3, EmptySeq, AppendProperties
      <3>5. sockets'[s].asked = <<>> \/ sockets'[s].asked = Append(<<>>, m)
        BY <1>5, <3>2
      <3>6. QED
        BY <1>5, <2>3, <3>1, <3>2, <3>3, <3>4, <3>5 DEF OfReader
    <2>4. QED
      BY <2>2, <2>3
  <1>9. SameAnswers /\ shared \subseteq shared'
    BY <1>2, <1>3 DEF SameAnswers, At
  <1>10. QED
    BY <1>8, <1>9, AnswersKept DEF AnswersInv, QuietInv

\* Who waits alone reads what it asked for, and leaves nothing on its way.
LEMMA ReadQuietly ==
  ASSUME CloudTyped, AnswersInv, NEW t \in Threads, Read(t)
  PROVE  AnswersInv'
  <1>0. PICK s \in 1 .. made : s = threads[t].socket
    BY TypesOf DEF Read, At, WellPlaced
  <1>1. /\ s \in 1 .. made /\ s \in 1 .. Sockets /\ UNCHANGED <<made, shared>>
        /\ threads[t].at = "read" /\ sockets[s].up /\ sockets[s].told # <<>>
    BY <1>0, TypesOf DEF Read, At, WellPlaced
  <1>2. /\ threads'[t].at = "answered" /\ threads'[t].socket = s
        /\ threads'[t].answer = Head(sockets[s].told)
        /\ \A u \in Threads : u # t => threads'[u] = threads[u]
    BY <1>0, TypesOf DEF Read, ThreadType
  <1>3. /\ \A u \in 1 .. Sockets : u # s => sockets'[u] = sockets[u]
        /\ sockets'[s].asked = sockets[s].asked
        /\ sockets'[s].told = Tail(sockets[s].told)
    BY <1>0, <1>1, TypesOf DEF Read, SocketType
  <1>4. sockets[s].told \in Seq(Answers)
    BY <1>1, TypesOf DEF SocketType
  <1>5. \A u : Sending(u)' = Sending(u) \ {t}
    BY <1>0, <1>1, <1>2 DEF Sending, At
  <1>6. t \in Sending(s) /\ \A u : u # s => Sending(u)' = Sending(u)
    BY <1>0, <1>1, <1>2 DEF Sending, At
  <1>7. ASSUME s \notin shared
        PROVE  /\ Sending(s)' = {} /\ Head(sockets[s].told).by = t
               /\ Tail(sockets[s].told) = <<>> /\ sockets[s].asked = <<>>
    <2>1. /\ Len(sockets[s].told) = 1 /\ sockets[s].told[1].by \in Sending(s)
          /\ \A v, w \in Sending(s) : v = w
          /\ sockets[s].asked = <<>>
      BY <1>1, <1>7 DEF AnswersInv, QuietInv, OfReader
    <2>2. Head(sockets[s].told) = sockets[s].told[1]
      BY <1>1, <1>4
    <2>3. Tail(sockets[s].told) = <<>>
      <3>1. Tail(sockets[s].told) \in Seq(Answers) /\ Len(Tail(sockets[s].told)) = 0
        BY <1>1, <1>4, <2>1, HeadTailProperties
      <3>2. QED
        BY <3>1, EmptySeq
    <2>4. QED
      BY <1>5, <1>6, <2>1, <2>2, <2>3
  <1>8. ASSUME NEW u \in (1 .. made') \ shared'
        PROVE  /\ \A v, w \in Sending(u)' : v = w
               /\ sockets'[u].up => /\ OfReader(u, sockets[u].asked)'
                                    /\ OfReader(u, sockets[u].told)'
                                    /\ sockets'[u].asked = <<>> \/ sockets'[u].told = <<>>
    <2>1. u \in (1 .. made) \ shared /\ u \in 1 .. Sockets
      BY <1>1, <1>8, TypesOf
    <2>2. CASE u # s
      BY <1>3, <1>6, <2>1, <2>2 DEF AnswersInv, QuietInv, OfReader
    <2>3. CASE u = s
      BY <1>3, <1>7, <2>1, <2>3 DEF OfReader
    <2>4. QED
      BY <2>2, <2>3
  <1>9. AnswersAreOwn'
    BY <1>1, <1>2, <1>7 DEF AnswersInv, AnswersAreOwn, At
  <1>10. QED
    BY <1>8, <1>9 DEF AnswersInv, QuietInv

\* Who gives up shuts the socket, so that nothing reaches the next one that waits.
LEMMA GivesUpQuietly ==
  ASSUME CloudTyped, AnswersInv, NEW t \in Threads, ReadFails(t)
  PROVE  AnswersInv'
  <1>0. PICK s \in 1 .. made : s = threads[t].socket
    BY TypesOf DEF ReadFails, At, WellPlaced
  <1>1. /\ s \in 0 .. made /\ s # 0 /\ UNCHANGED <<made, shared>>
        /\ threads[t].at = "read" /\ ~At(t, None) /\ sockets' = Shut(sockets, s)
    BY <1>0, TypesOf, CloudAssumption DEF ReadFails, At, WellPlaced
  <1>2. /\ threads'[t].at \in {None, "top"}
        /\ \A u \in Threads : u # t => threads'[u] = threads[u]
    BY <1>1, AfterReturns DEF ReadFails, Fails
  <1>3. /\ \A u \in 1 .. Sockets : u # s => sockets'[u] = sockets[u]
        /\ ~sockets'[s].up
    BY <1>1, ShutOne
  <1>4. \A u : Sending(u)' \subseteq Sending(u) /\ (u # s => Sending(u)' = Sending(u))
    BY <1>0, <1>1, <1>2, CloudAssumption DEF Sending, At
  <1>5. ASSUME NEW u \in (1 .. made') \ shared'
        PROVE  /\ \A v, w \in Sending(u)' : v = w
               /\ sockets'[u].up => /\ OfReader(u, sockets[u].asked)'
                                    /\ OfReader(u, sockets[u].told)'
                                    /\ sockets'[u].asked = <<>> \/ sockets'[u].told = <<>>
    <2>1. u \in (1 .. made) \ shared /\ u \in 1 .. Sockets
      BY <1>1, <1>5, TypesOf
    <2>2. QED
      BY <1>3, <1>4, <2>1 DEF AnswersInv, QuietInv, OfReader
  <1>6. SameAnswers
    BY <1>2, CloudAssumption DEF SameAnswers, At
  <1>7. QED
    BY <1>1, <1>5, <1>6, AnswersKept DEF AnswersInv, QuietInv

\* A handler answers who asked, and the question is no longer on its way.
LEMMA DealsQuietly ==
  ASSUME CloudTyped, AnswersInv, NEW s \in 1 .. Sockets, Deals(s), UNCHANGED <<serviceVars, made, shared>>
  PROVE  AnswersInv'
  <1>1. UNCHANGED <<threads, made, shared>> /\ \A u : Sending(u)' = Sending(u)
    BY DEF serviceVars, Sending, At
  <1>2. /\ \A u \in 1 .. Sockets : sockets'[u].up = sockets[u].up
        /\ \A u \in 1 .. Sockets : u # s => sockets'[u] = sockets[u]
    BY DealsKeepsOpen
  <1>3. ASSUME s \in (1 .. made) \ shared, sockets[s].up
        PROVE  /\ OfReader(s, sockets[s].asked)'
               /\ OfReader(s, sockets[s].told)'
               /\ sockets'[s].asked = <<>> \/ sockets'[s].told = <<>>
    <2>1. CASE HandlerEnds(s)
      <3>1. sockets'[s].asked = sockets[s].asked /\ sockets'[s].told = sockets[s].told
        BY <2>1, TypesOf DEF HandlerEnds, SocketType
      <3>2. QED
        BY <1>1, <1>3, <3>1 DEF AnswersInv, QuietInv, OfReader
    <2>2. CASE processMessage(s)
      <3> DEFINE q == sockets[s].asked
                 m == Head(q)
      <3>1. PICK ok \in {TRUE, m.op # "connect"} :
              sockets' = [sockets EXCEPT
                ![s].asked = Tail(@),
                ![s].told = IF sockets[s].up THEN Append(@, Answer(m.by, ok)) ELSE @,
                ![s].registered = @ \/ (m.op = "connect" /\ ok)]
        BY <2>2 DEF processMessage
      <3>2. q # <<>> /\ q \in Seq(Requests)
        BY <2>2, TypesOf DEF processMessage, SocketType
      <3>3. sockets'[s].asked = Tail(q) /\ sockets'[s].told = Append(sockets[s].told, Answer(m.by, ok))
        BY <1>3, <3>1, TypesOf DEF SocketType
      <3>4. Len(q) = 1 /\ q[1].by \in Sending(s) /\ sockets[s].told = <<>>
        BY <1>3, <3>2 DEF AnswersInv, QuietInv, OfReader
      <3> HIDE DEF q
      <3>5. Tail(q) = <<>> /\ m = q[1]
        <4>1. Tail(q) \in Seq(Requests) /\ Len(Tail(q)) = 0
          BY <3>2, <3>4, HeadTailProperties
        <4>2. Tail(q) = <<>>
          BY <4>1, EmptySeq
        <4>3. QED
          BY <3>2, <4>2
      <3>6. Answer(m.by, ok).by = m.by
        BY DEF Answer
      <3> HIDE DEF m
      <3>7. Len(Append(<<>>, Answer(m.by, ok))) = 1 /\ Append(<<>>, Answer(m.by, ok))[1] = Answer(m.by, ok)
        BY EmptySeq, AppendProperties
      <3>8. QED
        BY <1>1, <3>3, <3>4, <3>5, <3>6, <3>7 DEF OfReader
    <2>3. CASE PingsLost(s)
      <3>1. sockets'[s].asked = <<>> /\ sockets'[s].told = sockets[s].told
        BY <2>3, TypesOf DEF PingsLost, SocketType
      <3>2. QED
        BY <1>1, <1>3, <3>1 DEF AnswersInv, QuietInv, OfReader
    <2>4. QED
      BY <2>1, <2>2, <2>3 DEF Deals, Serves
  <1>4. ASSUME NEW u \in (1 .. made') \ shared'
        PROVE  /\ \A v, w \in Sending(u)' : v = w
               /\ sockets'[u].up => /\ OfReader(u, sockets[u].asked)'
                                    /\ OfReader(u, sockets[u].told)'
                                    /\ sockets'[u].asked = <<>> \/ sockets'[u].told = <<>>
    <2>1. u \in (1 .. made) \ shared /\ u \in 1 .. Sockets
      BY <1>1, <1>4, TypesOf
    <2>2. CASE u # s
      BY <1>1, <1>2, <2>1, <2>2 DEF AnswersInv, QuietInv, OfReader
    <2>3. CASE u = s
      BY <1>1, <1>2, <1>3, <2>1, <2>3 DEF AnswersInv, QuietInv
    <2>4. QED
      BY <2>2, <2>3
  <1>5. AnswersAreOwn'
    BY <1>1 DEF AnswersInv, AnswersAreOwn, At
  <1>6. QED
    BY <1>4, <1>5 DEF AnswersInv, QuietInv

\* A server that dies takes the questions with it.
LEMMA RestartsQuietly ==
  ASSUME CloudTyped, AnswersInv, RestartServer, UNCHANGED <<serviceVars, made, shared>>
  PROVE  AnswersInv'
  <1>1. UNCHANGED <<threads, made, shared>> /\ \A u : Sending(u)' = Sending(u)
    BY DEF serviceVars, Sending, At
  <1>2. \A u \in 1 .. Sockets : /\ sockets'[u].up = sockets[u].up /\ sockets'[u].told = sockets[u].told
                                /\ sockets'[u].asked = <<>>
    BY TypesOf DEF RestartServer, SocketType
  <1>3. \A u \in 1 .. made : u \in 1 .. Sockets
    BY TypesOf
  <1>4. QED
    BY <1>1, <1>2, <1>3 DEF AnswersInv, QuietInv, AnswersAreOwn, OfReader, At

\* For every number of calls, loops, sockets, failures and restarts: send returns the answer to
\* its own question, unless two sends overlapped on the client.
THEOREM OwnAnswers == CloudSpec => []AnswersAreOwn
  <1>1. CloudInit => AnswersInv
    BY CloudAssumption DEF CloudInit, AnswersInv, QuietInv, AnswersAreOwn, Sending, Idle, At
  <1>2. CloudTyped /\ AnswersInv /\ [CloudNext]_cloudVars => AnswersInv'
    <2>1. ASSUME CloudTyped, AnswersInv, CloudNext PROVE AnswersInv'
      BY <2>1, QuietSteps, DialQuietly, WriteQuietly, ReadQuietly, GivesUpQuietly, DealsQuietly,
         RestartsQuietly
    <2>2. ASSUME AnswersInv, UNCHANGED cloudVars PROVE AnswersInv'
      BY <2>2
      DEF AnswersInv, QuietInv, AnswersAreOwn, OfReader, Sending, At, cloudVars, serviceVars,
          socketVars
    <2>3. QED
      BY <2>1, <2>2
  <1>3. AnswersInv => AnswersAreOwn
    BY DEF AnswersInv
  <1>4. QED
    BY <1>1, <1>2, <1>3, CloudIsTyped, PTL DEF CloudSpec
=============================================================================

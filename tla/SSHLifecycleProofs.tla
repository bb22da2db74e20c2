------------------------- MODULE SSHLifecycleProofs -------------------------
(***************************************************************************)
(* Safety of the map of SSH clients for every number of connections,       *)
(* clients, groups and calls.  The inductive invariant adds to the type    *)
(* invariant that a call which makes a client works on the connection that *)
(* the client's callback was given.  The second half is about connections  *)
(* on which no calls overlapped: whose client, status and group agree, but *)
(* for what the one call at work on them is about to set.                  *)
(***************************************************************************)
EXTENDS SSHLifecycle, TLAPS

\* A call that holds a client it has made, or is about to make, made it for its connection.
Making == {"dial", "insert", "clean", "redial"}
Makes(r, own) ==
  r.pc \in Making =>
    r.conn \in Conns /\ r.client \in Clients /\ own[r.client] = r.conn

\* Elsewhere a call knows the connection or the group it goes on to use.
Knows(r) ==
  /\ r.pc \in {"status", "check", "join", "forget", "cut", "lookup", "keep", "mark"} =>
       r.conn \in Conns
  /\ r.pc \in {"check", "join", "closing", "delete"} => r.group \in Groups

CallInv == \A p \in Calls : Makes(call[p], owner) /\ Knows(call[p])

\* A client that was dialed has an owner.
OwnedInv == \A k \in Clients : state[k] # "unused" => owner[k] # None

MapInv == TypeOK /\ CallInv /\ RegisteredIsOpen /\ OwnedInv

-----------------------------------------------------------------------------
\* Nothing is registered and nobody is calling at first.
LEMMA MapInit == Init => MapInv
  BY LifecycleAssumption
  DEF Init, MapInv, TypeOK, CallInv, Makes, Knows, RegisteredIsOpen, OwnedInv, CallType,
      Idle, Places, Lockers, Making

\* The record of a call that starts, moves on or returns.
LEMMA CallMoves ==
  ASSUME TypeOK, NEW p \in Calls
  PROVE  /\ call[p] \in CallType
         /\ \A r : Begin(p, r) => call' = [call EXCEPT ![p] = r]
         /\ \A place : Goto(p, place) =>
              call' = [call EXCEPT ![p] = [call[p] EXCEPT !.pc = place]]
         /\ Return(p) => call' = [call EXCEPT ![p] = Idle]
  BY DEF TypeOK, Begin, Goto, Return

\* The connections two calls clash on are connections.
LEMMA RacedType ==
  ASSUME TypeOK, CallInv, NEW p \in Calls, NEW r \in CallType, Knows(r), Begin(p, r)
  PROVE  raced' \subseteq Conns
  <1>1. ASSUME NEW s \in CallType, Knows(s) PROVE Work(s) \subseteq Conns
    BY <1>1 DEF Work, Closing, CallType, Knows, TypeOK
  <1>2. \A q \in Calls : call[q] \in CallType /\ Knows(call[q])
    BY DEF TypeOK, CallInv
  <1>3. \A q \in Calls : Clash(r, call[q]) \subseteq Conns
    BY <1>1, <1>2 DEF Clash
  <1>4. QED
    BY <1>3 DEF Begin, TypeOK

\* When one call changes its record, the others keep theirs, as long as no client changes
\* its owner.
LEMMA CallStep ==
  ASSUME TypeOK, CallInv, NEW p \in Calls, NEW r \in CallType,
         call' = [call EXCEPT ![p] = r],
         Makes(r, owner'), Knows(r),
         \A k \in Clients : owner[k] # None => owner'[k] = owner[k]
  PROVE  CallInv' /\ call' \in [Calls -> CallType]
  <1>1. call' \in [Calls -> CallType]
    BY DEF TypeOK
  <1>2. ASSUME NEW q \in Calls PROVE Makes(call'[q], owner') /\ Knows(call'[q])
    <2>1. CASE q = p
      BY <2>1 DEF TypeOK
    <2>2. CASE q # p
      <3>1. call'[q] = call[q] /\ Makes(call[q], owner) /\ Knows(call[q])
        BY <2>2 DEF TypeOK, CallInv
      <3>2. Makes(call[q], owner')
        BY <3>1, LifecycleAssumption DEF Makes
      <3>3. QED
        BY <3>1, <3>2
    <2>3. QED
      BY <2>1, <2>2
  <1>3. QED
    BY <1>1, <1>2 DEF CallInv

\* The map keeps its promise where neither it nor the clients change.
LEMMA MapKept ==
  ASSUME RegisteredIsOpen, OwnedInv, UNCHANGED mapVars
  PROVE  RegisteredIsOpen' /\ OwnedInv'
  BY DEF RegisteredIsOpen, OwnedInv, mapVars

-----------------------------------------------------------------------------
\* Steps of a call that touch neither the map nor the clients.
LEMMA PlainStep ==
  ASSUME MapInv, NEW p \in Calls,
         \/ CreateConnected(p) \/ CreateFails(p) \/ SetConnected(p) \/ CheckGroup(p)
         \/ Join(p) \/ Redialed(p) \/ Forget(p) \/ Show(p) \/ ClearGroup(p)
         \/ DeleteGroup(p) \/ Lookup(p) \/ Keep(p) \/ Mark(p) \/ CommandEnds(p)
  PROVE  MapInv'
  <1> USE DEF MapInv
  <1>0. /\ call[p] \in CallType /\ Makes(call[p], owner) /\ Knows(call[p])
        /\ Idle \in CallType /\ Makes(Idle, owner) /\ Knows(Idle)
    BY CallMoves DEF CallInv, Idle, CallType, Places, Lockers, Makes, Making, Knows
  <1>1. CASE CreateConnected(p)
    <2> DEFINE r == [call[p] EXCEPT !.pc = "insert"]
    <2>1. r \in CallType /\ Makes(r, owner) /\ Knows(r)
      BY <1>0, <1>1 DEF CreateConnected, At, CallType, Places, Lockers, Makes, Making, Knows
    <2>2. call' = [call EXCEPT ![p] = r] /\ UNCHANGED mapVars
      BY <1>1, CallMoves DEF CreateConnected, mapVars
    <2>3. CallInv' /\ call' \in [Calls -> CallType]
      BY <2>1, <2>2, CallStep DEF mapVars
    <2>4. QED
      BY <1>0, <1>1, <2>2, <2>3, MapKept
      DEF CreateConnected, At, Knows, TypeOK, mapVars, recordVars, groupVars, lockVars
  <1>2. CASE SetConnected(p)
    <2> DEFINE r == [call[p] EXCEPT !.pc = IF call[p].group = None
                                           THEN "forget"
                                           ELSE "check"]
    <2>1. r \in CallType /\ Makes(r, owner) /\ Knows(r)
      BY <1>0, <1>2 DEF SetConnected, At, CallType, Places, Lockers, Makes, Making, Knows
    <2>2. call' = [call EXCEPT ![p] = r] /\ UNCHANGED mapVars
      BY <1>2, CallMoves DEF SetConnected, mapVars
    <2>3. CallInv' /\ call' \in [Calls -> CallType]
      BY <2>1, <2>2, CallStep DEF mapVars
    <2>4. QED
      BY <1>0, <1>2, <2>2, <2>3, MapKept
      DEF SetConnected, At, Knows, TypeOK, mapVars, recordVars, groupVars, lockVars,
          UpdateConnectionStatus
  <1>3. CASE CheckGroup(p)
    <2> DEFINE r == [call[p] EXCEPT !.pc = "join"]
    <2>1. r \in CallType /\ Makes(r, owner) /\ Knows(r)
      BY <1>0, <1>3 DEF CheckGroup, At, CallType, Places, Lockers, Makes, Making, Knows
    <2>2. call' = [call EXCEPT ![p] = r] /\ UNCHANGED mapVars
      BY <1>3, CallMoves DEF CheckGroup, mapVars
    <2>3. CallInv' /\ call' \in [Calls -> CallType]
      BY <2>1, <2>2, CallStep DEF mapVars
    <2>4. QED
      BY <1>0, <1>3, <2>2, <2>3, MapKept
      DEF CheckGroup, At, Knows, TypeOK, mapVars, recordVars, groupVars, lockVars
  <1>4. CASE Forget(p)
    <2> DEFINE r == [call[p] EXCEPT !.pc = "show"]
    <2>1. r \in CallType /\ Makes(r, owner) /\ Knows(r)
      BY <1>0, <1>4 DEF Forget, At, CallType, Places, Lockers, Makes, Making, Knows
    <2>2. call' = [call EXCEPT ![p] = r] /\ UNCHANGED mapVars
      BY <1>4, CallMoves DEF Forget, mapVars
    <2>3. CallInv' /\ call' \in [Calls -> CallType]
      BY <2>1, <2>2, CallStep DEF mapVars
    <2>4. QED
      BY <1>0, <1>4, <2>2, <2>3, MapKept
      DEF Forget, At, Knows, TypeOK, mapVars, recordVars, groupVars, lockVars
  <1>5. CASE Lookup(p)
    <2> DEFINE r == IF clients[call[p].conn] = None
                    THEN Idle
                    ELSE [call[p] EXCEPT !.pc = "keep"]
    <2>1. r \in CallType /\ Makes(r, owner) /\ Knows(r)
      BY <1>0, <1>5 DEF Lookup, At, CallType, Places, Lockers, Makes, Making, Knows
    <2>2. call' = [call EXCEPT ![p] = r] /\ UNCHANGED mapVars
      BY <1>5, CallMoves DEF Lookup, mapVars
    <2>3. CallInv' /\ call' \in [Calls -> CallType]
      BY <2>1, <2>2, CallStep DEF mapVars
    <2>4. QED
      BY <1>0, <1>5, <2>2, <2>3, MapKept
      DEF Lookup, At, Knows, TypeOK, mapVars, recordVars, groupVars, lockVars
  <1>6. CASE Keep(p)
    <2> DEFINE r == [call[p] EXCEPT !.pc = "mark"]
    <2>1. r \in CallType /\ Makes(r, owner) /\ Knows(r)
      BY <1>0, <1>6 DEF Keep, At, CallType, Places, Lockers, Makes, Making, Knows
    <2>2. call' = [call EXCEPT ![p] = r] /\ UNCHANGED mapVars
      BY <1>6, CallMoves DEF Keep, mapVars
    <2>3. CallInv' /\ call' \in [Calls -> CallType]
      BY <2>1, <2>2, CallStep DEF mapVars
    <2>4. QED
      BY <1>0, <1>6, <2>2, <2>3, MapKept
      DEF Keep, At, Knows, TypeOK, mapVars, recordVars, groupVars, lockVars
  <1>7. CASE Mark(p)
    <2> DEFINE r == [call[p] EXCEPT !.pc = "show"]
    <2>1. r \in CallType /\ Makes(r, owner) /\ Knows(r)
      BY <1>0, <1>7 DEF Mark, At, CallType, Places, Lockers, Makes, Making, Knows
    <2>2. call' = [call EXCEPT ![p] = r] /\ UNCHANGED mapVars
      BY <1>7, CallMoves DEF Mark, mapVars
    <2>3. CallInv' /\ call' \in [Calls -> CallType]
      BY <2>1, <2>2, CallStep DEF mapVars
    <2>4. QED
      BY <1>0, <1>7, <2>2, <2>3, MapKept
      DEF Mark, At, Knows, TypeOK, mapVars, recordVars, groupVars, lockVars,
          UpdateConnectionStatus
  <1>8. CASE ClearGroup(p)
    <2> DEFINE r == [call[p] EXCEPT !.pc = "delete"]
    <2>1. r \in CallType /\ Makes(r, owner) /\ Knows(r)
      BY <1>0, <1>8 DEF ClearGroup, At, CallType, Places, Lockers, Makes, Making, Knows
    <2>2. call' = [call EXCEPT ![p] = r] /\ UNCHANGED mapVars
      BY <1>8, CallMoves DEF ClearGroup, mapVars
    <2>3. CallInv' /\ call' \in [Calls -> CallType]
      BY <2>1, <2>2, CallStep DEF mapVars
    <2>4. QED
      BY <1>0, <1>8, <2>2, <2>3, MapKept
      DEF ClearGroup, At, Knows, TypeOK, mapVars, recordVars, groupVars, lockVars
  <1>9. CASE CreateFails(p)
    <2> DEFINE r == Idle
    <2>1. r \in CallType /\ Makes(r, owner) /\ Knows(r)
      BY <1>0, <1>9 DEF CreateFails, At, CallType, Places, Lockers, Makes, Making, Knows
    <2>2. call' = [call EXCEPT ![p] = r] /\ UNCHANGED mapVars
      BY <1>9, CallMoves DEF CreateFails, mapVars
    <2>3. CallInv' /\ call' \in [Calls -> CallType]
      BY <2>1, <2>2, CallStep DEF mapVars
    <2>4. QED
      BY <1>0, <1>9, <2>2, <2>3, MapKept
      DEF CreateFails, At, Knows, TypeOK, mapVars, recordVars, groupVars, lockVars,
          DeleteFromCache
  <1>10. CASE Join(p)
    <2> DEFINE r == Idle
    <2>1. r \in CallType /\ Makes(r, owner) /\ Knows(r)
      BY <1>0, <1>10 DEF Join, At, CallType, Places, Lockers, Makes, Making, Knows
    <2>2. call' = [call EXCEPT ![p] = r] /\ UNCHANGED mapVars
      BY <1>10, CallMoves DEF Join, mapVars
    <2>3. CallInv' /\ call' \in [Calls -> CallType]
      BY <2>1, <2>2, CallStep DEF mapVars
    <2>4. QED
      BY <1>0, <1>10, <2>2, <2>3, MapKept
      DEF Join, At, Knows, TypeOK, mapVars, recordVars, groupVars, lockVars
  <1>11. CASE Show(p)
    <2> DEFINE r == Idle
    <2>1. r \in CallType /\ Makes(r, owner) /\ Knows(r)
      BY <1>0, <1>11 DEF Show, At, CallType, Places, Lockers, Makes, Making, Knows
    <2>2. call' = [call EXCEPT ![p] = r] /\ UNCHANGED mapVars
      BY <1>11, CallMoves DEF Show, mapVars
    <2>3. CallInv' /\ call' \in [Calls -> CallType]
      BY <2>1, <2>2, CallStep DEF mapVars
    <2>4. QED
      BY <1>0, <1>11, <2>2, <2>3, MapKept
      DEF Show, At, Knows, TypeOK, mapVars, recordVars, groupVars, lockVars
  <1>12. CASE DeleteGroup(p)
    <2> DEFINE r == Idle
    <2>1. r \in CallType /\ Makes(r, owner) /\ Knows(r)
      BY <1>0, <1>12 DEF DeleteGroup, At, CallType, Places, Lockers, Makes, Making, Knows
    <2>2. call' = [call EXCEPT ![p] = r] /\ UNCHANGED mapVars
      BY <1>12, CallMoves DEF DeleteGroup, mapVars
    <2>3. CallInv' /\ call' \in [Calls -> CallType]
      BY <2>1, <2>2, CallStep DEF mapVars
    <2>4. QED
      BY <1>0, <1>12, <2>2, <2>3, MapKept
      DEF DeleteGroup, At, Knows, TypeOK, mapVars, recordVars, groupVars, lockVars
  <1>13. CASE CommandEnds(p)
    <2> DEFINE r == Idle
    <2>1. r \in CallType /\ Makes(r, owner) /\ Knows(r)
      BY <1>0, <1>13 DEF CommandEnds, At, CallType, Places, Lockers, Makes, Making, Knows
    <2>2. call' = [call EXCEPT ![p] = r] /\ UNCHANGED mapVars
      BY <1>13, CallMoves DEF CommandEnds, mapVars
    <2>3. CallInv' /\ call' \in [Calls -> CallType]
      BY <2>1, <2>2, CallStep DEF mapVars
    <2>4. QED
      BY <1>0, <1>13, <2>2, <2>3, MapKept
      DEF CommandEnds, At, Knows, TypeOK, mapVars, recordVars, groupVars, lockVars
  <1>14. CASE Redialed(p)
    <2> DEFINE r == IF state[call[p].client] = "dialed"
                    THEN [call[p] EXCEPT !.pc = "insert"]
                    ELSE Idle
    <2>1. r \in CallType /\ Makes(r, owner) /\ Knows(r)
      BY <1>0, <1>14 DEF Redialed, At, CallType, Places, Lockers, Makes, Making, Knows
    <2>2. call' = [call EXCEPT ![p] = r] /\ UNCHANGED mapVars
      BY <1>14, CallMoves DEF Redialed, mapVars
    <2>3. CallInv' /\ call' \in [Calls -> CallType]
      BY <2>1, <2>2, CallStep DEF mapVars
    <2>4. QED
      BY <1>0, <1>14, <2>2, <2>3, MapKept
      DEF Redialed, At, Knows, TypeOK, mapVars, recordVars, groupVars, lockVars
  <1>15. QED
    BY <1>1, <1>2, <1>3, <1>4, <1>5, <1>6, <1>7, <1>8, <1>9, <1>10, <1>11, <1>12,
       <1>13, <1>14

\* Calls that begin without making a client: they only write their record and raced.
LEMMA BeginStep ==
  ASSUME MapInv, NEW p \in Calls,
         \/ \E c \in Conns : \/ SaveConnection(p, c) \/ Disconnect(p, c)
                            \/ HealthCheck(p, c) \/ ExecuteCommand(p, c)
         \/ \E g \in Groups : CloseGroup(p, g)
  PROVE  MapInv'
  <1> USE DEF MapInv
  <1>1. ASSUME NEW c \in Conns, SaveConnection(p, c) PROVE MapInv'
    <2> DEFINE r == [Idle EXCEPT !.pc = "show"]
    <2>1. r \in CallType /\ Makes(r, owner) /\ Knows(r)
      BY DEF TypeOK, CallType, Idle, Places, Lockers, Makes, Making, Knows
    <2>2. Begin(p, r) /\ UNCHANGED mapVars
      BY <1>1 DEF SaveConnection, mapVars
    <2>3. call' = [call EXCEPT ![p] = r] /\ raced' \subseteq Conns
      BY <2>1, <2>2, CallMoves, RacedType
    <2>4. CallInv' /\ call' \in [Calls -> CallType]
      BY <2>1, <2>2, <2>3, CallStep DEF mapVars
    <2>5. QED
      BY <1>1, <2>2, <2>3, <2>4, MapKept
      DEF SaveConnection, TypeOK, mapVars, recordVars, groupVars, lockVars
  <1>2. ASSUME NEW c \in Conns, Disconnect(p, c) PROVE MapInv'
    <2> DEFINE r == [Idle EXCEPT !.pc = "cut", !.conn = c]
    <2>1. r \in CallType /\ Makes(r, owner) /\ Knows(r)
      BY DEF TypeOK, CallType, Idle, Places, Lockers, Makes, Making, Knows
    <2>2. Begin(p, r) /\ UNCHANGED mapVars
      BY <1>2 DEF Disconnect, mapVars
    <2>3. call' = [call EXCEPT ![p] = r] /\ raced' \subseteq Conns
      BY <2>1, <2>2, CallMoves, RacedType
    <2>4. CallInv' /\ call' \in [Calls -> CallType]
      BY <2>1, <2>2, <2>3, CallStep DEF mapVars
    <2>5. QED
      BY <1>2, <2>2, <2>3, <2>4, MapKept
      DEF Disconnect, TypeOK, mapVars, recordVars, groupVars, lockVars
  <1>3. ASSUME NEW g \in Groups, CloseGroup(p, g) PROVE MapInv'
    <2> DEFINE r == [Idle EXCEPT !.pc = "closing", !.group = g, !.todo = members[g]]
    <2>1. r \in CallType /\ Makes(r, owner) /\ Knows(r)
      BY DEF TypeOK, CallType, Idle, Places, Lockers, Makes, Making, Knows
    <2>2. Begin(p, r) /\ UNCHANGED mapVars
      BY <1>3 DEF CloseGroup, mapVars
    <2>3. call' = [call EXCEPT ![p] = r] /\ raced' \subseteq Conns
      BY <2>1, <2>2, CallMoves, RacedType
    <2>4. CallInv' /\ call' \in [Calls -> CallType]
      BY <2>1, <2>2, <2>3, CallStep DEF mapVars
    <2>5. QED
      BY <1>3, <2>2, <2>3, <2>4, MapKept
      DEF CloseGroup, TypeOK, mapVars, recordVars, groupVars, lockVars
  <1>4. ASSUME NEW c \in Conns, HealthCheck(p, c) PROVE MapInv'
    <2> DEFINE r == [Idle EXCEPT !.pc = "lookup", !.conn = c]
    <2>1. r \in CallType /\ Makes(r, owner) /\ Knows(r)
      BY DEF TypeOK, CallType, Idle, Places, Lockers, Makes, Making, Knows
    <2>2. Begin(p, r) /\ UNCHANGED mapVars
      BY <1>4 DEF HealthCheck, mapVars
    <2>3. call' = [call EXCEPT ![p] = r] /\ raced' \subseteq Conns
      BY <2>1, <2>2, CallMoves, RacedType
    <2>4. CallInv' /\ call' \in [Calls -> CallType]
      BY <2>1, <2>2, <2>3, CallStep DEF mapVars
    <2>5. QED
      BY <1>4, <2>2, <2>3, <2>4, MapKept
      DEF HealthCheck, TypeOK, mapVars, recordVars, groupVars, lockVars
  <1>5. ASSUME NEW c \in Conns, ExecuteCommand(p, c) PROVE MapInv'
    <2> DEFINE r == [Idle EXCEPT !.pc = "run", !.conn = c]
    <2>1. r \in CallType /\ Makes(r, owner) /\ Knows(r)
      BY DEF TypeOK, CallType, Idle, Places, Lockers, Makes, Making, Knows
    <2>2. Begin(p, r) /\ UNCHANGED mapVars
      BY <1>5 DEF ExecuteCommand, mapVars
    <2>3. call' = [call EXCEPT ![p] = r] /\ raced' \subseteq Conns
      BY <2>1, <2>2, CallMoves, RacedType
    <2>4. CallInv' /\ call' \in [Calls -> CallType]
      BY <2>1, <2>2, <2>3, CallStep DEF mapVars
    <2>5. QED
      BY <1>5, <2>2, <2>3, <2>4, MapKept
      DEF ExecuteCommand, TypeOK, mapVars, recordVars, groupVars, lockVars
  <1>6. QED
    BY <1>1, <1>2, <1>3, <1>4, <1>5

\* CreateAndConnectWithGroup and Reconnect take a client that nobody owns.
LEMMA MakeStep ==
  ASSUME MapInv, NEW p \in Calls, NEW c \in Conns, NEW g \in Groups, NEW k \in Clients,
         Create(p, c, g, k) \/ Reconnect(p, c, k)
  PROVE  MapInv'
  <1> USE DEF MapInv
  <1>1. owner[k] = None /\ owner' = [owner EXCEPT ![k] = c] /\ UNCHANGED clients
    BY DEF Create, Reconnect, NewClient
  <1>2. \A j \in Clients : owner[j] # None => owner'[j] = owner[j]
    BY <1>1 DEF TypeOK
  <1>3. state' \in [Clients -> {"unused", "dialing", "dialed", "failed", "up", "down",
                               "closed"}]
        /\ \A j \in Clients : j # k => state'[j] = state[j]
    BY DEF Create, Reconnect, TypeOK
  <1>4. RegisteredIsOpen' /\ OwnedInv'
    BY <1>1, <1>2, <1>3, LifecycleAssumption DEF RegisteredIsOpen, OwnedInv, TypeOK
  <1>5. CASE Create(p, c, g, k)
    <2> DEFINE r == [Idle EXCEPT !.pc = "dial", !.conn = c, !.client = k, !.group = g]
    <2>1. r \in CallType /\ Makes(r, owner') /\ Knows(r)
      BY <1>1 DEF TypeOK, CallType, Idle, Places, Lockers, Makes, Making, Knows
    <2>2. Begin(p, r)
      BY <1>5 DEF Create
    <2>3. call' = [call EXCEPT ![p] = r] /\ raced' \subseteq Conns
      BY <2>1, <2>2, CallMoves, RacedType
    <2>4. CallInv' /\ call' \in [Calls -> CallType]
      BY <1>2, <2>1, <2>3, CallStep
    <2>5. QED
      BY <1>1, <1>3, <1>4, <1>5, <2>3, <2>4 DEF Create, TypeOK, groupVars, lockVars
  <1>6. CASE Reconnect(p, c, k)
    <2> DEFINE r == [Idle EXCEPT !.pc = "clean", !.conn = c, !.client = k]
    <2>1. r \in CallType /\ Makes(r, owner') /\ Knows(r)
      BY <1>1 DEF TypeOK, CallType, Idle, Places, Lockers, Makes, Making, Knows
    <2>2. Begin(p, r)
      BY <1>6 DEF Reconnect
    <2>3. call' = [call EXCEPT ![p] = r] /\ raced' \subseteq Conns
      BY <2>1, <2>2, CallMoves, RacedType
    <2>4. CallInv' /\ call' \in [Calls -> CallType]
      BY <1>2, <2>1, <2>3, CallStep
    <2>5. QED
      BY <1>1, <1>3, <1>4, <1>6, <2>3, <2>4
      DEF Reconnect, TypeOK, recordVars, groupVars, lockVars
  <1>7. QED
    BY <1>5, <1>6

\* A dropped connection stays in the map as one that is down.
LEMMA DropStep ==
  ASSUME MapInv, NEW p \in Calls, NEW k \in Clients, Drop(p, k)
  PROVE  MapInv'
  <1> USE DEF MapInv
  <1> DEFINE r == [Idle EXCEPT !.pc = "lookup", !.conn = owner[k]]
  <1>1. RegisteredIsOpen' /\ OwnedInv'
    BY DEF Drop, RegisteredIsOpen, OwnedInv, TypeOK
  <1>2. owner[k] \in Conns
    BY DEF Drop, OwnedInv, TypeOK
  <1>3. r \in CallType /\ Makes(r, owner) /\ Knows(r)
    BY <1>2 DEF CallType, Idle, Places, Lockers, Makes, Making, Knows
  <1>4. Begin(p, r) /\ owner' = owner
    BY DEF Drop
  <1>5. call' = [call EXCEPT ![p] = r] /\ raced' \subseteq Conns
    BY <1>3, <1>4, CallMoves, RacedType
  <1>6. CallInv' /\ call' \in [Calls -> CallType]
    BY <1>3, <1>4, <1>5, CallStep
  <1>7. QED
    BY <1>1, <1>5, <1>6 DEF Drop, TypeOK, recordVars, groupVars, lockVars

\* A dial that ends concerns a client that is not in the map.
LEMMA DialStep ==
  ASSUME MapInv, NEW k \in Clients, NEW s \in {"dialed", "failed"}, DialEnds(k, s)
  PROVE  MapInv'
  <1>1. RegisteredIsOpen' /\ OwnedInv'
    BY DEF MapInv, DialEnds, RegisteredIsOpen, OwnedInv, TypeOK
  <1>2. CallInv'
    BY DEF MapInv, DialEnds, CallInv
  <1>3. QED
    BY <1>1, <1>2 DEF MapInv, DialEnds, TypeOK, recordVars, groupVars, lockVars

\* Closing the client of a connection and taking it out of the map, as Reconnect, Disconnect
\* and CloseGroup do, leaves the clients of the other connections alone.
LEMMA CloseKeeps ==
  ASSUME MapInv, NEW c \in Conns,
         owner' = owner,
         clients' = [clients EXCEPT ![c] = None],
         \/ state' = Closed(c)
         \/ \E k \in Clients : owner[k] = c /\ state' = [Closed(c) EXCEPT ![k] = "dialing"]
  PROVE  /\ RegisteredIsOpen' /\ OwnedInv'
         /\ clients' \in [Conns -> Clients \cup {None}]
         /\ state' \in [Clients -> {"unused", "dialing", "dialed", "failed", "up", "down",
                                  "closed"}]
  <1> USE DEF MapInv
  <1>1. /\ clients \in [Conns -> Clients \cup {None}]
        /\ state \in [Clients -> {"unused", "dialing", "dialed", "failed", "up", "down",
                                 "closed"}]
    BY DEF TypeOK
  <1>2. /\ DOMAIN state' = Clients
        /\ \A j \in Clients :
             \/ state'[j] = state[j]
             \/ state'[j] = "closed" /\ j = clients[c]
             \/ state'[j] = "dialing" /\ owner[j] = c
    BY <1>1 DEF Closed
  <1>3. state' \in [Clients -> {"unused", "dialing", "dialed", "failed", "up", "down",
                               "closed"}]
    BY <1>1 DEF Closed
  <1>4. RegisteredIsOpen'
    <2>1. SUFFICES ASSUME NEW d \in Conns, clients'[d] # None
                   PROVE  state'[clients'[d]] \in {"up", "down"} /\ owner'[clients'[d]] = d
      BY DEF RegisteredIsOpen
    <2>2. d # c /\ clients'[d] = clients[d] /\ clients[d] \in Clients
      BY <1>1, <2>1
    <2>3. state[clients[d]] \in {"up", "down"} /\ owner[clients[d]] = d
      BY <2>1, <2>2 DEF RegisteredIsOpen
    <2>4. clients[c] # clients[d]
      BY <2>1, <2>2, <2>3 DEF RegisteredIsOpen
    <2>5. QED
      BY <1>2, <2>2, <2>3, <2>4
  <1>5. OwnedInv'
    <2>1. clients[c] # None => owner[clients[c]] # None
      BY LifecycleAssumption DEF RegisteredIsOpen
    <2>2. \A j \in Clients : j = clients[c] => j # None
      BY LifecycleAssumption
    <2>3. QED
      BY <1>2, <2>1, <2>2, LifecycleAssumption DEF OwnedInv
  <1>6. QED
    BY <1>1, <1>3, <1>4, <1>5

\* Insert puts a client under the connection it was made for.
LEMMA InsertStep ==
  ASSUME MapInv, NEW p \in Calls, Insert(p)
  PROVE  MapInv'
  <1> USE DEF MapInv
  <1> DEFINE c == call[p].conn
             k == call[p].client
             r == [call[p] EXCEPT !.pc = "status"]
  <1>1. c \in Conns /\ k \in Clients /\ owner[k] = c
    BY DEF Insert, At, CallInv, Makes, Making
  <1>2. clients' = [clients EXCEPT ![c] = k] /\ state' = [state EXCEPT ![k] = "up"]
        /\ owner' = owner
    BY DEF Insert
  <1>3. RegisteredIsOpen' /\ OwnedInv'
    BY <1>1, <1>2, LifecycleAssumption DEF RegisteredIsOpen, OwnedInv, TypeOK
  <1>4. r \in CallType /\ Makes(r, owner) /\ Knows(r)
    BY <1>1, CallMoves DEF CallType, Places, Makes, Making, Knows
  <1>5. call' = [call EXCEPT ![p] = r]
    BY CallMoves DEF Insert
  <1>6. CallInv' /\ call' \in [Calls -> CallType]
    BY <1>2, <1>4, <1>5, CallStep
  <1>7. QED
    BY <1>1, <1>2, <1>3, <1>6 DEF Insert, TypeOK, recordVars, groupVars

\* The critical section in which Reconnect removes the old client.
LEMMA CleanStep ==
  ASSUME MapInv, NEW p \in Calls, Clean(p)
  PROVE  MapInv'
  <1> USE DEF MapInv
  <1> DEFINE c == call[p].conn
             k == call[p].client
             r == [call[p] EXCEPT !.pc = "redial"]
  <1>1. c \in Conns /\ k \in Clients /\ owner[k] = c
    BY DEF Clean, At, CallInv, Makes, Making
  <1>2. /\ owner' = owner /\ clients' = [clients EXCEPT ![c] = None]
        /\ state' = [Closed(c) EXCEPT ![k] = "dialing"]
    BY DEF Clean
  <1>3. r \in CallType /\ Makes(r, owner) /\ Knows(r)
    BY <1>1, CallMoves DEF CallType, Places, Makes, Making, Knows
  <1>4. call' = [call EXCEPT ![p] = r]
    BY CallMoves DEF Clean
  <1>5. CallInv' /\ call' \in [Calls -> CallType]
    BY <1>2, <1>3, <1>4, CallStep
  <1>6. QED
    BY <1>1, <1>2, <1>5, CloseKeeps DEF Clean, TypeOK, recordVars, groupVars

\* The body of Disconnect, whether or not it blocks itself at the end.
LEMMA CutStep ==
  ASSUME MapInv, NEW p \in Calls, Cut(p)
  PROVE  MapInv'
  <1> USE DEF MapInv
  <1> DEFINE c == call[p].conn
             r == [call[p] EXCEPT !.pc = "stuck"]
  <1>1. c \in Conns
    BY DEF Cut, At, CallInv, Knows
  <1>2. /\ r \in CallType /\ Makes(r, owner) /\ Knows(r)
        /\ Idle \in CallType /\ Makes(Idle, owner) /\ Knows(Idle)
    BY CallMoves DEF CallType, Idle, Places, Lockers, Makes, Making, Knows
  <1>3. /\ owner' = owner
        /\ call' = [call EXCEPT ![p] = r] \/ call' = [call EXCEPT ![p] = Idle]
    BY CallMoves DEF Cut
  <1>4. CallInv' /\ call' \in [Calls -> CallType]
    BY <1>2, <1>3, CallStep
  <1>5. CASE clients[c] = None
    BY <1>3, <1>4, <1>5, MapKept DEF Cut, TypeOK, mapVars, groupVars
  <1>6. CASE clients[c] # None
    <2>1. /\ clients' = [clients EXCEPT ![c] = None] /\ state' = Closed(c)
          /\ DeleteFromCache(c) /\ (writer' = None \/ writer' = writer)
      BY <1>6 DEF Cut
    <2>2. QED
      BY <1>1, <1>3, <1>4, <2>1, CloseKeeps DEF Cut, TypeOK, groupVars, DeleteFromCache
  <1>7. QED
    BY <1>5, <1>6

\* One turn of the loop of CloseGroup.
LEMMA CloseOneStep ==
  ASSUME MapInv, NEW p \in Calls, NEW c \in Conns, CloseOne(p, c)
  PROVE  MapInv'
  <1> USE DEF MapInv
  <1> DEFINE r == [call[p] EXCEPT !.todo = call[p].todo \ {c}]
  <1>1. r \in CallType /\ Makes(r, owner) /\ Knows(r)
    BY CallMoves DEF CloseOne, At, CallInv, CallType, Makes, Making, Knows
  <1>2. call' = [call EXCEPT ![p] = r] /\ owner' = owner
    BY CallMoves DEF CloseOne
  <1>3. CallInv' /\ call' \in [Calls -> CallType]
    BY <1>1, <1>2, CallStep
  <1>4. CASE clients[c] = None
    BY <1>2, <1>3, <1>4, MapKept DEF CloseOne, TypeOK, mapVars, groupVars
  <1>5. CASE clients[c] # None
    <2>1. /\ clients' = [clients EXCEPT ![c] = None] /\ state' = Closed(c)
          /\ DeleteFromCache(c)
      BY <1>5 DEF CloseOne
    <2>2. QED
      BY <1>2, <1>3, <2>1, CloseKeeps DEF CloseOne, TypeOK, groupVars, DeleteFromCache
  <1>6. QED
    BY <1>4, <1>5

\* Waiting for the lock, deleting a record and making a group leave map and calls alone.
LEMMA AsideStep ==
  ASSUME MapInv,
         \/ \E p \in Calls : Announce(p)
         \/ \E c \in Conns : DeleteConnection(c) \/ CreateUnwritten(c)
         \/ \E g \in Groups : CreateGroup(g)
         \/ UNCHANGED vars
  PROVE  MapInv'
  <1> USE DEF MapInv
  <1>1. UNCHANGED mapVars /\ call' = call
    BY DEF Announce, DeleteConnection, CreateUnwritten, CreateGroup, vars
  <1>2. RegisteredIsOpen' /\ OwnedInv' /\ CallInv'
    BY <1>1, MapKept DEF CallInv, mapVars
  <1>3. TypeOK'
    BY <1>1 DEF Announce, DeleteConnection, CreateUnwritten, CreateGroup, TypeOK, vars,
       mapVars, recordVars, groupVars, lockVars
  <1>4. QED
    BY <1>2, <1>3

-----------------------------------------------------------------------------
\* The invariant is inductive.
LEMMA MapStep ==
  ASSUME MapInv, [Next]_vars
  PROVE  MapInv'
  <1>1. ASSUME NEW p \in Calls, Step(p) PROVE MapInv'
    BY <1>1, PlainStep, InsertStep, CleanStep, CutStep, CloseOneStep, AsideStep DEF Step, Proceeds
  <1>2. ASSUME NEW p \in Calls, Calling(p) PROVE MapInv'
    <2>1. Groups # {}
      BY LifecycleAssumption
    <2>2. QED
      BY <1>2, <2>1, BeginStep, MakeStep, DropStep DEF Calling
  <1>3. QED
    BY <1>1, <1>2, DialStep, AsideStep DEF Next

\* The inductive invariant holds in every state the service reaches.
THEOREM MapHolds == Spec => []MapInv
  <1>1. MapInv /\ [Next]_vars => MapInv'
    BY MapStep
  <1>2. QED
    BY MapInit, <1>1, PTL DEF Spec

\* The state of the service keeps its shape.
THEOREM LifecycleTyped == Spec => []TypeOK
  <1>1. MapInv => TypeOK
    BY DEF MapInv
  <1>2. QED
    BY MapHolds, <1>1, PTL

\* s.clients never hands out a client that was closed or that belongs to another
\* connection, whatever Reconnect, Disconnect, CloseGroup and timeouts do to each other
\* (service.go:215, 327, 1029, 1423).
THEOREM MapHandsOutOpenClients == Spec => []RegisteredIsOpen
  <1>1. MapInv => RegisteredIsOpen
    BY DEF MapInv
  <1>2. QED
    BY MapHolds, <1>1, PTL

-----------------------------------------------------------------------------
(* What holds of a connection on which no two calls overlapped.             *)

Works(p, c, places) == call[p].pc \in places /\ call[p].conn = c
Losing == {"lookup", "keep", "mark"}
Installs(p, c) == Works(p, c, {"clean", "redial", "insert", "status"}) /\ call[p].group = None
Joining(p, c) == Works(p, c, {"status", "check", "join"}) /\ call[p].group # None
Settling(p, c) == Works(p, c, Losing \cup {"status"})

\* What a call has found of the connection it works on, and relies on.
Expects(p, c) ==
  /\ Closing(call[p]) =>
       /\ c \in call[p].todo => c \in members[call[p].group]
       /\ c \in members[call[p].group] /\ clients[c] # None => c \in call[p].todo
       /\ At(p, "delete") => c \notin call[p].todo
  /\ Works(p, c, {"dial", "insert", "redial"}) => clients[c] = None
  /\ Works(p, c, {"dial"}) => call[p].group # None
  /\ Works(p, c, {"join"}) => call[p].group \in exists
  /\ clients[c] # None => /\ Works(p, c, Losing) => state[clients[c]] = "down"
                          /\ Works(p, c, {"status"}) => state[clients[c]] = "up"

Installed(c) ==
  \A k \in Clients : owner[k] = c /\ state[k] \in {"up", "down"} => clients[c] = k
Shown(c) == store[c] # "absent" => (status[c] = "connected" <=> state[clients[c]] = "up")
Grouped(c) == \E g \in exists : c \in members[g]

\* What is promised of a connection holds, or a call is on its way to it.
Promised(c) ==
  /\ Installed(c)
  /\ clients[c] # None => Shown(c) \/ \E p \in Calls : Settling(p, c)
  /\ clients[c] # None \/ (\E p \in Calls : Installs(p, c)) =>
       Grouped(c) \/ \E p \in Calls : Joining(p, c)

\* Likewise, if only call p may be on its way.
PromisedBy(p, c) ==
  /\ Installed(c)
  /\ clients[c] # None => Shown(c) \/ Settling(p, c)
  /\ clients[c] # None \/ Installs(p, c) => Grouped(c) \/ Joining(p, c)

FactsInv == \A c \in Conns \ raced : Promised(c) /\ \A p \in Calls : Expects(p, c)

\* A call that overlaps another's work is noted.
RaceInv ==
  /\ \A p, q \in Calls : p # q => Clash(call[p], call[q]) \subseteq raced
  /\ \A p \in Calls : At(p, "idle") => call[p] = Idle

\* Call p does not work on c.
Aside(p, c) == c \notin Work(call[p]) /\ (Closing(call[p]) => c \notin call[p].todo)

-----------------------------------------------------------------------------
\* The record of the call that moves, and of the others.
LEMMA GoesOn ==
  ASSUME MapInv, NEW p \in Calls, NEW place, Goto(p, place)
  PROVE  /\ call'[p].pc = place /\ call'[p].conn = call[p].conn /\ call'[p].client = call[p].client
         /\ call'[p].group = call[p].group /\ call'[p].todo = call[p].todo
         /\ \A q \in Calls : q # p => call'[q] = call[q]
  <1>1. call \in [Calls -> CallType]
    BY DEF MapInv, TypeOK
  <1>2. call' = [call EXCEPT ![p].pc = place]
    BY DEF Goto
  <1>3. QED
    BY <1>1, <1>2 DEF CallType

\* A call that returns is idle, and the others stay where they are.
LEMMA Returns ==
  ASSUME MapInv, NEW p \in Calls, Return(p)
  PROVE  call'[p] = Idle /\ \A q \in Calls : q # p => call'[q] = call[q]
  BY DEF MapInv, TypeOK, Return

\* A call begins from idle, and the others stay where they are.
LEMMA Begins ==
  ASSUME MapInv, NEW p \in Calls, NEW r, Begin(p, r)
  PROVE  call'[p] = r /\ At(p, "idle") /\ \A q \in Calls : q # p => call'[q] = call[q]
  BY DEF MapInv, TypeOK, Begin

\* An idle call works on nothing.
LEMMA IdleWorks ==
  Idle.pc = "idle" /\ Idle.conn = None /\ Idle.group = None /\ Idle.todo = {} /\ Work(Idle) = {} /\ ~Closing(Idle)
  BY LifecycleAssumption DEF Idle, Work, Closing

\* What a call works on are connections, and who closes a group has one.
LEMMA WorkType ==
  ASSUME MapInv, NEW p \in Calls
  PROVE  /\ Work(call[p]) \subseteq Conns /\ call[p].group \in Groups \cup {None}
         /\ call[p].conn \in Conns \cup {None}
         /\ Closing(call[p]) => call[p].group \in Groups
  BY DEF MapInv, TypeOK, CallInv, Knows, Work, Closing, CallType

\* Who works on a connection on which no calls overlapped works on it alone.
LEMMA WorksAlone ==
  ASSUME MapInv, RaceInv, NEW c \in Conns \ raced, NEW p \in Calls, c \in Work(call[p]),
         NEW q \in Calls, q # p
  PROVE  /\ c \notin Work(call[q])
         /\ call[p].group # None /\ (Closing(call[p]) \/ Closing(call[q])) =>
              call[q].group # call[p].group
  BY DEF RaceInv, Clash

-----------------------------------------------------------------------------
\* A call that goes on works on no more than before.
LEMMA WorkShrinks ==
  ASSUME MapInv, RaceInv, NEW p \in Calls,
         \A q \in Calls : q # p => call'[q] = call[q],
         call'[p] = Idle \/ ((Work(call[p]))' \subseteq Work(call[p]) /\ call'[p].group = call[p].group
                             /\ (Closing(call'[p]) => Closing(call[p])) /\ call'[p].pc # "idle"),
         \A g \in Groups : \/ members'[g] = members[g]
                           \/ g = call[p].group /\ members'[g] \subseteq members[g] \cup Work(call[p])
  PROVE  \A q \in Calls, c \in Conns \ raced : c \in (Work(call[q]))' => c \in Work(call[q])
  <1> SUFFICES ASSUME NEW q \in Calls, NEW c \in Conns \ raced, c \in (Work(call[q]))'
               PROVE  c \in Work(call[q])
    OBVIOUS
  <1>1. CASE q = p
    BY <1>1, IdleWorks DEF Work, Idle, Closing
  <1>2. CASE q # p /\ Closing(call[q])
    <2>1. call'[q] = call[q] /\ call[q].group \in Groups /\ c \in members'[call[q].group]
      BY <1>2, WorkType DEF Work
    <2>2. CASE c \in members[call[q].group]
      BY <1>2, <2>2 DEF Work
    <2>3. CASE c \notin members[call[q].group]
      <3>1. call[q].group = call[p].group /\ c \in Work(call[p])
        BY <2>1, <2>3
      <3>2. QED
        BY <1>2, <2>1, <3>1, WorksAlone, LifecycleAssumption
    <2>4. QED
      BY <2>2, <2>3
  <1>3. CASE q # p /\ ~Closing(call[q])
    BY <1>3 DEF Work
  <1>4. QED
    BY <1>1, <1>2, <1>3

\* A call that goes on or returns makes no new overlap.
LEMMA RaceGoesOn ==
  ASSUME MapInv, RaceInv, NEW p \in Calls, raced' = raced, MapInv',
         \A q \in Calls : q # p => call'[q] = call[q],
         call'[p] = Idle \/ ((Work(call[p]))' \subseteq Work(call[p]) /\ call'[p].group = call[p].group
                             /\ (Closing(call'[p]) => Closing(call[p])) /\ call'[p].pc # "idle"),
         \A g \in Groups : \/ members'[g] = members[g]
                           \/ g = call[p].group /\ members'[g] \subseteq members[g] \cup Work(call[p])
  PROVE  RaceInv'
  <1>1. \A q \in Calls, c \in Conns \ raced : c \in (Work(call[q]))' => c \in Work(call[q])
    BY WorkShrinks
  <1>2. \A q \in Calls : (Work(call[q]))' \subseteq Conns
    BY DEF MapInv, TypeOK, CallInv, Knows, Work, Closing, CallType
  <1>3. \A q \in Calls : call'[q].group # None => /\ call'[q].group = call[q].group
                                                  /\ Closing(call'[q]) => Closing(call[q])
    BY IdleWorks
  <1>4. ASSUME NEW q \in Calls, NEW s \in Calls, q # s, NEW c \in (Clash(call[q], call[s]))', c \notin raced
        PROVE  c \in Clash(call[q], call[s])
    <2>1. c \in Conns
      BY <1>2, <1>4 DEF Clash
    <2>2. c \in (Work(call[q]))' => c \in Work(call[q])
      BY <1>1, <1>4, <2>1
    <2>3. c \in (Work(call[s]))' => c \in Work(call[s])
      BY <1>1, <1>4, <2>1
    <2>4. CASE c \in (Work(call[q]))' /\ c \in (Work(call[s]))'
      BY <2>2, <2>3, <2>4 DEF Clash
    <2>5. CASE ~(c \in (Work(call[q]))' /\ c \in (Work(call[s]))')
      <3>1. /\ call'[q].group # None /\ call'[q].group = call'[s].group
            /\ Closing(call'[q]) \/ Closing(call'[s]) 
            /\ c \in (Work(call[q]))' \/ c \in (Work(call[s]))'
        BY <1>4, <2>5 DEF Clash
      <3>2. QED
        BY <1>3, <2>2, <2>3, <3>1 DEF Clash
    <2>6. QED
      BY <2>4, <2>5
  <1>5. \A q \in Calls : At(q, "idle")' => call'[q] = Idle
    BY DEF RaceInv, At
  <1>6. QED
    BY <1>4, <1>5 DEF RaceInv

\* A call that begins is compared with the others.
LEMMA RaceBegins ==
  ASSUME MapInv, RaceInv, NEW p \in Calls, NEW r, Begin(p, r), r.pc # "idle", members' = members
  PROVE  RaceInv'
  <1>1. /\ call'[p] = r /\ \A q \in Calls : q # p => call'[q] = call[q]
        /\ raced' = raced \cup UNION {Clash(r, call[q]) : q \in Calls}
    BY Begins DEF Begin
  <1>2. \A q \in Calls : Clash(r, call[q]) \subseteq raced' /\ Clash(call[q], r) \subseteq raced'
    BY <1>1 DEF Clash
  <1>3. \A x, y : (Clash(x, y))' = Clash(x, y)
    BY DEF Clash, Work, Closing
  <1>4. ASSUME NEW q \in Calls, NEW s \in Calls, q # s
        PROVE  (Clash(call[q], call[s]))' \subseteq raced'
    <2>1. CASE q = p
      BY <1>1, <1>2, <1>4, <2>1 DEF Clash, Work, Closing
    <2>2. CASE s = p
      BY <1>1, <1>2, <1>4, <2>2 DEF Clash, Work, Closing
    <2>3. CASE q # p /\ s # p
      BY <1>1, <1>4, <2>3 DEF Clash, Work, Closing, RaceInv
    <2>4. QED
      BY <2>1, <2>2, <2>3
  <1>5. \A q \in Calls : At(q, "idle")' => call'[q] = Idle
    BY <1>1 DEF RaceInv, At
  <1>6. QED
    BY <1>4, <1>5 DEF RaceInv

-----------------------------------------------------------------------------
\* Who relies on nothing of c.
LEMMA AsideExpects ==
  ASSUME NEW c \in Conns, NEW q \in Calls, Aside(q, c)
  PROVE  Expects(q, c) /\ ~Settling(q, c) /\ ~Installs(q, c) /\ ~Joining(q, c)
  BY LifecycleAssumption
  DEF Aside, Expects, Settling, Installs, Joining, Works, Losing, Work, Closing, At

\* The same of the state after the step.
LEMMA AsideExpectsNext ==
  ASSUME NEW c \in Conns, NEW q \in Calls, Aside(q, c)'
  PROVE  Expects(q, c)' /\ ~Settling(q, c)' /\ ~Installs(q, c)' /\ ~Joining(q, c)'
  BY LifecycleAssumption
  DEF Aside, Expects, Settling, Installs, Joining, Works, Losing, Work, Closing, At

\* A step that does nothing to connection c, its client, its record and its groups.
Untouched(c) ==
  /\ clients'[c] = clients[c] /\ status'[c] = status[c]
  /\ store'[c] # "absent" => store[c] # "absent"
  /\ \A k \in Clients : /\ owner'[k] = c <=> owner[k] = c
                        /\ owner[k] = c /\ (state[k] \in {"up", "down"} \/ state'[k] \in {"up", "down"})
                             => state'[k] = state[k]
  /\ \A g \in Groups : c \in members'[g] <=> c \in members[g]
  /\ \A g \in exists \ exists' : /\ c \notin members[g]
                                 /\ \A q \in Calls : Works(q, c, {"join"}) => call[q].group # g

\* What is promised of a connection survives steps at others.
LEMMA FactsElsewhere ==
  ASSUME MapInv, FactsInv, NEW c \in Conns \ raced, Untouched(c),
         \A q \in Calls : call'[q] = call[q] \/ (Aside(q, c) /\ Aside(q, c)')
  PROVE  Promised(c)' /\ \A q \in Calls : Expects(q, c)'
  <1>1. Promised(c) /\ \A q \in Calls : Expects(q, c)
    BY DEF FactsInv
  <1>2. clients[c] # None => state'[clients[c]] = state[clients[c]]
    BY DEF MapInv, TypeOK, RegisteredIsOpen, Untouched
  <1>3. /\ clients'[c] = clients[c] /\ exists \subseteq Groups
        /\ \A g \in Groups : c \in members'[g] <=> c \in members[g]
    BY DEF Untouched, MapInv, TypeOK
  <1>4. ASSUME NEW q \in Calls PROVE Expects(q, c)'
    <2>1. CASE Aside(q, c)'
      BY <2>1, AsideExpectsNext
    <2>2. CASE call'[q] = call[q]
      <3>1. Closing(call[q]) => call[q].group \in Groups
        BY WorkType
      <3>2. Works(q, c, {"join"}) => call[q].group \in exists'
        BY <1>1 DEF Expects, Untouched
      <3>3. QED
        BY <1>1, <1>2, <1>3, <2>2, <3>1, <3>2 DEF Expects, Works, At
    <2>3. QED
      BY <2>1, <2>2
  <1>5. \A q \in Calls : /\ Settling(q, c) <=> Settling(q, c)'
                         /\ Installs(q, c) <=> Installs(q, c)'
                         /\ Joining(q, c) <=> Joining(q, c)'
    <2>1. ASSUME NEW q \in Calls, call'[q] = call[q]
          PROVE  /\ Settling(q, c) <=> Settling(q, c)'
                 /\ Installs(q, c) <=> Installs(q, c)'
                 /\ Joining(q, c) <=> Joining(q, c)'
      BY <2>1 DEF Settling, Installs, Joining, Works
    <2>2. QED
      BY <2>1, AsideExpects, AsideExpectsNext
  <1>6. Installed(c)'
    BY <1>1 DEF Promised, Installed, Untouched
  <1>7. clients'[c] # None => Shown(c)' \/ \E q \in Calls : Settling(q, c)'
    <2>1. clients[c] # None /\ Shown(c) => Shown(c)'
      BY <1>2 DEF Shown, Untouched
    <2>2. QED
      BY <1>1, <1>3, <1>5, <2>1 DEF Promised
  <1>8. clients'[c] # None \/ (\E q \in Calls : Installs(q, c)') =>
          Grouped(c)' \/ \E q \in Calls : Joining(q, c)'
    <2>1. Grouped(c) => Grouped(c)'
      BY <1>3 DEF Grouped, Untouched
    <2>2. QED
      BY <1>1, <1>3, <1>5, <2>1 DEF Promised
  <1>9. QED
    BY <1>4, <1>6, <1>7, <1>8 DEF Promised

\* What is promised of a connection, with one call at work on it.
LEMMA FactsOfOne ==
  ASSUME FactsInv, NEW c \in Conns \ raced, NEW p \in Calls,
         \A q \in Calls : q # p => Aside(q, c)
  PROVE  PromisedBy(p, c) /\ Expects(p, c)
  <1>1. Promised(c) /\ Expects(p, c)
    BY DEF FactsInv
  <1>2. \A q \in Calls : q # p => ~Settling(q, c) /\ ~Installs(q, c) /\ ~Joining(q, c)
    BY AsideExpects
  <1>3. QED
    BY <1>1, <1>2 DEF Promised, PromisedBy

\* The same the other way round: what the one call promises is promised.
LEMMA FactsByOne ==
  ASSUME NEW c \in Conns, NEW p \in Calls, (PromisedBy(p, c) /\ Expects(p, c))',
         \A q \in Calls : q # p => Aside(q, c)'
  PROVE  Promised(c)' /\ \A q \in Calls : Expects(q, c)'
  <1>1. \A q \in Calls : q # p => /\ ~Settling(q, c)' /\ ~Installs(q, c)' /\ ~Joining(q, c)'
                                  /\ Expects(q, c)'
    BY AsideExpectsNext
  <1>2. QED
    BY <1>1 DEF Promised, PromisedBy

\* The step of a call leaves the facts true if it keeps to the connections it works on, and
\* those it works on keep what is promised, as far as the call itself goes.
LEMMA FactsGoOn ==
  ASSUME MapInv, MapInv', RaceInv, FactsInv, NEW p \in Calls, raced' = raced,
         \A q \in Calls : q # p => call'[q] = call[q],
         call'[p] = Idle \/ ((Work(call[p]))' \subseteq Work(call[p]) /\ call'[p].group = call[p].group
                             /\ (Closing(call'[p]) => Closing(call[p])) /\ call'[p].pc # "idle"),
         \A g \in Groups : \/ members'[g] = members[g]
                           \/ g = call[p].group /\ members'[g] \subseteq members[g] \cup Work(call[p]),
         \A c \in Conns \ raced : c \notin Work(call[p]) =>
           Untouched(c) /\ (Closing(call'[p]) => call'[p].todo \subseteq call[p].todo),
         \A c \in Conns \ raced : c \in Work(call[p]) /\ PromisedBy(p, c) /\ Expects(p, c) =>
           (PromisedBy(p, c) /\ Expects(p, c))'
  PROVE  RaceInv' /\ FactsInv'
  <1>1. RaceInv'
    BY RaceGoesOn
  <1>2. ASSUME NEW c \in Conns \ raced PROVE Promised(c)' /\ \A q \in Calls : Expects(q, c)'
    <2>1. \A q \in Calls : c \in (Work(call[q]))' => c \in Work(call[q])
      BY WorkShrinks
    <2>2. ASSUME NEW q \in Calls, Closing(call[q]), c \notin Work(call[q])
          PROVE  c \notin call[q].todo
      BY <2>2 DEF FactsInv, Expects, Work
    <2>3. CASE c \notin Work(call[p])
      <3>1. Aside(p, c)
        BY <2>2, <2>3 DEF Aside
      <3>2. Aside(p, c)'
        BY <2>1, <2>3, <3>1, IdleWorks DEF Aside
      <3>3. QED
        BY <2>3, <3>1, <3>2, FactsElsewhere
    <2>4. CASE c \in Work(call[p])
      <3>1. ASSUME NEW q \in Calls, q # p PROVE Aside(q, c) /\ Aside(q, c)'
        <4>1. c \notin Work(call[q])
          BY <2>4, <3>1, WorksAlone
        <4>2. QED
          BY <2>1, <2>2, <3>1, <4>1 DEF Aside
      <3>2. (PromisedBy(p, c) /\ Expects(p, c))'
        BY <2>4, <3>1, FactsOfOne
      <3>3. QED
        BY <3>1, <3>2, FactsByOne
    <2>5. QED
      BY <2>3, <2>4
  <1>3. QED
    BY <1>1, <1>2 DEF FactsInv

\* Likewise a call that begins.
LEMMA FactsBegin ==
  ASSUME MapInv, MapInv', RaceInv, FactsInv, NEW p \in Calls, NEW r, Begin(p, r), r.pc # "idle",
         members' = members, exists' = exists, Closing(r) => r.todo = members[r.group],
         \A c \in Conns \ raced : c \notin Work(r) => Untouched(c),
         \A c \in Conns \ raced' : c \in Work(r) /\ PromisedBy(p, c) /\ Expects(p, c) =>
           (PromisedBy(p, c) /\ Expects(p, c))'
  PROVE  RaceInv' /\ FactsInv'
  <1>1. RaceInv'
    BY RaceBegins
  <1>2. /\ call'[p] = r /\ \A q \in Calls : q # p => call'[q] = call[q]
        /\ call[p] = Idle /\ raced \subseteq raced'
    BY Begins DEF Begin, RaceInv
  <1>3. ASSUME NEW c \in Conns \ raced' PROVE Promised(c)' /\ \A q \in Calls : Expects(q, c)'
    <2>1. c \in Conns \ raced
      BY <1>2
    <2>2. ASSUME NEW q \in Calls, Closing(call[q]), c \notin Work(call[q])
          PROVE  c \notin call[q].todo
      BY <2>1, <2>2 DEF FactsInv, Expects, Work
    <2>3. Aside(p, c)
      BY <1>2, IdleWorks DEF Aside
    <2>4. CASE c \notin Work(r)
      <3>1. Aside(p, c)'
        BY <1>2, <2>4 DEF Aside, Work
      <3>2. QED
        BY <1>2, <2>1, <2>3, <2>4, <3>1, FactsElsewhere
    <2>5. CASE c \in Work(r)
      <3>1. ASSUME NEW q \in Calls, q # p PROVE Aside(q, c) /\ Aside(q, c)'
        <4>1. c \notin Work(call[q])
          BY <1>3, <2>5 DEF Begin, Clash
        <4>2. call'[q] = call[q]
          BY <1>2, <3>1
        <4>3. QED
          BY <2>2, <4>1, <4>2 DEF Aside, Work
      <3>2. (PromisedBy(p, c) /\ Expects(p, c))'
        BY <1>3, <2>1, <2>5, <3>1, FactsOfOne
      <3>3. QED
        BY <3>1, <3>2, FactsByOne
    <2>6. QED
      BY <2>4, <2>5
  <1>4. QED
    BY <1>1, <1>3 DEF FactsInv

-----------------------------------------------------------------------------
\* Steps that change nothing but the call, what is kept for a reconnect and the lock.
LEMMA FactsQuiet ==
  ASSUME MapInv, MapInv', RaceInv, FactsInv, NEW p \in Calls,
         \/ CreateConnected(p) \/ Redialed(p) \/ Forget(p) \/ Show(p) \/ Lookup(p) \/ Keep(p)
         \/ CommandEnds(p)
  PROVE  RaceInv' /\ FactsInv'
  <1>1. CASE CreateConnected(p)
    <2>1. /\ call'[p].pc \in {"insert"}
               /\ call'[p].conn = call[p].conn /\ call'[p].group = call[p].group
               /\ call'[p].todo = call[p].todo
          /\ call[p].pc = "dial" /\ \A q \in Calls : q # p => call'[q] = call[q]
      BY <1>1, GoesOn DEF CreateConnected, At
    <2>2. UNCHANGED <<clients, state, owner, store, status, members, exists, raced>>
      BY <1>1 DEF CreateConnected, mapVars, recordVars, groupVars
    <2>3. call'[p] = Idle \/ ((Work(call[p]))' \subseteq Work(call[p]) /\ call'[p].group = call[p].group
                              /\ (Closing(call'[p]) => Closing(call[p])) /\ call'[p].pc # "idle")
      BY <2>1 DEF Work, Closing
    <2>4. \A c \in Conns \ raced : c \notin Work(call[p]) =>
            Untouched(c) /\ (Closing(call'[p]) => call'[p].todo \subseteq call[p].todo)
      BY <2>1, <2>2, IdleWorks DEF Untouched
    <2>5. ASSUME NEW c \in Conns \ raced, c \in Work(call[p]), PromisedBy(p, c), Expects(p, c)
          PROVE  (PromisedBy(p, c) /\ Expects(p, c))'
      <3>1. c = call[p].conn /\ call[p].pc = "dial"
        BY <2>1, <2>5 DEF Work, Closing
      <3>2. QED
        BY <2>1, <2>2, <2>5, <3>1, IdleWorks, LifecycleAssumption
        DEF PromisedBy, Expects, Installed, Shown, Grouped, Settling, Installs, Joining, Works,
            Losing,
             At, Closing
    <2>6. QED
      BY <2>1, <2>2, <2>3, <2>4, <2>5, FactsGoOn
  <1>2. CASE Redialed(p)
    <2>1. /\ call'[p] = Idle \/ (call'[p].pc \in {"insert"}
               /\ call'[p].conn = call[p].conn /\ call'[p].group = call[p].group
               /\ call'[p].todo = call[p].todo)
          /\ call[p].pc = "redial" /\ \A q \in Calls : q # p => call'[q] = call[q]
      BY <1>2, GoesOn, Returns DEF Redialed, At
    <2>2. UNCHANGED <<clients, state, owner, store, status, members, exists, raced>>
      BY <1>2 DEF Redialed, mapVars, recordVars, groupVars
    <2>3. call'[p] = Idle \/ ((Work(call[p]))' \subseteq Work(call[p]) /\ call'[p].group = call[p].group
                              /\ (Closing(call'[p]) => Closing(call[p])) /\ call'[p].pc # "idle")
      BY <2>1 DEF Work, Closing
    <2>4. \A c \in Conns \ raced : c \notin Work(call[p]) =>
            Untouched(c) /\ (Closing(call'[p]) => call'[p].todo \subseteq call[p].todo)
      BY <2>1, <2>2, IdleWorks DEF Untouched
    <2>5. ASSUME NEW c \in Conns \ raced, c \in Work(call[p]), PromisedBy(p, c), Expects(p, c)
          PROVE  (PromisedBy(p, c) /\ Expects(p, c))'
      <3>1. c = call[p].conn /\ call[p].pc = "redial"
        BY <2>1, <2>5 DEF Work, Closing
      <3>2. QED
        BY <2>1, <2>2, <2>5, <3>1, IdleWorks, LifecycleAssumption
        DEF PromisedBy, Expects, Installed, Shown, Grouped, Settling, Installs, Joining, Works,
            Losing,
             At, Closing
    <2>6. QED
      BY <2>1, <2>2, <2>3, <2>4, <2>5, FactsGoOn
  <1>3. CASE Forget(p)
    <2>1. /\ call'[p].pc \in {"show"}
               /\ call'[p].conn = call[p].conn /\ call'[p].group = call[p].group
               /\ call'[p].todo = call[p].todo
          /\ call[p].pc = "forget" /\ \A q \in Calls : q # p => call'[q] = call[q]
      BY <1>3, GoesOn DEF Forget, At
    <2>2. UNCHANGED <<clients, state, owner, store, status, members, exists, raced>>
      BY <1>3 DEF Forget, mapVars, groupVars
    <2>3. call'[p] = Idle \/ ((Work(call[p]))' \subseteq Work(call[p]) /\ call'[p].group = call[p].group
                              /\ (Closing(call'[p]) => Closing(call[p])) /\ call'[p].pc # "idle")
      BY <2>1 DEF Work, Closing
    <2>4. \A c \in Conns \ raced : c \notin Work(call[p]) =>
            Untouched(c) /\ (Closing(call'[p]) => call'[p].todo \subseteq call[p].todo)
      BY <2>1, <2>2, IdleWorks DEF Untouched
    <2>5. ASSUME NEW c \in Conns \ raced, c \in Work(call[p]), PromisedBy(p, c), Expects(p, c)
          PROVE  (PromisedBy(p, c) /\ Expects(p, c))'
      <3>1. c = call[p].conn /\ call[p].pc = "forget"
        BY <2>1, <2>5 DEF Work, Closing
      <3>2. QED
        BY <2>1, <2>2, <2>5, <3>1, IdleWorks, LifecycleAssumption
        DEF PromisedBy, Expects, Installed, Shown, Grouped, Settling, Installs, Joining, Works,
            Losing,
             At, Closing
    <2>6. QED
      BY <2>1, <2>2, <2>3, <2>4, <2>5, FactsGoOn
  <1>4. CASE Show(p)
    <2>1. /\ call'[p] = Idle
          /\ call[p].pc = "show" /\ \A q \in Calls : q # p => call'[q] = call[q]
      BY <1>4, Returns DEF Show, At
    <2>2. UNCHANGED <<clients, state, owner, store, status, members, exists, raced>>
      BY <1>4 DEF Show, mapVars, recordVars, groupVars
    <2>3. call'[p] = Idle \/ ((Work(call[p]))' \subseteq Work(call[p]) /\ call'[p].group = call[p].group
                              /\ (Closing(call'[p]) => Closing(call[p])) /\ call'[p].pc # "idle")
      BY <2>1 DEF Work, Closing
    <2>4. \A c \in Conns \ raced : c \notin Work(call[p]) =>
            Untouched(c) /\ (Closing(call'[p]) => call'[p].todo \subseteq call[p].todo)
      BY <2>1, <2>2, IdleWorks DEF Untouched
    <2>5. ASSUME NEW c \in Conns \ raced, c \in Work(call[p]), PromisedBy(p, c), Expects(p, c)
          PROVE  (PromisedBy(p, c) /\ Expects(p, c))'
      <3>1. c = call[p].conn /\ call[p].pc = "show"
        BY <2>1, <2>5 DEF Work, Closing
      <3>2. QED
        BY <2>1, <2>2, <2>5, <3>1, IdleWorks, LifecycleAssumption
        DEF PromisedBy, Expects, Installed, Shown, Grouped, Settling, Installs, Joining, Works,
            Losing,
             At, Closing
    <2>6. QED
      BY <2>1, <2>2, <2>3, <2>4, <2>5, FactsGoOn
  <1>5. CASE Lookup(p)
    <2>1. /\ call'[p] = Idle \/ (call'[p].pc \in {"keep"}
               /\ call'[p].conn = call[p].conn /\ call'[p].group = call[p].group
               /\ call'[p].todo = call[p].todo)
          /\ call[p].pc = "lookup" /\ \A q \in Calls : q # p => call'[q] = call[q]
      BY <1>5, GoesOn, Returns DEF Lookup, At
    <2>2. UNCHANGED <<clients, state, owner, store, status, members, exists, raced>>
      BY <1>5 DEF Lookup, mapVars, recordVars, groupVars
    <2>3. call'[p] = Idle \/ ((Work(call[p]))' \subseteq Work(call[p]) /\ call'[p].group = call[p].group
                              /\ (Closing(call'[p]) => Closing(call[p])) /\ call'[p].pc # "idle")
      BY <2>1 DEF Work, Closing
    <2>4. \A c \in Conns \ raced : c \notin Work(call[p]) =>
            Untouched(c) /\ (Closing(call'[p]) => call'[p].todo \subseteq call[p].todo)
      BY <2>1, <2>2, IdleWorks DEF Untouched
    <2>5. ASSUME NEW c \in Conns \ raced, c \in Work(call[p]), PromisedBy(p, c), Expects(p, c)
          PROVE  (PromisedBy(p, c) /\ Expects(p, c))'
      <3>1. c = call[p].conn /\ call[p].pc = "lookup"
        BY <2>1, <2>5 DEF Work, Closing
      <3>2. call'[p] = Idle => clients[c] = None
        BY <1>5, <2>1, <3>1, GoesOn, IdleWorks DEF Lookup, At
      <3>3. QED
        BY <2>1, <2>2, <2>5, <3>1, IdleWorks, LifecycleAssumption, <3>2
        DEF PromisedBy, Expects, Installed, Shown, Grouped, Settling, Installs, Joining, Works,
            Losing,
             At, Closing
    <2>6. QED
      BY <2>1, <2>2, <2>3, <2>4, <2>5, FactsGoOn
  <1>6. CASE Keep(p)
    <2>1. /\ call'[p].pc \in {"mark"}
               /\ call'[p].conn = call[p].conn /\ call'[p].group = call[p].group
               /\ call'[p].todo = call[p].todo
          /\ call[p].pc = "keep" /\ \A q \in Calls : q # p => call'[q] = call[q]
      BY <1>6, GoesOn DEF Keep, At
    <2>2. UNCHANGED <<clients, state, owner, store, status, members, exists, raced>>
      BY <1>6 DEF Keep, mapVars, groupVars
    <2>3. call'[p] = Idle \/ ((Work(call[p]))' \subseteq Work(call[p]) /\ call'[p].group = call[p].group
                              /\ (Closing(call'[p]) => Closing(call[p])) /\ call'[p].pc # "idle")
      BY <2>1 DEF Work, Closing
    <2>4. \A c \in Conns \ raced : c \notin Work(call[p]) =>
            Untouched(c) /\ (Closing(call'[p]) => call'[p].todo \subseteq call[p].todo)
      BY <2>1, <2>2, IdleWorks DEF Untouched
    <2>5. ASSUME NEW c \in Conns \ raced, c \in Work(call[p]), PromisedBy(p, c), Expects(p, c)
          PROVE  (PromisedBy(p, c) /\ Expects(p, c))'
      <3>1. c = call[p].conn /\ call[p].pc = "keep"
        BY <2>1, <2>5 DEF Work, Closing
      <3>2. QED
        BY <2>1, <2>2, <2>5, <3>1, IdleWorks, LifecycleAssumption
        DEF PromisedBy, Expects, Installed, Shown, Grouped, Settling, Installs, Joining, Works,
            Losing,
             At, Closing
    <2>6. QED
      BY <2>1, <2>2, <2>3, <2>4, <2>5, FactsGoOn
  <1>7. CASE CommandEnds(p)
    <2>1. /\ call'[p] = Idle
          /\ call[p].pc = "run" /\ \A q \in Calls : q # p => call'[q] = call[q]
      BY <1>7, Returns DEF CommandEnds, At
    <2>2. UNCHANGED <<clients, state, owner, store, status, members, exists, raced>>
      BY <1>7 DEF CommandEnds, mapVars, recordVars, groupVars
    <2>3. call'[p] = Idle \/ ((Work(call[p]))' \subseteq Work(call[p]) /\ call'[p].group = call[p].group
                              /\ (Closing(call'[p]) => Closing(call[p])) /\ call'[p].pc # "idle")
      BY <2>1 DEF Work, Closing
    <2>4. \A c \in Conns \ raced : c \notin Work(call[p]) =>
            Untouched(c) /\ (Closing(call'[p]) => call'[p].todo \subseteq call[p].todo)
      BY <2>1, <2>2, IdleWorks DEF Untouched
    <2>5. ASSUME NEW c \in Conns \ raced, c \in Work(call[p]), PromisedBy(p, c), Expects(p, c)
          PROVE  (PromisedBy(p, c) /\ Expects(p, c))'
      <3>1. c = call[p].conn /\ call[p].pc = "run"
        BY <2>1, <2>5 DEF Work, Closing
      <3>2. QED
        BY <2>1, <2>2, <2>5, <3>1, IdleWorks, LifecycleAssumption
        DEF PromisedBy, Expects, Installed, Shown, Grouped, Settling, Installs, Joining, Works,
            Losing,
             At, Closing
    <2>6. QED
      BY <2>1, <2>2, <2>3, <2>4, <2>5, FactsGoOn
  <1>8. QED
    BY <1>1, <1>2, <1>3, <1>4, <1>5, <1>6, <1>7

\* The status is the one of a client that is up.
LEMMA FactsSetConnected ==
  ASSUME MapInv, MapInv', RaceInv, FactsInv, NEW p \in Calls, SetConnected(p)
  PROVE  RaceInv' /\ FactsInv'
  <1>1. /\ call'[p].pc \in {"check", "forget"} /\ call'[p].conn = call[p].conn /\ call'[p].group = call[p].group
           /\ call'[p].todo = call[p].todo /\ call'[p].client = call[p].client
        /\ call[p].pc = "status" /\ \A q \in Calls : q # p => call'[q] = call[q]
    BY GoesOn, Returns DEF SetConnected, At
  <1>2. UNCHANGED <<clients, state, owner, store, members, exists, raced>>
    BY DEF SetConnected, mapVars, groupVars
  <1>3. /\ \A c \in Conns : c # call[p].conn => status'[c] = status[c]
        /\ store[call[p].conn] # "absent" => status'[call[p].conn] = "connected"
        /\ call'[p].pc = IF call[p].group = None THEN "forget" ELSE "check"
        /\ call[p].conn \in Conns
    BY <1>1, GoesOn DEF SetConnected, UpdateConnectionStatus, MapInv, TypeOK, CallInv, Knows
  <1>5. call'[p] = Idle \/ ((Work(call[p]))' \subseteq Work(call[p]) /\ call'[p].group = call[p].group
                              /\ (Closing(call'[p]) => Closing(call[p])) /\ call'[p].pc # "idle")
    BY <1>1, <1>2 DEF Work, Closing
  <1>6. ASSUME NEW c \in Conns \ raced, c \notin Work(call[p])
        PROVE  Untouched(c) /\ (Closing(call'[p]) => call'[p].todo \subseteq call[p].todo)
    <2>1. c # call[p].conn
      BY <1>1, <1>6, LifecycleAssumption DEF Work, Closing
    <2>2. QED
      BY <1>1, <1>2, <1>3, <2>1, IdleWorks DEF Untouched, Closing
  <1>7. ASSUME NEW c \in Conns \ raced, c \in Work(call[p]), PromisedBy(p, c), Expects(p, c)
        PROVE  (PromisedBy(p, c) /\ Expects(p, c))'
    <2>1. c = call[p].conn
      BY <1>1, <1>7 DEF Work, Closing
    <2>2. QED
      BY <1>1, <1>2, <1>3, <1>7, <2>1, IdleWorks, LifecycleAssumption
      DEF PromisedBy, Expects, Installed, Shown, Grouped, Settling, Installs, Joining, Works,
          Losing,
          At, Closing
  <1>8. QED
    BY <1>1, <1>2, <1>5, <1>6, <1>7, FactsGoOn

\* The status is the one of a client that is down.
LEMMA FactsMark ==
  ASSUME MapInv, MapInv', RaceInv, FactsInv, NEW p \in Calls, Mark(p)
  PROVE  RaceInv' /\ FactsInv'
  <1>1. /\ call'[p].pc \in {"show"} /\ call'[p].conn = call[p].conn /\ call'[p].group = call[p].group
           /\ call'[p].todo = call[p].todo /\ call'[p].client = call[p].client
        /\ call[p].pc = "mark" /\ \A q \in Calls : q # p => call'[q] = call[q]
    BY GoesOn, Returns DEF Mark, At
  <1>2. UNCHANGED <<clients, state, owner, store, members, exists, raced>>
    BY DEF Mark, mapVars, groupVars
  <1>3. /\ \A c \in Conns : c # call[p].conn => status'[c] = status[c]
        /\ store[call[p].conn] # "absent" => status'[call[p].conn] = "disconnected"
        /\ call[p].conn \in Conns
    BY <1>1 DEF Mark, UpdateConnectionStatus, MapInv, TypeOK, CallInv, Knows
  <1>5. call'[p] = Idle \/ ((Work(call[p]))' \subseteq Work(call[p]) /\ call'[p].group = call[p].group
                              /\ (Closing(call'[p]) => Closing(call[p])) /\ call'[p].pc # "idle")
    BY <1>1, <1>2 DEF Work, Closing
  <1>6. ASSUME NEW c \in Conns \ raced, c \notin Work(call[p])
        PROVE  Untouched(c) /\ (Closing(call'[p]) => call'[p].todo \subseteq call[p].todo)
    <2>1. c # call[p].conn
      BY <1>1, <1>6, LifecycleAssumption DEF Work, Closing
    <2>2. QED
      BY <1>1, <1>2, <1>3, <2>1, IdleWorks DEF Untouched, Closing
  <1>7. ASSUME NEW c \in Conns \ raced, c \in Work(call[p]), PromisedBy(p, c), Expects(p, c)
        PROVE  (PromisedBy(p, c) /\ Expects(p, c))'
    <2>1. c = call[p].conn
      BY <1>1, <1>7 DEF Work, Closing
    <2>2. QED
      BY <1>1, <1>2, <1>3, <1>7, <2>1, IdleWorks, LifecycleAssumption
      DEF PromisedBy, Expects, Installed, Shown, Grouped, Settling, Installs, Joining, Works,
          Losing,
          At, Closing
  <1>8. QED
    BY <1>1, <1>2, <1>5, <1>6, <1>7, FactsGoOn

\* The record that goes is of a connection without a client.
LEMMA FactsCreateFails ==
  ASSUME MapInv, MapInv', RaceInv, FactsInv, NEW p \in Calls, CreateFails(p)
  PROVE  RaceInv' /\ FactsInv'
  <1>1. /\ call'[p] = Idle
        /\ call[p].pc = "dial" /\ \A q \in Calls : q # p => call'[q] = call[q]
    BY GoesOn, Returns DEF CreateFails, At
  <1>2. UNCHANGED <<clients, state, owner, members, exists, raced>>
    BY DEF CreateFails, mapVars, groupVars
  <1>3. /\ \A c \in Conns : c # call[p].conn => status'[c] = status[c] /\ store'[c] = store[c]
        /\ call[p].conn \in Conns
    BY <1>1 DEF CreateFails, DeleteFromCache, MapInv, TypeOK, CallInv, Makes, Making
  <1>5. call'[p] = Idle \/ ((Work(call[p]))' \subseteq Work(call[p]) /\ call'[p].group = call[p].group
                              /\ (Closing(call'[p]) => Closing(call[p])) /\ call'[p].pc # "idle")
    BY <1>1, <1>2 DEF Work, Closing
  <1>6. ASSUME NEW c \in Conns \ raced, c \notin Work(call[p])
        PROVE  Untouched(c) /\ (Closing(call'[p]) => call'[p].todo \subseteq call[p].todo)
    <2>1. c # call[p].conn
      BY <1>1, <1>6, LifecycleAssumption DEF Work, Closing
    <2>2. QED
      BY <1>1, <1>2, <1>3, <2>1, IdleWorks DEF Untouched, Closing
  <1>7. ASSUME NEW c \in Conns \ raced, c \in Work(call[p]), PromisedBy(p, c), Expects(p, c)
        PROVE  (PromisedBy(p, c) /\ Expects(p, c))'
    <2>1. c = call[p].conn
      BY <1>1, <1>7 DEF Work, Closing
    <2>2. QED
      BY <1>1, <1>2, <1>3, <1>7, <2>1, IdleWorks, LifecycleAssumption
      DEF PromisedBy, Expects, Installed, Shown, Grouped, Settling, Installs, Joining, Works,
          Losing,
          At, Closing
  <1>8. QED
    BY <1>1, <1>2, <1>5, <1>6, <1>7, FactsGoOn

\* The group is there for the call to join.
LEMMA FactsCheckGroup ==
  ASSUME MapInv, MapInv', RaceInv, FactsInv, NEW p \in Calls, CheckGroup(p)
  PROVE  RaceInv' /\ FactsInv'
  <1>1. /\ call'[p].pc \in {"join"} /\ call'[p].conn = call[p].conn /\ call'[p].group = call[p].group
           /\ call'[p].todo = call[p].todo /\ call'[p].client = call[p].client
        /\ call[p].pc = "check" /\ \A q \in Calls : q # p => call'[q] = call[q]
    BY GoesOn, Returns DEF CheckGroup, At
  <1>2. UNCHANGED <<clients, state, owner, store, status, members, raced>>
    BY DEF CheckGroup, mapVars, recordVars
  <1>3. exists' = exists \cup {call[p].group} /\ call[p].group \in Groups
    BY <1>1 DEF CheckGroup, MapInv, CallInv, Knows
  <1>5. call'[p] = Idle \/ ((Work(call[p]))' \subseteq Work(call[p]) /\ call'[p].group = call[p].group
                              /\ (Closing(call'[p]) => Closing(call[p])) /\ call'[p].pc # "idle")
    BY <1>1, <1>2 DEF Work, Closing
  <1>6. ASSUME NEW c \in Conns \ raced, c \notin Work(call[p])
        PROVE  Untouched(c) /\ (Closing(call'[p]) => call'[p].todo \subseteq call[p].todo)
    <2>1. c # call[p].conn
      BY <1>1, <1>6, LifecycleAssumption DEF Work, Closing
    <2>2. QED
      BY <1>1, <1>2, <1>3, <2>1, IdleWorks DEF Untouched, Closing
  <1>7. ASSUME NEW c \in Conns \ raced, c \in Work(call[p]), PromisedBy(p, c), Expects(p, c)
        PROVE  (PromisedBy(p, c) /\ Expects(p, c))'
    <2>1. c = call[p].conn
      BY <1>1, <1>7 DEF Work, Closing
    <2>2. QED
      BY <1>1, <1>2, <1>3, <1>7, <2>1, IdleWorks, LifecycleAssumption
      DEF PromisedBy, Expects, Installed, Shown, Grouped, Settling, Installs, Joining, Works,
          Losing,
          At, Closing
  <1>8. QED
    BY <1>1, <1>2, <1>5, <1>6, <1>7, FactsGoOn

\* The group that was made is the one that is joined.
LEMMA FactsJoin ==
  ASSUME MapInv, MapInv', RaceInv, FactsInv, NEW p \in Calls, Join(p)
  PROVE  RaceInv' /\ FactsInv'
  <1>1. /\ call'[p] = Idle
        /\ call[p].pc = "join" /\ \A q \in Calls : q # p => call'[q] = call[q]
    BY GoesOn, Returns DEF Join, At
  <1>2. UNCHANGED <<clients, state, owner, store, status, exists, raced>>
    BY DEF Join, mapVars, recordVars
  <1>3. /\ \A g \in Groups : g # call[p].group => members'[g] = members[g]
        /\ call[p].group \in Groups /\ call[p].conn \in Conns
        /\ members'[call[p].group] = IF call[p].group \in exists THEN members[call[p].group] \cup {call[p].conn}
                                     ELSE members[call[p].group]
    BY <1>1 DEF Join, MapInv, TypeOK, CallInv, Knows
  <1>4. \A g \in Groups : \/ members'[g] = members[g]
                          \/ g = call[p].group /\ members'[g] \subseteq members[g] \cup Work(call[p])
    BY <1>1, <1>3, LifecycleAssumption DEF Work, Closing
  <1>5. call'[p] = Idle \/ ((Work(call[p]))' \subseteq Work(call[p]) /\ call'[p].group = call[p].group
                              /\ (Closing(call'[p]) => Closing(call[p])) /\ call'[p].pc # "idle")
    BY <1>1, <1>2, <1>4 DEF Work, Closing
  <1>6. ASSUME NEW c \in Conns \ raced, c \notin Work(call[p])
        PROVE  Untouched(c) /\ (Closing(call'[p]) => call'[p].todo \subseteq call[p].todo)
    <2>1. c # call[p].conn
      BY <1>1, <1>6, LifecycleAssumption DEF Work, Closing
    <2>2. QED
      BY <1>1, <1>2, <1>3, <2>1, IdleWorks DEF Untouched, Closing
  <1>7. ASSUME NEW c \in Conns \ raced, c \in Work(call[p]), PromisedBy(p, c), Expects(p, c)
        PROVE  (PromisedBy(p, c) /\ Expects(p, c))'
    <2>1. c = call[p].conn
      BY <1>1, <1>7 DEF Work, Closing
    <2>2. QED
      BY <1>1, <1>2, <1>3, <1>7, <2>1, IdleWorks, LifecycleAssumption
      DEF PromisedBy, Expects, Installed, Shown, Grouped, Settling, Installs, Joining, Works,
          Losing,
          At, Closing
  <1>8. QED
    BY <1>1, <1>2, <1>5, <1>6, <1>7, <1>4, FactsGoOn

\* A client is put where none is.
LEMMA FactsInsert ==
  ASSUME MapInv, MapInv', RaceInv, FactsInv, NEW p \in Calls, Insert(p)
  PROVE  RaceInv' /\ FactsInv'
  <1>1. /\ call'[p].pc \in {"status"} /\ call'[p].conn = call[p].conn /\ call'[p].group = call[p].group
           /\ call'[p].todo = call[p].todo /\ call'[p].client = call[p].client
        /\ call[p].pc = "insert" /\ \A q \in Calls : q # p => call'[q] = call[q]
    BY GoesOn, Returns DEF Insert, At
  <1>2. UNCHANGED <<owner, store, status, members, exists, raced>>
    BY DEF Insert, recordVars, groupVars
  <1>3. /\ call[p].conn \in Conns /\ call[p].client \in Clients /\ owner[call[p].client] = call[p].conn
        /\ \A c \in Conns : c # call[p].conn => clients'[c] = clients[c]
        /\ clients'[call[p].conn] = call[p].client /\ state'[call[p].client] = "up"
        /\ \A k \in Clients : k # call[p].client => state'[k] = state[k]
    BY <1>1 DEF Insert, MapInv, TypeOK, CallInv, Makes, Making
  <1>5. call'[p] = Idle \/ ((Work(call[p]))' \subseteq Work(call[p]) /\ call'[p].group = call[p].group
                              /\ (Closing(call'[p]) => Closing(call[p])) /\ call'[p].pc # "idle")
    BY <1>1, <1>2 DEF Work, Closing
  <1>6. ASSUME NEW c \in Conns \ raced, c \notin Work(call[p])
        PROVE  Untouched(c) /\ (Closing(call'[p]) => call'[p].todo \subseteq call[p].todo)
    <2>1. c # call[p].conn
      BY <1>1, <1>6, LifecycleAssumption DEF Work, Closing
    <2>2. QED
      BY <1>1, <1>2, <1>3, <2>1, IdleWorks DEF Untouched, Closing
  <1>7. ASSUME NEW c \in Conns \ raced, c \in Work(call[p]), PromisedBy(p, c), Expects(p, c)
        PROVE  (PromisedBy(p, c) /\ Expects(p, c))'
    <2>1. c = call[p].conn
      BY <1>1, <1>7 DEF Work, Closing
    <2>2. QED
      BY <1>1, <1>2, <1>3, <1>7, <2>1, IdleWorks, LifecycleAssumption
      DEF PromisedBy, Expects, Installed, Shown, Grouped, Settling, Installs, Joining, Works,
          Losing,
          At, Closing
  <1>8. QED
    BY <1>1, <1>2, <1>5, <1>6, <1>7, FactsGoOn

\* The client that goes is closed.
LEMMA FactsClean ==
  ASSUME MapInv, MapInv', RaceInv, FactsInv, NEW p \in Calls, Clean(p)
  PROVE  RaceInv' /\ FactsInv'
  <1>1. /\ call'[p].pc \in {"redial"} /\ call'[p].conn = call[p].conn /\ call'[p].group = call[p].group
           /\ call'[p].todo = call[p].todo /\ call'[p].client = call[p].client
        /\ call[p].pc = "clean" /\ \A q \in Calls : q # p => call'[q] = call[q]
    BY GoesOn, Returns DEF Clean, At
  <1>2. UNCHANGED <<owner, store, status, members, exists, raced>>
    BY DEF Clean, recordVars, groupVars
  <1>3. /\ call[p].conn \in Conns /\ call[p].client \in Clients /\ owner[call[p].client] = call[p].conn
        /\ \A c \in Conns : c # call[p].conn => clients'[c] = clients[c]
        /\ clients'[call[p].conn] = None
        /\ \A k \in Clients : owner[k] # call[p].conn => state'[k] = state[k]
        /\ \A k \in Clients : state'[k] \in {"up", "down"} => state[k] = state'[k] /\ clients[call[p].conn] # k
    <2>1. call[p].conn \in Conns /\ call[p].client \in Clients /\ owner[call[p].client] = call[p].conn
      BY <1>1 DEF MapInv, CallInv, Makes, Making
    <2>2. /\ state' = [Closed(call[p].conn) EXCEPT ![call[p].client] = "dialing"]
          /\ clients' = [clients EXCEPT ![call[p].conn] = None] /\ clients \in [Conns -> Clients \cup {None}]
      BY DEF Clean, MapInv, TypeOK
    <2>3. \A k \in Clients : state'[k] = IF k = call[p].client THEN "dialing"
                                        ELSE IF k = clients[call[p].conn] THEN "closed" ELSE state[k]
      BY <2>1, <2>2 DEF Closed
    <2>4. \A k \in Clients : clients[call[p].conn] = k => owner[k] = call[p].conn
      BY <2>1, LifecycleAssumption DEF MapInv, RegisteredIsOpen
    <2>5. QED
      BY <2>1, <2>2, <2>3, <2>4
  <1>5. call'[p] = Idle \/ ((Work(call[p]))' \subseteq Work(call[p]) /\ call'[p].group = call[p].group
                              /\ (Closing(call'[p]) => Closing(call[p])) /\ call'[p].pc # "idle")
    BY <1>1, <1>2 DEF Work, Closing
  <1>6. ASSUME NEW c \in Conns \ raced, c \notin Work(call[p])
        PROVE  Untouched(c) /\ (Closing(call'[p]) => call'[p].todo \subseteq call[p].todo)
    <2>1. c # call[p].conn
      BY <1>1, <1>6, LifecycleAssumption DEF Work, Closing
    <2>2. QED
      BY <1>1, <1>2, <1>3, <2>1, IdleWorks DEF Untouched, Closing
  <1>7. ASSUME NEW c \in Conns \ raced, c \in Work(call[p]), PromisedBy(p, c), Expects(p, c)
        PROVE  (PromisedBy(p, c) /\ Expects(p, c))'
    <2>1. c = call[p].conn
      BY <1>1, <1>7 DEF Work, Closing
    <2>2. QED
      BY <1>1, <1>2, <1>3, <1>7, <2>1, IdleWorks, LifecycleAssumption
      DEF PromisedBy, Expects, Installed, Shown, Grouped, Settling, Installs, Joining, Works,
          Losing,
          At, Closing
  <1>8. QED
    BY <1>1, <1>2, <1>5, <1>6, <1>7, FactsGoOn

\* The client that goes is closed, and its record with it.
LEMMA FactsCut ==
  ASSUME MapInv, MapInv', RaceInv, FactsInv, NEW p \in Calls, Cut(p)
  PROVE  RaceInv' /\ FactsInv'
  <1>1. /\ call'[p] = Idle \/ (call'[p].pc \in {"stuck"} /\ call'[p].conn = call[p].conn /\ call'[p].group = call[p].group
           /\ call'[p].todo = call[p].todo /\ call'[p].client = call[p].client)
        /\ call[p].pc = "cut" /\ \A q \in Calls : q # p => call'[q] = call[q]
    BY GoesOn, Returns DEF Cut, At
  <1>2. UNCHANGED <<owner, members, exists, raced>>
    BY DEF Cut, groupVars
  <1>3. /\ call[p].conn \in Conns /\ clients'[call[p].conn] = None
        /\ \A c \in Conns : c # call[p].conn =>
             clients'[c] = clients[c] /\ status'[c] = status[c] /\ store'[c] = store[c]
        /\ \A k \in Clients : owner[k] # call[p].conn => state'[k] = state[k]
        /\ \A k \in Clients : state'[k] \in {"up", "down"} => state[k] = state'[k] /\ clients[call[p].conn] # k
    BY <1>1, LifecycleAssumption
    DEF Cut, Closed, DeleteFromCache, MapInv, TypeOK, CallInv, Knows, RegisteredIsOpen
  <1>5. call'[p] = Idle \/ ((Work(call[p]))' \subseteq Work(call[p]) /\ call'[p].group = call[p].group
                              /\ (Closing(call'[p]) => Closing(call[p])) /\ call'[p].pc # "idle")
    BY <1>1, <1>2 DEF Work, Closing
  <1>6. ASSUME NEW c \in Conns \ raced, c \notin Work(call[p])
        PROVE  Untouched(c) /\ (Closing(call'[p]) => call'[p].todo \subseteq call[p].todo)
    <2>1. c # call[p].conn
      BY <1>1, <1>6, LifecycleAssumption DEF Work, Closing
    <2>2. QED
      BY <1>1, <1>2, <1>3, <2>1, IdleWorks DEF Untouched, Closing
  <1>7. ASSUME NEW c \in Conns \ raced, c \in Work(call[p]), PromisedBy(p, c), Expects(p, c)
        PROVE  (PromisedBy(p, c) /\ Expects(p, c))'
    <2>1. c = call[p].conn
      BY <1>1, <1>7 DEF Work, Closing
    <2>2. QED
      BY <1>1, <1>2, <1>3, <1>7, <2>1, IdleWorks, LifecycleAssumption
      DEF PromisedBy, Expects, Installed, Shown, Grouped, Settling, Installs, Joining, Works,
          Losing,
          At, Closing
  <1>8. QED
    BY <1>1, <1>2, <1>5, <1>6, <1>7, FactsGoOn

\* One turn of the loop of CloseGroup: what it closes is of the group, or calls overlapped on it.
LEMMA FactsCloseOne ==
  ASSUME MapInv, MapInv', RaceInv, FactsInv, NEW p \in Calls, NEW d \in Conns, CloseOne(p, d)
  PROVE  RaceInv' /\ FactsInv'
  <1>1. /\ call'[p].pc = "closing" /\ call'[p].conn = call[p].conn /\ call'[p].group = call[p].group
        /\ call'[p].todo = call[p].todo \ {d} /\ d \in call[p].todo
        /\ call[p].pc = "closing" /\ \A q \in Calls : q # p => call'[q] = call[q]
    <2>1. call[p] \in CallType /\ call' = [call EXCEPT ![p] = [call[p] EXCEPT !.todo = call[p].todo \ {d}]]
      BY CallMoves DEF CloseOne, MapInv
    <2>2. QED
      BY <2>1 DEF CloseOne, At, CallType, MapInv, TypeOK
  <1>2. UNCHANGED <<owner, members, exists, raced>>
    BY DEF CloseOne, groupVars
  <1>3. /\ clients'[d] = None
        /\ \A c \in Conns : c # d =>
             clients'[c] = clients[c] /\ status'[c] = status[c] /\ store'[c] = store[c]
        /\ \A k \in Clients : owner[k] # d => state'[k] = state[k]
        /\ \A k \in Clients : state'[k] \in {"up", "down"} => state[k] = state'[k] /\ clients[d] # k
    BY LifecycleAssumption
    DEF CloseOne, Closed, DeleteFromCache, MapInv, TypeOK, RegisteredIsOpen
  <1>4. d \in raced \/ d \in Work(call[p])
    BY <1>1 DEF FactsInv, Expects, Work, Closing
  <1>5. (Work(call[p]))' \subseteq Work(call[p])
    BY <1>1, <1>2 DEF Work, Closing
  <1>6. ASSUME NEW c \in Conns \ raced, c \notin Work(call[p]) PROVE Untouched(c)
    <2>1. c # d
      BY <1>4, <1>6
    <2>2. QED
      BY <1>2, <1>3, <2>1 DEF Untouched
  <1>7. ASSUME NEW c \in Conns \ raced, c \in Work(call[p]), PromisedBy(p, c), Expects(p, c)
        PROVE  (PromisedBy(p, c) /\ Expects(p, c))'
    <2>1. CASE c = d
      BY <1>1, <1>2, <1>3, <1>7, <2>1
      DEF PromisedBy, Expects, Installed, Settling, Installs, Works, Losing, At, Closing
    <2>2. CASE c # d
      <3>1. clients[c] # None => state'[clients[c]] = state[clients[c]]
        BY <1>3, <2>2 DEF MapInv, TypeOK, RegisteredIsOpen
      <3>2. Installed(c)'
        BY <1>2, <1>3, <1>7, <2>2 DEF PromisedBy, Installed
      <3>3. QED
        BY <1>1, <1>2, <1>3, <1>7, <2>2, <3>1, <3>2
        DEF PromisedBy, Expects, Shown, Grouped, Settling, Installs, Joining, Works, Losing, At,
            Closing
    <2>3. QED
      BY <2>1, <2>2
  <1>8. QED
    BY <1>1, <1>2, <1>5, <1>6, <1>7, FactsGoOn DEF Closing

\* The group is emptied and deleted when its connections are closed.
LEMMA FactsClearGroup ==
  ASSUME MapInv, MapInv', RaceInv, FactsInv, NEW p \in Calls, ClearGroup(p) \/ DeleteGroup(p)
  PROVE  RaceInv' /\ FactsInv'
  <1>1. PICK g \in Groups : g = call[p].group
    BY DEF ClearGroup, DeleteGroup, At, MapInv, CallInv, Knows
  <1>2. /\ call'[p] = Idle \/ (/\ call'[p].pc = "delete" /\ call'[p].conn = call[p].conn
                              /\ call'[p].group = call[p].group /\ call'[p].todo = call[p].todo)
        /\ At(p, "delete") \/ (At(p, "closing") /\ call[p].todo = {})
        /\ \A q \in Calls : q # p => call'[q] = call[q]
    BY GoesOn, Returns DEF ClearGroup, DeleteGroup
  <1>3. UNCHANGED <<clients, state, owner, store, status, raced>>
    BY DEF ClearGroup, DeleteGroup, mapVars, recordVars
  <1>4. /\ members'[g] = {} /\ \A h \in Groups : h # g => members'[h] = members[h]
        /\ exists \ {g} \subseteq exists' /\ Closing(call[p]) /\ Work(call[p]) = members[g]
    BY <1>1, <1>2 DEF ClearGroup, DeleteGroup, MapInv, TypeOK, Work, Closing, At
  <1>5. call'[p] = Idle \/ (/\ (Work(call[p]))' \subseteq Work(call[p])
                            /\ call'[p].group = call[p].group /\ call'[p].pc # "idle")
    BY <1>1, <1>2, <1>4 DEF Work, Closing
  <1>6. \A h \in Groups : \/ members'[h] = members[h]
                          \/ h = call[p].group /\ members'[h] \subseteq members[h] \cup Work(call[p])
    BY <1>1, <1>4
  <1>7. ASSUME NEW c \in Conns \ raced, c \notin Work(call[p])
        PROVE  Untouched(c) /\ (Closing(call'[p]) => call'[p].todo \subseteq call[p].todo)
    <2>1. ASSUME NEW q \in Calls, Works(q, c, {"join"}) PROVE call[q].group # g
      <3>1. q # p /\ c \in Work(call[q])
        BY <1>2, <2>1, LifecycleAssumption DEF Works, Work, Closing, At
      <3>2. QED
        BY <1>1, <1>4, <3>1, WorksAlone, LifecycleAssumption
    <2>2. QED
      BY <1>2, <1>3, <1>4, <1>7, <2>1, IdleWorks DEF Untouched
  <1>8. ASSUME NEW c \in Conns \ raced, c \in Work(call[p]), PromisedBy(p, c), Expects(p, c)
        PROVE  (PromisedBy(p, c) /\ Expects(p, c))'
    <2>1. clients[c] = None
      BY <1>1, <1>2, <1>4, <1>8 DEF Expects
    <2>2. call'[p].pc \in {"idle", "delete"} /\ (Closing(call'[p]) => call'[p].todo = call[p].todo)
      BY <1>2, IdleWorks
    <2>3. c \notin call[p].todo
      BY <1>2, <1>4, <1>8 DEF Expects
    <2>4. QED
      BY <1>3, <1>8, <2>1, <2>2, <2>3
      DEF PromisedBy, Expects, Installed, Settling, Installs, Works, Losing, At
  <1>9. QED
    BY <1>2, <1>3, <1>4, <1>5, <1>6, <1>7, <1>8, FactsGoOn

-----------------------------------------------------------------------------
\* A call that begins has found what it relies on.
LEMMA FactsCreate ==
  ASSUME MapInv, MapInv', RaceInv, FactsInv, NEW p \in Calls, NEW d \in Conns, NEW g \in Groups,
         NEW k \in Clients, Create(p, d, g, k)
  PROVE  RaceInv' /\ FactsInv'
  <1> DEFINE r == [Idle EXCEPT !.pc = "dial", !.conn = d, !.client = k, !.group = g]
  <1>1. r.pc = "dial" /\ r.conn = d /\ r.group = g /\ g # None /\ d # None
    BY LifecycleAssumption DEF Idle
  <1>2. Begin(p, r) /\ UNCHANGED <<clients, status, members, exists>>
    BY DEF Create, groupVars
  <1>3. /\ \A c \in Conns : c # d => store'[c] = store[c]
        /\ owner[k] = None /\ owner'[k] = d /\ \A j \in Clients : j # k => owner'[j] = owner[j] /\ state'[j] = state[j]
        /\ \A j \in Clients : owner[j] # d
        /\ state'[k] = "dialing"
    BY DEF Create, NewClient, MapInv, TypeOK
  <1>4. clients[d] = None
    BY <1>3 DEF MapInv, TypeOK, RegisteredIsOpen
  <1> HIDE DEF r
  <1>5. Work(r) = {d} /\ ~Closing(r)
    BY <1>1 DEF Work, Closing
  <1>6. ASSUME NEW c \in Conns \ raced, c \notin Work(r) PROVE Untouched(c)
    BY <1>2, <1>3, <1>5, <1>6, LifecycleAssumption DEF Untouched
  <1>7. (PromisedBy(p, d) /\ Expects(p, d))'
    BY <1>1, <1>2, <1>3, <1>4, Begins
    DEF PromisedBy, Expects, Installed, Settling, Installs, Works, Losing, At, Closing
  <1>8. QED
    BY <1>1, <1>2, <1>5, <1>6, <1>7, FactsBegin

\* A Reconnect begins with a client of its own, before it touches the map.
LEMMA FactsReconnect ==
  ASSUME MapInv, MapInv', RaceInv, FactsInv, NEW p \in Calls, NEW d \in Conns, NEW k \in Clients,
         Reconnect(p, d, k)
  PROVE  RaceInv' /\ FactsInv'
  <1> DEFINE r == [Idle EXCEPT !.pc = "clean", !.conn = d, !.client = k]
  <1>1. r.pc = "clean" /\ r.conn = d /\ r.group = None /\ d # None
    BY LifecycleAssumption DEF Idle
  <1>2. Begin(p, r) /\ UNCHANGED <<clients, state, store, status, members, exists>> /\ Grouped(d)
    BY DEF Reconnect, recordVars, groupVars, Grouped
  <1>3. owner[k] = None /\ owner'[k] = d /\ \A j \in Clients : j # k => owner'[j] = owner[j]
    BY DEF Reconnect, NewClient, MapInv, TypeOK
  <1>4. state[k] = "unused"
    BY <1>3 DEF MapInv, OwnedInv
  <1> HIDE DEF r
  <1>5. Work(r) = {d} /\ ~Closing(r)
    BY <1>1 DEF Work, Closing
  <1>6. ASSUME NEW c \in Conns \ raced, c \notin Work(r) PROVE Untouched(c)
    BY <1>2, <1>3, <1>4, <1>5, <1>6, LifecycleAssumption DEF Untouched
  <1>7. PromisedBy(p, d) => (PromisedBy(p, d) /\ Expects(p, d))'
    BY <1>1, <1>2, <1>3, <1>4, Begins
    DEF PromisedBy, Expects, Installed, Shown, Grouped, Settling, Installs, Joining, Works,
        Losing, At, Closing
  <1>8. QED
    BY <1>1, <1>2, <1>5, <1>6, <1>7, FactsBegin

\* A client that is lost has its callback to set the status.
LEMMA FactsDrop ==
  ASSUME MapInv, MapInv', RaceInv, FactsInv, NEW p \in Calls, NEW k \in Clients, Drop(p, k)
  PROVE  RaceInv' /\ FactsInv'
  <1> DEFINE r == [Idle EXCEPT !.pc = "lookup", !.conn = owner[k]]
  <1>1. r.pc = "lookup" /\ r.conn = owner[k] /\ r.group = None
    BY DEF Idle
  <1>2. Begin(p, r) /\ UNCHANGED <<clients, owner, store, status, members, exists>>
    BY DEF Drop, recordVars, groupVars
  <1>3. state[k] = "up" /\ state'[k] = "down" /\ \A j \in Clients : j # k => state'[j] = state[j]
    BY DEF Drop, MapInv, TypeOK
  <1> HIDE DEF r
  <1>4. Work(r) \subseteq {owner[k]} /\ ~Closing(r)
    BY <1>1 DEF Work, Closing
  <1>5. ASSUME NEW c \in Conns \ raced, c \notin Work(r) PROVE Untouched(c)
    <2>1. c # owner[k]
      BY <1>1, <1>5, LifecycleAssumption DEF Work, Closing
    <2>2. QED
      BY <1>2, <1>3, <2>1 DEF Untouched
  <1>6. ASSUME NEW c \in Conns, c \in Work(r), PromisedBy(p, c), Expects(p, c)
        PROVE  (PromisedBy(p, c) /\ Expects(p, c))'
    <2>1. c = owner[k] /\ clients[c] = k
      BY <1>3, <1>4, <1>6 DEF PromisedBy, Installed
    <2>2. QED
      BY <1>1, <1>2, <1>3, <1>6, <2>1, Begins, LifecycleAssumption
      DEF PromisedBy, Expects, Installed, Grouped, Settling, Installs, Joining, Works, Losing,
          At, Closing
  <1>7. QED
    BY <1>1, <1>2, <1>4, <1>5, <1>6, FactsBegin

\* Calls that begin and change no client, group or status.
LEMMA FactsBegins ==
  ASSUME MapInv, MapInv', RaceInv, FactsInv, NEW p \in Calls,
         \/ \E d \in Conns : \/ SaveConnection(p, d) \/ Disconnect(p, d)
                            \/ HealthCheck(p, d) \/ ExecuteCommand(p, d)
         \/ \E g \in Groups : CloseGroup(p, g)
  PROVE  RaceInv' /\ FactsInv'
  <1>1. ASSUME NEW r, Begin(p, r), r.pc \notin {"idle", "dial", "insert", "redial", "join", "status", "clean", "check"},
               r.group = None \/ Closing(r),
               UNCHANGED <<clients, state, owner, status, members, exists>>,
               \A c \in Conns : store'[c] = "absent" <=> store[c] = "absent",
               Closing(r) => r.pc = "closing" /\ r.todo = members[r.group],
               \A c \in Conns : r.pc \in Losing /\ r.conn = c /\ clients[c] # None => state[clients[c]] = "down"
        PROVE  RaceInv' /\ FactsInv'
    <2>1. \A c \in Conns : Untouched(c)
      BY <1>1 DEF Untouched
    <2>2. call'[p] = r /\ At(p, "idle")
      BY <1>1, Begins
    <2>3. ASSUME NEW c \in Conns, PromisedBy(p, c), Expects(p, c)
          PROVE  (PromisedBy(p, c) /\ Expects(p, c))'
      <3>1. Expects(p, c)'
        BY <1>1, <2>2, <2>3 DEF Expects, Works, Losing, At, Closing
      <3>2. Installed(c)' /\ (Shown(c) => Shown(c)') /\ (Grouped(c) => Grouped(c)')
        BY <1>1, <2>3 DEF PromisedBy, Installed, Shown, Grouped
      <3>3. QED
        BY <1>1, <2>2, <2>3, <3>1, <3>2
        DEF PromisedBy, Settling, Installs, Joining, Works, Losing, At
    <2>4. QED
      BY <1>1, <2>1, <2>3, FactsBegin
  <1>2. ASSUME NEW d \in Conns, SaveConnection(p, d) PROVE RaceInv' /\ FactsInv'
    <2> DEFINE r == [Idle EXCEPT !.pc = "show"]
    <2>1. r.pc = "show" /\ r.group = None
      BY DEF Idle
    <2>2. /\ Begin(p, r) /\ UNCHANGED <<clients, state, owner, status, members, exists>>
          /\ \A c \in Conns : store'[c] = "absent" <=> store[c] = "absent"
      BY <1>2 DEF SaveConnection, mapVars, groupVars, MapInv, TypeOK
    <2> HIDE DEF r
    <2>3. QED
      BY <1>1, <2>1, <2>2 DEF Closing, Losing
  <1>3. ASSUME NEW d \in Conns, Disconnect(p, d) PROVE RaceInv' /\ FactsInv'
    <2> DEFINE r == [Idle EXCEPT !.pc = "cut", !.conn = d]
    <2>1. r.pc = "cut" /\ r.group = None
      BY DEF Idle
    <2>2. Begin(p, r) /\ UNCHANGED <<clients, state, owner, store, status, members, exists>>
      BY <1>3 DEF Disconnect, mapVars, recordVars, groupVars
    <2> HIDE DEF r
    <2>3. QED
      BY <1>1, <2>1, <2>2 DEF Closing, Losing
  <1>4. ASSUME NEW d \in Conns, HealthCheck(p, d) PROVE RaceInv' /\ FactsInv'
    <2> DEFINE r == [Idle EXCEPT !.pc = "lookup", !.conn = d]
    <2>1. r.pc = "lookup" /\ r.conn = d /\ r.group = None
      BY DEF Idle
    <2>2. /\ Begin(p, r) /\ UNCHANGED <<clients, state, owner, store, status, members, exists>>
          /\ state[clients[d]] = "down"
      BY <1>4 DEF HealthCheck, mapVars, recordVars, groupVars
    <2> HIDE DEF r
    <2>3. QED
      BY <1>1, <2>1, <2>2 DEF Closing, Losing
  <1>5. ASSUME NEW d \in Conns, ExecuteCommand(p, d) PROVE RaceInv' /\ FactsInv'
    <2> DEFINE r == [Idle EXCEPT !.pc = "run", !.conn = d]
    <2>1. r.pc = "run" /\ r.group = None
      BY DEF Idle
    <2>2. Begin(p, r) /\ UNCHANGED <<clients, state, owner, store, status, members, exists>>
      BY <1>5 DEF ExecuteCommand, mapVars, recordVars, groupVars
    <2> HIDE DEF r
    <2>3. QED
      BY <1>1, <2>1, <2>2 DEF Closing, Losing
  <1>6. ASSUME NEW g \in Groups, CloseGroup(p, g) PROVE RaceInv' /\ FactsInv'
    <2> DEFINE r == [Idle EXCEPT !.pc = "closing", !.group = g, !.todo = members[g]]
    <2>1. r.pc = "closing" /\ r.group = g /\ r.todo = members[g]
      BY DEF Idle
    <2>2. Begin(p, r) /\ UNCHANGED <<clients, state, owner, store, status, members, exists>>
      BY <1>6 DEF CloseGroup, mapVars, recordVars, groupVars
    <2> HIDE DEF r
    <2>3. QED
      BY <1>1, <2>1, <2>2 DEF Closing, Losing
  <1>7. QED
    BY <1>2, <1>3, <1>4, <1>5, <1>6

\* Waiting for the lock, a dial that ends, a record that is made or deleted and a group that
\* is made.
LEMMA FactsAside ==
  ASSUME MapInv, RaceInv, FactsInv,
         \/ \E p \in Calls : Announce(p)
         \/ \E k \in Clients, s \in {"dialed", "failed"} : DialEnds(k, s)
         \/ \E d \in Conns : DeleteConnection(d) \/ CreateUnwritten(d)
         \/ \E g \in Groups : CreateGroup(g)
         \/ UNCHANGED vars
  PROVE  RaceInv' /\ FactsInv'
  <1>1. UNCHANGED <<call, raced, members, clients, owner>> /\ exists \subseteq exists'
    BY DEF Announce, DialEnds, DeleteConnection, CreateUnwritten, CreateGroup, vars, mapVars,
       groupVars
  <1>2. RaceInv'
    BY <1>1 DEF RaceInv, Clash, Work, Closing, At
  <1>3. ASSUME NEW c \in Conns, ~Untouched(c) PROVE DeleteConnection(c) \/ CreateUnwritten(c)
    <2>1. ASSUME NEW d \in Conns, DeleteConnection(d) \/ CreateUnwritten(d), c # d
          PROVE  Untouched(c)
      BY <1>1, <2>1 DEF DeleteConnection, CreateUnwritten, mapVars, Untouched, MapInv, TypeOK
    <2>2. ASSUME NEW k \in Clients, NEW s \in {"dialed", "failed"}, DialEnds(k, s)
          PROVE  Untouched(c)
      BY <1>1, <2>2 DEF DialEnds, recordVars, Untouched, MapInv, TypeOK
    <2>3. ASSUME UNCHANGED <<mapVars, recordVars>> PROVE Untouched(c)
      BY <1>1, <2>3 DEF mapVars, recordVars, Untouched
    <2>4. QED
      BY <1>3, <2>1, <2>2, <2>3 DEF Announce, CreateGroup, vars
  <1>4. ASSUME NEW c \in Conns \ raced PROVE Promised(c)' /\ \A q \in Calls : Expects(q, c)'
    <2>1. CASE Untouched(c)
      BY <1>1, <2>1, FactsElsewhere
    <2>2. CASE ~Untouched(c)
      <3>1. /\ UNCHANGED <<clients, state, owner, members, exists, call>>
            /\ store'[c] = "absent" \/ clients[c] = None
        <4>1. CASE DeleteConnection(c)
          BY <4>1 DEF DeleteConnection, mapVars, groupVars, MapInv, TypeOK
        <4>2. CASE CreateUnwritten(c)
          BY <4>2 DEF CreateUnwritten, mapVars, groupVars, MapInv, TypeOK, RegisteredIsOpen
        <4>3. QED
          BY <1>3, <2>2, <4>1, <4>2
      <3>2. Promised(c) /\ \A q \in Calls : Expects(q, c)
        BY DEF FactsInv
      <3>3. QED
        BY <3>1, <3>2
        DEF Promised, Expects, Installed, Shown, Grouped, Installs, Joining, Works, At
    <2>3. QED
      BY <2>1, <2>2
  <1>5. QED
    BY <1>1, <1>2, <1>4 DEF FactsInv

-----------------------------------------------------------------------------
\* At first nothing is promised, as nothing is in the map.
LEMMA FactsInit == Init => RaceInv /\ FactsInv
  <1> SUFFICES ASSUME Init PROVE RaceInv /\ FactsInv
    OBVIOUS
  <1>1. \A p \in Calls : call[p] = Idle
    BY DEF Init
  <1>2. RaceInv
    BY <1>1, IdleWorks DEF RaceInv, Clash
  <1>3. ASSUME NEW c \in Conns PROVE Promised(c) /\ \A p \in Calls : Expects(p, c)
    <2>1. \A p \in Calls : Aside(p, c)
      BY <1>1, IdleWorks DEF Aside
    <2>2. clients[c] = None /\ \A k \in Clients : state[k] = "unused"
      BY DEF Init
    <2>3. QED
      BY <2>1, <2>2, AsideExpects DEF Promised, Installed
  <1>4. QED
    BY <1>2, <1>3 DEF FactsInv

\* The invariant is inductive.
LEMMA FactsStep ==
  ASSUME MapInv, RaceInv, FactsInv, [Next]_vars
  PROVE  RaceInv' /\ FactsInv'
  <1>1. MapInv'
    BY MapStep
  <1>2. ASSUME NEW p \in Calls, Step(p) PROVE RaceInv' /\ FactsInv'
    BY <1>1, <1>2, FactsQuiet, FactsSetConnected, FactsMark, FactsCreateFails, FactsCheckGroup,
       FactsJoin,
       FactsInsert, FactsClean, FactsCut, FactsCloseOne, FactsClearGroup, FactsAside
    DEF Step, Proceeds
  <1>3. ASSUME NEW p \in Calls, Calling(p) PROVE RaceInv' /\ FactsInv'
    BY <1>1, <1>3, FactsBegins, FactsCreate, FactsReconnect, FactsDrop DEF Calling
  <1>4. QED
    BY <1>2, <1>3, FactsAside DEF Next

\* For every number of connections, clients, groups and calls: calls that clash on a connection
\* are noted (raced), and of every other connection the client in the map is the one that was
\* installed, its status is shown or about to be by the call at work, and it is in a group or
\* about to join one (CreateAndConnectWithGroup, Reconnect, CloseGroup, onConnectionDisconnected).
THEOREM FactsHold == Spec => [](MapInv /\ RaceInv /\ FactsInv)
  <1>1. Init => MapInv /\ RaceInv /\ FactsInv
    BY MapInit, FactsInit
  <1>2. MapInv /\ RaceInv /\ FactsInv /\ [Next]_vars => (MapInv /\ RaceInv /\ FactsInv)'
    BY MapStep, FactsStep
  <1>3. QED
    BY <1>1, <1>2, PTL DEF Spec

\* A client that was put into s.clients leaves it only by being closed (service.go:215, 327, 1029):
\* none is lost that still runs, unless two calls overlapped on its connection.
THEOREM NoClientLost == Spec => []InstalledIsRegistered
  <1>1. MapInv /\ FactsInv => InstalledIsRegistered
    <2>1. ASSUME MapInv, FactsInv, NEW k \in Clients, state[k] \in {"up", "down"}, owner[k] \notin raced
          PROVE  clients[owner[k]] = k
      <3>1. owner[k] \in Conns
        BY <2>1 DEF MapInv, OwnedInv, TypeOK
      <3>2. QED
        BY <2>1, <3>1 DEF FactsInv, Promised, Installed
    <2>2. QED
      BY <2>1 DEF InstalledIsRegistered
  <1>2. QED
    BY <1>1, FactsHold, PTL

\* With no call under way the status that the tabs show is the client's own
\* (onConnectionDisconnected, service.go:1423), unless two calls overlapped on the connection.
THEOREM StatusIsClients == Spec => []StatusFollowsClient
  <1>1. FactsInv => StatusFollowsClient
    <2>1. ASSUME FactsInv, NEW c \in Conns, Settled(c), clients[c] # None PROVE Shown(c)
      <3>1. \A p \in Calls : ~Settling(p, c)
        BY <2>1, LifecycleAssumption DEF Settled, Settling, Works, Losing, Work, Closing
      <3>2. QED
        BY <2>1, <3>1 DEF FactsInv, Promised, Settled
    <2>2. QED
      BY <2>1 DEF StatusFollowsClient, Shown
  <1>2. QED
    BY <1>1, FactsHold, PTL

\* Likewise a connection that has a client is in a group that some window shows.
THEOREM NoClientHidden == Spec => []ConnectedIsGrouped
  <1>1. FactsInv => ConnectedIsGrouped
    <2>1. ASSUME FactsInv, NEW c \in Conns, Settled(c), clients[c] # None PROVE Grouped(c)
      <3>1. \A p \in Calls : ~Joining(p, c)
        BY <2>1, LifecycleAssumption DEF Settled, Joining, Works, Work, Closing
      <3>2. QED
        BY <2>1, <3>1 DEF FactsInv, Promised, Settled
    <2>2. QED
      BY <2>1 DEF ConnectedIsGrouped, Grouped
  <1>2. QED
    BY <1>1, FactsHold, PTL
=============================================================================

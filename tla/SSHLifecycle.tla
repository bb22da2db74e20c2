---------------------------- MODULE SSHLifecycle ----------------------------
(***************************************************************************)
(* The life of SSH connections in internal/ssh/service.go: the map from    *)
(* connection ids to clients and the lock s.mu that guards it, the records *)
(* of the storage and their status, the groups of the windows, and the     *)
(* clients themselves (client.go).                                         *)
(*                                                                         *)
(* Every binding the frontend calls runs on a goroutine of its own, as do  *)
(* the disconnect callback and the health check: a call.  What a call does *)
(* while it holds s.mu, or between two uses of it, is one action; storage  *)
(* and groups have locks of their own that no call keeps.  Shell sessions, *)
(* files and commands matter here only in that a command keeps a read lock *)
(* while it runs and that the end of a shell reports a lost connection.    *)
(***************************************************************************)
EXTENDS Naturals, FiniteSets

CONSTANTS
  Conns,    \* connection ids generateConnectionID can return
  Clients,  \* SSHClient objects
  Groups,   \* group ids
  Default,  \* the group "group-1"
  Calls,    \* bound: goroutines at a time
  None

ASSUME LifecycleAssumption ==
  /\ Default \in Groups
  /\ None \notin Conns \cup Clients \cup Groups \cup Calls

VARIABLES
  clients,   \* s.clients: the client of a connection
  state,     \* of a client: isConnected and closing, and how far its dial is
  owner,     \* the connection a client was made for (its callback's connID)
  store,     \* record of a connection: absent, temporary or saved
  status,    \* Status of the record
  configs,   \* reconnectConfigs
  members,   \* ConnIDs of a group
  exists,    \* the groups there are
  writer,    \* s.mu: the call that announced itself as its writer
  readers,   \* s.mu: the calls that keep a read lock
  call,      \* what each call is at
  raced      \* auxiliary: connections on which two calls overlapped

mapVars == <<clients, state, owner>>
recordVars == <<store, status, configs>>
groupVars == <<members, exists>>
lockVars == <<writer, readers>>
vars == <<mapVars, recordVars, groupVars, lockVars, call, raced>>

Idle == [pc |-> "idle", conn |-> None, client |-> None, group |-> None, todo |-> {}]
Lockers == {"insert", "clean", "cut", "closing"}
Places == Lockers \cup {"idle", "dial", "status", "check", "join", "redial", "forget",
                        "show", "stuck", "delete", "lookup", "keep", "mark", "run"}

Init ==
  /\ clients = [c \in Conns |-> None]
  /\ state = [k \in Clients |-> "unused"]
  /\ owner = [k \in Clients |-> None]
  /\ store \in [Conns -> {"absent", "saved"}]   \* what LoadFromPermanent reads
  /\ status = [c \in Conns |-> "disconnected"]
  /\ configs = {}
  /\ members = [g \in Groups |-> {}]
  /\ exists = {Default}
  /\ writer = None /\ readers = {}
  /\ call = [p \in Calls |-> Idle]
  /\ raced = {}

-----------------------------------------------------------------------------
(* s.mu.  A writer announces itself, and waits for the readers that are in;  *)
(* from then on new readers wait for it.                                     *)

CanRead == writer = None
MayWrite(p) == writer = p /\ readers = {}

Announce(p) ==
  /\ call[p].pc \in Lockers
  /\ call[p].pc = "closing" => call[p].todo # {}
  /\ writer = None
  /\ writer' = p
  /\ UNCHANGED <<mapVars, recordVars, groupVars, readers, call, raced>>

-----------------------------------------------------------------------------
(* Calls                                                                     *)

At(p, place) == call[p].pc = place
Goto(p, place) == call' = [call EXCEPT ![p].pc = place]
Return(p) == call' = [call EXCEPT ![p] = Idle]

Closing(r) == r.pc \in {"closing", "delete"}

\* The connections a call works on.
Work(r) ==
  IF Closing(r) THEN members[r.group]
  ELSE IF r.pc = "run" THEN {} ELSE {r.conn} \ {None}

\* The connections two calls get into each other's way about.
Clash(r, s) ==
  (Work(r) \cap Work(s)) \cup
    IF r.group # None /\ r.group = s.group /\ (Closing(r) \/ Closing(s))
    THEN Work(r) \cup Work(s) ELSE {}

Begin(p, r) ==
  /\ At(p, "idle")
  /\ call' = [call EXCEPT ![p] = r]
  /\ raced' = raced \cup UNION {Clash(r, call[q]) : q \in Calls}

-----------------------------------------------------------------------------
(* The storage                                                               *)

DeleteFromCache(c) ==
  /\ store' = [store EXCEPT ![c] = IF @ = "temporary" THEN "absent" ELSE @]
  /\ status' = [status EXCEPT ![c] = "disconnected"]

UpdateConnectionStatus(c, s) ==
  status' = IF store[c] = "absent" THEN status ELSE [status EXCEPT ![c] = s]

\* broadcastConnections asks for a read lock for each record of the storage.
CanBroadcast == CanRead \/ \A c \in Conns : store[c] = "absent"

\* MarkAsSaved, then the broadcast.
SaveConnection(p, c) ==
  /\ store[c] # "absent"
  /\ store' = [store EXCEPT ![c] = "saved"]
  /\ Begin(p, [Idle EXCEPT !.pc = "show"])
  /\ UNCHANGED <<mapVars, status, configs, groupVars, lockVars>>

DeleteConnection(c) ==
  /\ store[c] # "absent"
  /\ store' = [store EXCEPT ![c] = "absent"]
  /\ status' = [status EXCEPT ![c] = "disconnected"]
  /\ UNCHANGED <<mapVars, configs, groupVars, lockVars, call, raced>>

-----------------------------------------------------------------------------
(* CreateAndConnectWithGroup                                                 *)

NewClient(k, c) ==
  /\ owner[k] = None
  /\ owner' = [owner EXCEPT ![k] = c]

\* A fresh id gets its record, and a goroutine dials.
Create(p, c, g, k) ==
  /\ store[c] = "absent" /\ \A j \in Clients : owner[j] # c
  /\ NewClient(k, c)
  /\ state' = [state EXCEPT ![k] = "dialing"]
  /\ store' = [store EXCEPT ![c] = "temporary"]
  /\ Begin(p, [Idle EXCEPT !.pc = "dial", !.conn = c, !.client = k, !.group = g])
  /\ UNCHANGED <<clients, status, configs, groupVars, lockVars>>

\* AddConnection could not write its file: the record is there, and no dial follows.
CreateUnwritten(c) ==
  /\ store[c] = "absent" /\ \A j \in Clients : owner[j] # c
  /\ store' = [store EXCEPT ![c] = "temporary"]
  /\ UNCHANGED <<mapVars, status, configs, groupVars, lockVars, call, raced>>

\* Connect of a client ends, whether or not anybody still waits for it.
DialEnds(k, s) ==
  /\ state[k] = "dialing"
  /\ s \in {"dialed", "failed"}
  /\ state' = [state EXCEPT ![k] = s]
  /\ UNCHANGED <<clients, owner, recordVars, groupVars, lockVars, call, raced>>

CreateConnected(p) ==
  /\ At(p, "dial")
  /\ state[call[p].client] = "dialed"
  /\ Goto(p, "insert")
  /\ UNCHANGED <<mapVars, recordVars, groupVars, lockVars, raced>>

\* The dial failed, or the timeout fired first.
CreateFails(p) ==
  /\ At(p, "dial")
  /\ DeleteFromCache(call[p].conn)
  /\ Return(p)
  /\ UNCHANGED <<mapVars, configs, groupVars, lockVars, raced>>

\* The critical section that puts the new client into the map (also of Reconnect).
Insert(p) ==
  LET c == call[p].conn  k == call[p].client IN
  /\ At(p, "insert") /\ MayWrite(p)
  /\ clients' = [clients EXCEPT ![c] = k]
  /\ state' = [state EXCEPT ![k] = "up"]
  /\ writer' = None
  /\ Goto(p, "status")
  /\ UNCHANGED <<owner, recordVars, groupVars, readers, raced>>

SetConnected(p) ==
  /\ At(p, "status")
  /\ UpdateConnectionStatus(call[p].conn, "connected")
  /\ Goto(p, IF call[p].group = None THEN "forget" ELSE "check")
  /\ UNCHANGED <<mapVars, store, configs, groupVars, lockVars, raced>>

CheckGroupOnly(p) ==
  /\ At(p, "check")
  /\ Goto(p, "join")
  /\ UNCHANGED <<mapVars, recordVars, groupVars, lockVars, raced>>

\* A group that was closed meanwhile is made again.
CheckGroup(p) ==
  /\ At(p, "check")
  /\ exists' = exists \cup {call[p].group}
  /\ Goto(p, "join")
  /\ UNCHANGED <<mapVars, recordVars, members, lockVars, raced>>

\* AddConnectionToGroup fails if the group was closed again.
Join(p) ==
  LET g == call[p].group IN
  /\ At(p, "join")
  /\ members' = IF g \in exists THEN [members EXCEPT ![g] = @ \cup {call[p].conn}]
                ELSE members
  /\ Return(p)
  /\ UNCHANGED <<mapVars, recordVars, exists, lockVars, raced>>

CreateGroup(g) ==
  /\ g \notin exists
  /\ exists' = exists \cup {g}
  /\ UNCHANGED <<mapVars, recordVars, members, lockVars, call, raced>>

-----------------------------------------------------------------------------
(* Reconnect                                                                 *)

\* A tab offers it; without a configuration it fails at once.  The call takes the
\* object it will make out of the bounded supply.
Reconnect(p, c, k) ==
  /\ \E g \in exists : c \in members[g]
  /\ c \in configs \/ store[c] # "absent"
  /\ NewClient(k, c)
  /\ Begin(p, [Idle EXCEPT !.pc = "clean", !.conn = c, !.client = k])
  /\ UNCHANGED <<clients, state, recordVars, groupVars, lockVars>>

\* client.Close, for the client in the map.
Closed(c) == [j \in Clients |-> IF j = clients[c] THEN "closed" ELSE state[j]]

\* The old client goes, and a new one dials.
CleanKeepingEntry(p) ==
  LET c == call[p].conn IN
  /\ At(p, "clean") /\ MayWrite(p)
  /\ state' = [Closed(c) EXCEPT ![call[p].client] = "dialing"]
  /\ writer' = None
  /\ Goto(p, "redial")
  /\ UNCHANGED <<clients, owner, recordVars, groupVars, readers, raced>>

CleanWithoutClose(p) ==
  LET c == call[p].conn IN
  /\ At(p, "clean") /\ MayWrite(p)
  /\ state' = [state EXCEPT ![call[p].client] = "dialing"]
  /\ clients' = [clients EXCEPT ![c] = None]
  /\ writer' = None
  /\ Goto(p, "redial")
  /\ UNCHANGED <<owner, recordVars, groupVars, readers, raced>>

Clean(p) ==
  LET c == call[p].conn IN
  /\ At(p, "clean") /\ MayWrite(p)
  /\ state' = [Closed(c) EXCEPT ![call[p].client] = "dialing"]
  /\ clients' = [clients EXCEPT ![c] = None]
  /\ writer' = None
  /\ Goto(p, "redial")
  /\ UNCHANGED <<owner, recordVars, groupVars, readers, raced>>

Redialed(p) ==
  LET s == state[call[p].client] IN
  /\ At(p, "redial")
  /\ s # "dialing"
  /\ IF s = "dialed" THEN Goto(p, "insert") ELSE Return(p)
  /\ UNCHANGED <<mapVars, recordVars, groupVars, lockVars, raced>>

Forget(p) ==
  /\ At(p, "forget")
  /\ configs' = configs \ {call[p].conn}
  /\ Goto(p, "show")
  /\ UNCHANGED <<mapVars, store, status, groupVars, lockVars, raced>>

Show(p) ==
  /\ At(p, "show")
  /\ CanBroadcast
  /\ Return(p)
  /\ UNCHANGED <<mapVars, recordVars, groupVars, lockVars, raced>>

-----------------------------------------------------------------------------
(* Disconnect and CloseGroup                                                 *)

Disconnect(p, c) ==
  /\ \E g \in exists : c \in members[g]
  /\ Begin(p, [Idle EXCEPT !.pc = "cut", !.conn = c])
  /\ UNCHANGED <<mapVars, recordVars, groupVars, lockVars>>

\* The body of Disconnect, which broadcasts while it still holds s.mu: if any record is
\* left, the broadcast asks for a read lock that its own goroutine keeps from it.
Cut(p) ==
  LET c == call[p].conn IN
  /\ At(p, "cut") /\ MayWrite(p)
  /\ IF clients[c] = None
     THEN writer' = None /\ Return(p) /\ UNCHANGED <<clients, state, store, status>>
     ELSE /\ state' = Closed(c)
          /\ clients' = [clients EXCEPT ![c] = None]
          /\ DeleteFromCache(c)
          /\ IF \A d \in Conns : store'[d] = "absent"
             THEN writer' = None /\ Return(p)
             ELSE Goto(p, "stuck") /\ UNCHANGED writer
  /\ UNCHANGED <<owner, configs, groupVars, readers, raced>>

CloseGroup(p, g) ==
  /\ g \in exists
  /\ Begin(p, [Idle EXCEPT !.pc = "closing", !.group = g, !.todo = members[g]])
  /\ UNCHANGED <<mapVars, recordVars, groupVars, lockVars>>

CloseOneKeepingLock(p, c) ==
  /\ At(p, "closing") /\ MayWrite(p)
  /\ c \in call[p].todo
  /\ IF clients[c] = None THEN UNCHANGED <<clients, state, store, status, writer>>
     ELSE /\ state' = Closed(c)
          /\ clients' = [clients EXCEPT ![c] = None]
          /\ DeleteFromCache(c)
          /\ writer' = None
  /\ call' = [call EXCEPT ![p].todo = @ \ {c}]
  /\ UNCHANGED <<owner, configs, groupVars, readers, raced>>

\* One turn of the loop over the copied ids.
CloseOne(p, c) ==
  /\ At(p, "closing") /\ MayWrite(p)
  /\ c \in call[p].todo
  /\ IF clients[c] = None THEN UNCHANGED <<clients, state, store, status>>
     ELSE /\ state' = Closed(c)
          /\ clients' = [clients EXCEPT ![c] = None]
          /\ DeleteFromCache(c)
  /\ writer' = None
  /\ call' = [call EXCEPT ![p].todo = @ \ {c}]
  /\ UNCHANGED <<owner, configs, groupVars, readers, raced>>

ClearGroup(p) ==
  LET g == call[p].group IN
  /\ At(p, "closing") /\ call[p].todo = {}
  /\ members' = [members EXCEPT ![g] = {}]
  /\ Goto(p, "delete")
  /\ UNCHANGED <<mapVars, recordVars, exists, lockVars, raced>>

DeleteGroup(p) ==
  LET g == call[p].group IN
  /\ At(p, "delete")
  /\ members' = [members EXCEPT ![g] = {}]
  /\ exists' = IF g = Default THEN exists ELSE exists \ {g}
  /\ Return(p)
  /\ UNCHANGED <<mapVars, recordVars, lockVars, raced>>

-----------------------------------------------------------------------------
(* Lost connections                                                          *)

\* A shell ends: handleDisconnect marks the client and starts the callback.
Drop(p, k) ==
  /\ state[k] = "up"
  /\ state' = [state EXCEPT ![k] = "down"]
  /\ Begin(p, [Idle EXCEPT !.pc = "lookup", !.conn = owner[k]])
  /\ UNCHANGED <<clients, owner, recordVars, groupVars, lockVars>>

\* The health check runs the callback for a client it finds disconnected.
HealthCheck(p, c) ==
  /\ CanRead
  /\ clients[c] # None
  /\ state[clients[c]] = "down"
  /\ Begin(p, [Idle EXCEPT !.pc = "lookup", !.conn = c])
  /\ UNCHANGED <<mapVars, recordVars, groupVars, lockVars>>

\* onConnectionDisconnected asks for whatever client the connection has by now.
Lookup(p) ==
  /\ At(p, "lookup")
  /\ CanRead
  /\ IF clients[call[p].conn] = None THEN Return(p) ELSE Goto(p, "keep")
  /\ UNCHANGED <<mapVars, recordVars, groupVars, lockVars, raced>>

KeepUnmarked(p) ==
  /\ At(p, "keep")
  /\ configs' = configs \cup {call[p].conn}
  /\ Goto(p, "show")
  /\ UNCHANGED <<mapVars, store, status, groupVars, lockVars, raced>>

Keep(p) ==
  /\ At(p, "keep")
  /\ configs' = configs \cup {call[p].conn}
  /\ Goto(p, "mark")
  /\ UNCHANGED <<mapVars, store, status, groupVars, lockVars, raced>>

Mark(p) ==
  /\ At(p, "mark")
  /\ UpdateConnectionStatus(call[p].conn, "disconnected")
  /\ Goto(p, "show")
  /\ UNCHANGED <<mapVars, store, configs, groupVars, lockVars, raced>>

-----------------------------------------------------------------------------
(* Commands, file operations, searches: they keep a read lock to their end.  *)

ExecuteCommand(p, c) ==
  /\ CanRead
  /\ clients[c] # None
  /\ readers' = readers \cup {p}
  /\ Begin(p, [Idle EXCEPT !.pc = "run", !.conn = c])
  /\ UNCHANGED <<mapVars, recordVars, groupVars, writer>>

CommandEnds(p) ==
  /\ At(p, "run")
  /\ readers' = readers \ {p}
  /\ Return(p)
  /\ UNCHANGED <<mapVars, recordVars, groupVars, writer, raced>>

-----------------------------------------------------------------------------
Proceeds(p) ==
  \/ Announce(p)
  \/ CreateConnected(p) \/ CreateFails(p) \/ Insert(p) \/ SetConnected(p)
  \/ CheckGroup(p) \/ Join(p)
  \/ Clean(p) \/ Redialed(p) \/ Forget(p) \/ Show(p)
  \/ Cut(p)
  \/ \E c \in Conns : CloseOne(p, c)
  \/ ClearGroup(p) \/ DeleteGroup(p)
  \/ Lookup(p) \/ Keep(p) \/ Mark(p)

Step(p) == Proceeds(p) \/ CommandEnds(p)

Calling(p) ==
  \/ \E c \in Conns, g \in Groups, k \in Clients : Create(p, c, g, k)
  \/ \E c \in Conns :
       \/ \E k \in Clients : Reconnect(p, c, k)
       \/ Disconnect(p, c) \/ SaveConnection(p, c)
       \/ HealthCheck(p, c) \/ ExecuteCommand(p, c)
  \/ \E g \in Groups : CloseGroup(p, g)
  \/ \E k \in Clients : Drop(p, k)

Next ==
  \/ \E p \in Calls : Step(p) \/ Calling(p)
  \/ \E k \in Clients, s \in {"dialed", "failed"} : DialEnds(k, s)
  \/ \E c \in Conns : DeleteConnection(c) \/ CreateUnwritten(c)
  \/ \E g \in Groups : CreateGroup(g)

Spec == Init /\ [][Next]_vars

\* Calls run on, and a create gives up its dial at its timeout.  sync.RWMutex lets neither
\* a reader nor a writer starve, hence strong fairness.  Neither a command has to end
\* (client.go:218) nor a dial, whose timeout stops at the handshake.
Fairness == \A p \in Calls : SF_vars(Proceeds(p))

FairSpec == Spec /\ Fairness

-----------------------------------------------------------------------------
(* Properties                                                                *)

CallType == [pc : Places, conn : Conns \cup {None}, client : Clients \cup {None},
             group : Groups \cup {None}, todo : SUBSET Conns]

\* The shape of the state.
TypeOK ==
  /\ clients \in [Conns -> Clients \cup {None}]
  /\ state \in [Clients -> {"unused", "dialing", "dialed", "failed",
                           "up", "down", "closed"}]
  /\ owner \in [Clients -> Conns \cup {None}]
  /\ store \in [Conns -> {"absent", "temporary", "saved"}]
  /\ status \in [Conns -> {"connected", "disconnected"}]
  /\ configs \subseteq Conns
  /\ members \in [Groups -> SUBSET Conns]
  /\ exists \subseteq Groups
  /\ writer \in Calls \cup {None}
  /\ readers \subseteq Calls
  /\ call \in [Calls -> CallType]
  /\ raced \subseteq Conns

\* The map never hands out a client that Close was called on, nor the client of another
\* connection, whatever Reconnect, Disconnect, CloseGroup and timeouts do to each other.
RegisteredIsOpen ==
  \A c \in Conns : clients[c] # None =>
    state[clients[c]] \in {"up", "down"} /\ owner[clients[c]] = c

\* A client that was put into the map leaves it only by being closed, unless two calls
\* overlapped on its connection.
InstalledIsRegistered ==
  \A k \in Clients : state[k] \in {"up", "down"} /\ owner[k] \notin raced =>
    clients[owner[k]] = k

Settled(c) ==
  /\ c \notin raced
  /\ \A p \in Calls : c \notin Work(call[p])

\* With no call under way, the status the tabs show is the client's own, unless two
\* calls overlapped on the connection.
StatusFollowsClient ==
  \A c \in Conns : Settled(c) /\ clients[c] # None /\ store[c] # "absent" =>
    (status[c] = "connected" <=> state[clients[c]] = "up")

\* Likewise a connection that has a client is in a group, so that some window shows it
\* and closing that window closes it.
ConnectedIsGrouped ==
  \A c \in Conns : Settled(c) /\ clients[c] # None =>
    \E g \in exists : c \in members[g]

\* Some call keeps s.mu for ever: a command that never ends, or a Disconnect that has
\* blocked itself.
Held == \E p \in Calls : <>[](At(p, "run") \/ At(p, "stuck"))

\* Unless s.mu is kept for ever every call comes back, but a Reconnect whose dial does not
\* end: no other order of readers, writers and broadcasts makes calls wait for each other.
CallsReturn ==
  \/ Held
  \/ \A p \in Calls : (~At(p, "idle") ~> At(p, "idle")) \/ <>[]At(p, "redial")

-----------------------------------------------------------------------------
(* What comments and notes promise and the code does not keep                *)

\* "Supports connecting, disconnecting, deleting" (MIGRATION_NOTES.md:194): Disconnect
\* comes back, where every command ends.
DisconnectReturns ==
  \/ \E p \in Calls : <>[]At(p, "run")
  \/ \A p \in Calls : At(p, "cut") ~> At(p, "idle")
=============================================================================

------------------------------- MODULE Cloud -------------------------------
(***************************************************************************)
(* The private cloud: one program with its cloud service                   *)
(* (internal/ssh/cloud_service.go) and clients (internal/cloud/client),    *)
(* and the server (internal/cloud/server), which other programs use too.   *)
(*                                                                         *)
(* A thread is a call of the service or one of its heartbeat loops.  A     *)
(* client has one socket for life and is named by it; so is the channel    *)
(* that stops its loop.  All programs register under the same name and     *)
(* host, so a server knows one device, and gives it a new id each time it  *)
(* is started.  A connection is known by its host and port; of its         *)
(* password the number of encryptions is kept.                             *)
(***************************************************************************)
EXTENDS Naturals, Sequences, FiniteSets

CONSTANTS
  None,
  Hosts,    \* host and port of connections
  Calls,    \* bound: calls of the service at a time
  Loops,    \* bound: heartbeat loops
  Sockets,  \* bound: sockets that are made, in their order
  Acts      \* bound: calls, failures, restarts, deeds of other programs

ASSUME CloudAssumption ==
  /\ Sockets \in Nat /\ Acts \in Nat
  /\ Calls \cap Loops = {} /\ None \notin Calls \cup Loops
  /\ None \notin {"connect", "disconnect", "pull", "push", "heartbeat"}
  /\ None \notin {"start", "dial", "write", "read", "answered", "top", "select"}
  /\ None \notin [source : Nat, at : Nat, layers : Nat]

VARIABLES
  threads,
  mu,          \* the call that holds cs.mu for its dial
  client,      \* cs.client, 0 if there is none
  stop,        \* cs.stopCh, 0 if nil
  stopped,     \* the channels that were closed
  sockets,     \* ends of a socket and what is on its way
  made,        \* sockets so far
  stored,      \* s.syncData of the server, by host and port
  file,        \* sync.json
  life,        \* starts of the server, the id of its device
  known,       \* whether the device is registered
  online,      \* its Status
  now,         \* the clock
  setBack,     \* auxiliary: the clock was set back
  crossed,     \* auxiliary: two Connects overlapped
  shared,      \* auxiliary: sockets on which two sends overlapped
  acts

serviceVars == <<threads, mu, client, stop, stopped, crossed>>
socketVars == <<sockets, made, shared>>
dataVars == <<stored, file, now, setBack>>
deviceVars == <<life, known, online>>
cloudVars == <<serviceVars, socketVars, dataVars, deviceVars, acts>>

Threads == Calls \cup Loops
Idle == [op |-> None, at |-> None, socket |-> 0, chan |-> 0, answer |-> None]
NoSocket == [up |-> FALSE, handler |-> FALSE, registered |-> FALSE, asked |-> <<>>, told |-> <<>>]
Answer(t, ok) == [by |-> t, ok |-> ok]

Act == acts < Acts /\ acts' = acts + 1
Shut(ss, s) == IF s = 0 THEN ss ELSE [ss EXCEPT ![s].up = FALSE, ![s].told = <<>>]
Connected == client # 0 /\ sockets[client].up

At(t, step) == threads[t].at = step
GoTo(t, step) == threads' = [threads EXCEPT ![t].at = step]
Return(t) == threads' = [threads EXCEPT ![t] = Idle]
\* A call returns; a loop goes on.
After(t) == IF t \in Loops THEN [threads EXCEPT ![t].at = "top", ![t].socket = 0, ![t].answer = None]
            ELSE [threads EXCEPT ![t] = Idle]

-----------------------------------------------------------------------------
(* The service                                                             *)

Connecting(t) == threads[t].op = "connect"

Call(t, op) ==
  /\ threads[t] = Idle /\ Act
  /\ threads' = [threads EXCEPT ![t].op = op, ![t].at = "start"]
  /\ crossed' = (crossed \/ (op = "connect" /\ \E u \in Calls : Connecting(u)))
  /\ UNCHANGED <<mu, client, stop, stopped, socketVars, dataVars, deviceVars>>

\* Fault: the socket of the client is left open.
CutLoopOnly(t) ==
  /\ At(t, "start") /\ threads[t].op \in {"connect", "disconnect"} /\ mu = None
  /\ stopped' = stopped \cup ({stop} \ {0}) /\ stop' = 0
  /\ client' = 0
  /\ IF Connecting(t) THEN GoTo(t, "dial") ELSE Return(t)
  /\ UNCHANGED <<mu, crossed, socketVars, dataVars, deviceVars, acts>>

\* Disconnect, with which Connect begins.
Disconnect(t) ==
  /\ At(t, "start") /\ threads[t].op \in {"connect", "disconnect"} /\ mu = None
  /\ stopped' = stopped \cup ({stop} \ {0}) /\ stop' = 0
  /\ sockets' = Shut(sockets, client) /\ client' = 0
  /\ IF Connecting(t) THEN GoTo(t, "dial") ELSE Return(t)
  /\ UNCHANGED <<mu, crossed, made, shared, dataVars, deviceVars, acts>>

\* Connect keeps the lock from here to its end; the dial makes a client.
Dial(t) ==
  /\ At(t, "dial") /\ mu = None /\ made < Sockets
  /\ made' = made + 1 /\ mu' = t
  /\ sockets' = [sockets EXCEPT ![made'].up = TRUE, ![made'].handler = TRUE]
  /\ threads' = [threads EXCEPT ![t].at = "write", ![t].socket = made']
  /\ UNCHANGED <<client, stop, stopped, crossed, shared, dataVars, deviceVars, acts>>

DialFails(t) ==
  /\ At(t, "dial") /\ mu = None /\ Act
  /\ Return(t)
  /\ UNCHANGED <<mu, client, stop, stopped, crossed, socketVars, dataVars, deviceVars>>

\* Registered: the client is taken over and a loop begins.
ConnectEnds(t) ==
  LET s == threads[t].socket IN
  /\ At(t, "answered") /\ Connecting(t) /\ threads[t].answer.ok
  /\ client' = s /\ stop' = s /\ mu' = None
  /\ \E l \in Loops :
       /\ At(l, None)
       /\ threads' = [threads EXCEPT ![t] = Idle, ![l].op = "heartbeat", ![l].at = "top"]
  /\ UNCHANGED <<stopped, crossed, socketVars, dataVars, deviceVars, acts>>

\* PullSync and PushSync begin.
Begin(t) ==
  /\ At(t, "start") /\ threads[t].op \in {"pull", "push"} /\ mu = None
  /\ threads' = IF Connected THEN [threads EXCEPT ![t].at = "write", ![t].socket = client]
                ELSE After(t)
  /\ UNCHANGED <<mu, client, stop, stopped, crossed, socketVars, dataVars, deviceVars, acts>>

\* heartbeatLoop reads cs.stopCh at the top of each turn, without the lock.
LoopTurns(l) ==
  /\ At(l, "top")
  /\ threads' = [threads EXCEPT ![l].at = "select", ![l].chan = stop]
  /\ UNCHANGED <<mu, client, stop, stopped, crossed, socketVars, dataVars, deviceVars, acts>>

LoopEnds(l) ==
  /\ At(l, "select") /\ threads[l].chan \in stopped
  /\ Return(l)
  /\ UNCHANGED <<mu, client, stop, stopped, crossed, socketVars, dataVars, deviceVars, acts>>

Tick(l) ==
  /\ At(l, "select") /\ mu = None
  /\ threads' = IF Connected THEN [threads EXCEPT ![l].at = "write", ![l].socket = client]
                ELSE After(l)
  /\ UNCHANGED <<mu, client, stop, stopped, crossed, socketVars, dataVars, deviceVars, acts>>

-----------------------------------------------------------------------------
(* A client: send                                                          *)

Sending(s) == {t \in Threads : threads[t].socket = s /\ At(t, "read")}

\* A Connect that fails lets go of the lock and closes its client.
Fails(t) ==
  /\ threads' = After(t)
  /\ mu' = IF mu = t THEN None ELSE mu
  /\ UNCHANGED <<client, stop, stopped, crossed>>

\* A push brings any connections.  Nobody learns here that the other end is gone.
Write(t) ==
  LET s == threads[t].socket IN
  /\ At(t, "write") /\ sockets[s].up
  /\ \E hosts \in IF threads[t].op = "push" THEN SUBSET Hosts ELSE {{}} :
       sockets' = IF sockets[s].handler
                  THEN [sockets EXCEPT ![s].asked =
                          Append(@, [by |-> t, op |-> threads[t].op, hosts |-> hosts])]
                  ELSE sockets
  /\ shared' = IF Sending(s) = {} THEN shared ELSE shared \cup {s}
  /\ GoTo(t, "read")
  /\ UNCHANGED <<mu, client, stop, stopped, crossed, made, dataVars, deviceVars, acts>>

NotConnected(t) ==
  /\ At(t, "write") /\ ~sockets[threads[t].socket].up
  /\ Fails(t)
  /\ UNCHANGED <<socketVars, dataVars, deviceVars, acts>>

\* Whoever reads first gets the answer that came first.
Read(t) ==
  LET s == threads[t].socket IN
  /\ At(t, "read") /\ sockets[s].up /\ sockets[s].told # <<>>
  /\ sockets' = [sockets EXCEPT ![s].told = Tail(@)]
  /\ threads' = [threads EXCEPT ![t].at = "answered", ![t].answer = Head(sockets[s].told)]
  /\ UNCHANGED <<mu, client, stop, stopped, crossed, made, shared, dataVars, deviceVars, acts>>

\* Fault: a client that got no answer in time stays connected.
ReadFailsOnly(t) ==
  LET s == threads[t].socket IN
  /\ At(t, "read")
  /\ IF sockets[s].up /\ sockets[s].handler THEN Act ELSE UNCHANGED acts
  /\ Fails(t)
  /\ UNCHANGED <<sockets, made, shared, dataVars, deviceVars>>

\* No answer in time, or the other end is gone: the client disconnects.
ReadFails(t) ==
  LET s == threads[t].socket IN
  /\ At(t, "read")
  /\ IF sockets[s].up /\ sockets[s].handler THEN Act ELSE UNCHANGED acts
  /\ sockets' = Shut(sockets, s)
  /\ Fails(t)
  /\ UNCHANGED <<made, shared, dataVars, deviceVars>>

\* A pull, a push or a heartbeat ends with its answer; the program keeps nothing of it.
Answered(t) ==
  /\ At(t, "answered") /\ ~Connecting(t)
  /\ threads' = After(t)
  /\ UNCHANGED <<mu, client, stop, stopped, crossed, socketVars, dataVars, deviceVars, acts>>

\* The server has refused to register the device.
Refused(t) ==
  /\ At(t, "answered") /\ Connecting(t) /\ ~threads[t].answer.ok
  /\ sockets' = Shut(sockets, threads[t].socket)
  /\ Fails(t)
  /\ UNCHANGED <<made, shared, dataVars, deviceVars, acts>>

-----------------------------------------------------------------------------
(* The server                                                              *)

\* Fault: the password is encrypted once more in any case.
MergedAnew(hosts) ==
  [k \in Hosts |->
     IF k \notin hosts THEN stored[k]
     ELSE [source |-> life, at |-> now',
           layers |-> IF stored[k] = None THEN 1 ELSE stored[k].layers + 1]]

\* UpdateSyncData: an entry of this device or an older one gives way; one that stays has
\* its password encrypted once more.
Merged(hosts) ==
  [k \in Hosts |->
     IF k \notin hosts THEN stored[k]
     ELSE IF stored[k] = None \/ stored[k].source = life \/ now' > stored[k].at
     THEN [source |-> life, at |-> now', layers |-> 1]
     ELSE [stored[k] EXCEPT !.layers = @ + 1]]

UpdateSyncData(hosts) ==
  /\ now' = now + 1
  /\ stored' = Merged(hosts)
  /\ file' \in {file, stored'}
  /\ UNCHANGED setBack

\* Fault: a heartbeat only notes the time.
UpdateDeviceTime == UNCHANGED deviceVars

UpdateDeviceHeartbeat == online' = known /\ UNCHANGED <<life, known>>

RegisterDevice == known' = TRUE /\ online' = TRUE /\ UNCHANGED life

MarkDeviceOffline == online' = FALSE /\ UNCHANGED <<life, known>>

\* handleWS takes one message; its answer is lost if the client is gone.  A device is
\* refused for its token, or for a clock that differs.
processMessage(s) ==
  LET m == Head(sockets[s].asked) IN
  /\ sockets[s].handler /\ sockets[s].asked # <<>>
  /\ \E ok \in {TRUE, m.op # "connect"} :
       /\ sockets' = [sockets EXCEPT
            ![s].asked = Tail(@),
            ![s].told = IF sockets[s].up THEN Append(@, Answer(m.by, ok)) ELSE @,
            ![s].registered = @ \/ (m.op = "connect" /\ ok)]
       /\ CASE m.op = "connect" /\ ok -> RegisterDevice /\ UNCHANGED dataVars
            [] m.op = "heartbeat" -> UpdateDeviceHeartbeat /\ UNCHANGED dataVars
            [] m.op = "push" -> UpdateSyncData(m.hosts) /\ UNCHANGED deviceVars
            [] OTHER -> UNCHANGED <<dataVars, deviceVars>>
  /\ UNCHANGED <<serviceVars, made, shared, acts>>

\* The end of handleWS: the client has closed, or nobody has answered its pings for 90 s.
HandlerEnds(s) ==
  /\ sockets[s].handler
  /\ sockets[s].asked = <<>>
  /\ \/ ~sockets[s].up
     \/ s # client /\ \A t \in Threads : threads[t].socket # s
  /\ sockets' = [sockets EXCEPT ![s].handler = FALSE]
  /\ IF sockets[s].registered THEN MarkDeviceOffline ELSE UNCHANGED deviceVars
  /\ UNCHANGED <<serviceVars, made, shared, dataVars, acts>>

\* The network is out, or the server suspended, for 90 s: the client does not learn of it.
PingsLost(s) ==
  /\ Act /\ sockets[s].handler
  /\ sockets' = [sockets EXCEPT ![s].handler = FALSE, ![s].asked = <<>>]
  /\ IF sockets[s].registered THEN MarkDeviceOffline ELSE UNCHANGED deviceVars
  /\ UNCHANGED <<serviceVars, made, shared, dataVars>>

\* heartbeatLoop of the server: nobody has sent a heartbeat for two minutes.
Expire ==
  /\ online
  /\ ~\E s \in DOMAIN sockets : s = client /\ sockets[s].up /\ sockets[s].handler
  /\ MarkDeviceOffline
  /\ UNCHANGED <<serviceVars, socketVars, dataVars, acts>>

\* The server stops, perhaps within a write, and is started again, by another clock.
RestartServer ==
  /\ Act
  /\ sockets' = [s \in DOMAIN sockets |->
       [sockets[s] EXCEPT !.handler = FALSE, !.asked = <<>>]]
  /\ stored' \in {file, [k \in Hosts |-> None]} /\ file' = stored'
  /\ life' = life + 1 /\ known' = FALSE /\ online' = FALSE
  /\ now' \in {0, now} /\ setBack' = (setBack \/ now' < now)
  /\ UNCHANGED <<serviceVars, made, shared>>

\* The clock of the server is set back while it runs.  What was loaded from the file
\* compares by it; entries of this life are of the same source and do not.
SetClockBack ==
  /\ Act
  /\ now > 0 /\ now' = 0 /\ setBack' = TRUE
  /\ UNCHANGED <<serviceVars, socketVars, stored, file, deviceVars>>

\* The command of the console.
clearSync ==
  /\ Act
  /\ UpdateSyncData({})
  /\ UNCHANGED <<serviceVars, socketVars, deviceVars>>

\* Another program registers and pushes a connection, or leaves.
OtherPushes(k) ==
  /\ Act
  /\ RegisterDevice
  /\ UpdateSyncData({k})
  /\ UNCHANGED <<serviceVars, socketVars>>

OtherLeaves ==
  /\ Act /\ known
  /\ MarkDeviceOffline
  /\ UNCHANGED <<serviceVars, socketVars, dataVars>>

-----------------------------------------------------------------------------

CloudInit ==
  /\ threads = [t \in Threads |-> Idle]
  /\ mu = None /\ client = 0 /\ stop = 0 /\ stopped = {} /\ crossed = FALSE
  /\ sockets = [s \in 1 .. Sockets |-> NoSocket] /\ made = 0 /\ shared = {}
  /\ stored = [k \in Hosts |-> None] /\ file = stored /\ now = 0 /\ setBack = FALSE
  /\ life = 1 /\ known = FALSE /\ online = FALSE
  /\ acts = 0

UserActs == \E t \in Calls, op \in {"connect", "disconnect", "pull", "push"} : Call(t, op)
GoesOn(t) ==
  \/ Disconnect(t) \/ Dial(t) \/ ConnectEnds(t) \/ Begin(t)
  \/ Write(t) \/ NotConnected(t) \/ Read(t) \/ ReadFails(t) \/ Refused(t) \/ Answered(t)
Beats(l) == LoopTurns(l) \/ LoopEnds(l) \/ Tick(l)
Serves(s) == processMessage(s) \/ HandlerEnds(s)

CloudNext ==
  \/ UserActs
  \/ \E t \in Threads : GoesOn(t) \/ DialFails(t)
  \/ \E l \in Loops : Beats(l)
  \/ \E s \in DOMAIN sockets : Serves(s) \/ PingsLost(s)
  \/ Expire \/ RestartServer \/ SetClockBack \/ clearSync \/ OtherLeaves
  \/ \E k \in Hosts : OtherPushes(k)

\* Calls and loops go on, as every read has a deadline, and the server serves.
CloudFairness ==
  /\ \A t \in Threads : WF_cloudVars(GoesOn(t))
  /\ \A l \in Loops : WF_cloudVars(Beats(l))
  /\ \A s \in 1 .. Sockets : WF_cloudVars(Serves(s))

CloudSpec == CloudInit /\ [][CloudNext]_cloudVars /\ CloudFairness

-----------------------------------------------------------------------------

\* send returns the response to what it sent (client.go), unless two sends overlap on the
\* client: an answer that comes too late is never taken for that of the next question.
AnswersAreOwn ==
  \A t \in Threads :
    At(t, "answered") /\ threads[t].socket \notin shared => threads[t].answer.by = t

\* Connect disconnects what was connected before (cloud_service.go): unless two Connects
\* overlap, a socket that is open is the one in use, or is just being made; failures,
\* timeouts and changes of server leave none behind.
SocketsAreOwned ==
  \A s \in 1 .. made :
    sockets[s].up => s = client \/ crossed \/ (mu # None /\ threads[mu].socket = s)

\* Unless the clock was set back, a password is encrypted once, so that a pull decrypts it,
\* whatever is merged in which order, through restarts and new device ids.
EncryptedOnce == ~setBack => \A k \in Hosts : stored[k] # None => stored[k].layers = 1

\* The device is shown as online again and for good, though the handler of an earlier
\* socket, or another program, marks it as offline late.
OnlineCatchesUp == <>[](Connected /\ sockets[client].handler => online)
=============================================================================

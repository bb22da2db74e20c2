---------------------------- MODULE PortForward ----------------------------
(***************************************************************************)
(* The port forwards of one SSH connection,                                *)
(* internal/ssh/port_forward_service.go, as PortForwardPanel.tsx uses it:  *)
(* rules are added, started, stopped, removed, and edited by removing them *)
(* and adding a new one.                                                   *)
(*                                                                         *)
(* Every call of the panel runs on a goroutine of its own, and nothing     *)
(* keeps a second click back.  The service takes s.mu for each look at its *)
(* maps and lets go of it in between; an action is one such section, or    *)
(* what lies between two.  A run is what one StartForward makes: a         *)
(* forwardState with its done channel, and a listener.  The tunnels that   *)
(* pass a listener, and their traffic counters, are left out.              *)
(***************************************************************************)
CONSTANTS
  Rules,    \* ids generateForwardID can return, each of them once
  Remote,   \* the rules that listen on the SSH server
  Ports,    \* ports there are, on either side
  Runs,     \* bound: successful registrations of StartForward
  Calls,    \* bound: calls at a time
  None

ASSUME ForwardAssumption ==
  /\ Remote \subseteq Rules
  /\ None \notin Runs \cup Rules \cup Ports

VARIABLES
  status,     \* s.forwards: Status of a rule; absent before it is added, removed after
  bind,       \* BindPort of a rule, None (0) while the system has not chosen one
  states,     \* s.states: the run of a rule
  listeners,  \* s.listeners: likewise
  rule,       \* of a run: the rule it was made for
  port,       \* of a run: the port its listener has
  listener,   \* of a run: its listener: none, bound, accepting, closed
  done,       \* runs whose done channel was closed
  link,       \* isConnected of the SSH client of the connection; FALSE too if there is none
  alive,      \* whether that client still has its server
  live,       \* runs of remote rules whose client, the one they were started with, still
              \* has its server
  task,       \* what each call is at
  raced       \* auxiliary: rules on which two calls overlapped

ruleVars == <<status, bind>>
tableVars == <<states, listeners>>
runVars == <<rule, port, listener, done>>
linkVars == <<link, alive, live>>
pfVars == <<ruleVars, tableVars, runVars, linkVars, task, raced>>

Idle == [pc |-> "idle", rule |-> None, run |-> None, heard |-> None, remove |-> FALSE]
Starting == {"client", "listen", "bind", "publish", "started", "undo", "fail"}
Stopping == {"snap", "close", "drop", "stopped", "delete"}
Points == {"idle"} \cup Starting \cup Stopping

Exists(r) == status[r] \notin {"absent", "removed"}
Open(k) == listener[k] \in {"bound", "accepting"}

PFInit ==
  /\ status = [r \in Rules |-> "absent"]
  /\ bind = [r \in Rules |-> None]
  /\ states = [r \in Rules |-> None]
  /\ listeners = [r \in Rules |-> None]
  /\ rule = [k \in Runs |-> None]
  /\ port = [k \in Runs |-> None]
  /\ listener = [k \in Runs |-> "none"]
  /\ done = {}
  /\ link = TRUE
  /\ alive = TRUE
  /\ live = {}
  /\ task = [p \in Calls |-> Idle]
  /\ raced = {}

-----------------------------------------------------------------------------
(* Calls                                                                   *)

At(p, place) == task[p].pc = place
GoOn(p, place) == task' = [task EXCEPT ![p].pc = place]
Return(p) == task' = [task EXCEPT ![p] = Idle]
Busy(r) == \E q \in Calls : task[q].rule = r

Begin(p, r, place, removing) ==
  /\ At(p, "idle")
  /\ task' = [task EXCEPT ![p] = [Idle EXCEPT !.pc = place, !.rule = r,
                                              !.remove = removing]]
  /\ raced' = IF Busy(r) THEN raced \cup {r} ELSE raced

\* updateStatus, which finds no rule once it was removed.
UpdateStatus(r, s) == status' = IF Exists(r) THEN [status EXCEPT ![r] = s] ELSE status

-----------------------------------------------------------------------------
(* AddLocalForward, AddRemoteForward                                       *)

\* A local rule may leave its port open, and may not take that of a running one.
AddForward(r, q) ==
  /\ status[r] = "absent"
  /\ IF r \in Remote THEN q # None
     ELSE \A s \in Rules \ Remote : ~(status[s] = "running" /\ bind[s] = q)
  /\ status' = [status EXCEPT ![r] = "stopped"]
  /\ bind' = [bind EXCEPT ![r] = q]
  /\ UNCHANGED <<tableVars, runVars, linkVars, task, raced>>

-----------------------------------------------------------------------------
(* StartForward                                                            *)

StartForward(p, r) ==
  /\ Exists(r) /\ status[r] # "running"
  /\ Begin(p, r, "client", FALSE)
  /\ UNCHANGED <<ruleVars, tableVars, runVars, linkVars>>

\* No client, or one that is marked as disconnected.
ClientMissing(p) ==
  /\ At(p, "client")
  /\ ~link
  /\ GoOn(p, "fail")
  /\ UNCHANGED <<ruleVars, tableVars, runVars, linkVars, raced>>

\* The client is taken, and the state of the run goes into its table.
Register(p, k) ==
  LET r == task[p].rule IN
  /\ At(p, "client")
  /\ link
  /\ rule[k] = None
  /\ rule' = [rule EXCEPT ![k] = r]
  /\ live' = IF alive /\ r \in Remote THEN live \cup {k} ELSE live
  /\ states' = [states EXCEPT ![r] = k]
  /\ task' = [task EXCEPT ![p].pc = "listen", ![p].run = k]
  /\ UNCHANGED <<ruleVars, listeners, port, listener, done, link, alive, raced>>

\* Local and remote rules listen on different machines.
Free(r, q) ==
  \A k \in Runs : Open(k) /\ port[k] = q => (rule[k] \in Remote <=> r \notin Remote)

\* BindPort 0 lets the system choose.
Candidates(r) == IF bind[r] = None THEN Ports ELSE {bind[r]}

\* net.Listen, or Listen of the SSH client.
Listen(p, q) ==
  LET r == task[p].rule  k == task[p].run IN
  /\ At(p, "listen")
  /\ q \in Candidates(r)
  /\ Free(r, q)
  /\ r \in Remote => k \in live
  /\ listener' = [listener EXCEPT ![k] = "bound"]
  /\ port' = [port EXCEPT ![k] = q]
  /\ GoOn(p, IF bind[r] = None THEN "bind" ELSE "publish")
  /\ UNCHANGED <<ruleVars, tableVars, rule, done, linkVars, raced>>

ListenFails(p) ==
  LET r == task[p].rule IN
  /\ At(p, "listen")
  /\ \/ \A q \in Candidates(r) : ~Free(r, q)
     \/ r \in Remote /\ task[p].run \notin live
  /\ GoOn(p, "undo")
  /\ UNCHANGED <<ruleVars, tableVars, runVars, linkVars, raced>>

\* The chosen port is written down; the check that none was before is not under the lock.
Bind(p) ==
  LET r == task[p].rule IN
  /\ At(p, "bind")
  /\ \E q \in {port[task[p].run]} \cup ({bind[r]} \ {None}) :
       bind' = [bind EXCEPT ![r] = q]
  /\ GoOn(p, "publish")
  /\ UNCHANGED <<status, tableVars, runVars, linkVars, raced>>

\* The listener goes into its table, and a goroutine accepts from it; one that a lost
\* link has closed meanwhile ends at once.
Publish(p) ==
  LET k == task[p].run IN
  /\ At(p, "publish")
  /\ listeners' = [listeners EXCEPT ![task[p].rule] = k]
  /\ listener' = [listener EXCEPT ![k] = IF @ = "bound" THEN "accepting" ELSE @]
  /\ GoOn(p, "started")
  /\ UNCHANGED <<ruleVars, states, rule, port, done, linkVars, raced>>

Started(p) ==
  /\ At(p, "started")
  /\ UpdateStatus(task[p].rule, "running")
  /\ Return(p)
  /\ UNCHANGED <<bind, tableVars, runVars, linkVars, raced>>

\* Fault: a failed start leaves its state in the table.
UndoNothing(p) ==
  /\ At(p, "undo")
  /\ GoOn(p, "fail")
  /\ UNCHANGED <<ruleVars, tableVars, runVars, linkVars, raced>>

\* A failed start takes back what it registered, or whatever stands there by now.
Undo(p) ==
  /\ At(p, "undo")
  /\ states' = [states EXCEPT ![task[p].rule] = None]
  /\ GoOn(p, "fail")
  /\ UNCHANGED <<ruleVars, listeners, runVars, linkVars, raced>>

Fail(p) ==
  /\ At(p, "fail")
  /\ UpdateStatus(task[p].rule, "error")
  /\ Return(p)
  /\ UNCHANGED <<bind, tableVars, runVars, linkVars, raced>>

-----------------------------------------------------------------------------
(* StopForward, RemoveForward                                              *)

StopForward(p, r) ==
  /\ Exists(r)
  /\ Begin(p, r, "snap", FALSE)
  /\ UNCHANGED <<ruleVars, tableVars, runVars, linkVars>>

\* Fault: a rule is removed without being stopped.
RemoveWithoutStop(p, r) ==
  /\ Exists(r)
  /\ Begin(p, r, "delete", TRUE)
  /\ UNCHANGED <<ruleVars, tableVars, runVars, linkVars>>

\* A rule that is not running is not stopped first.
RemoveForward(p, r) ==
  /\ Exists(r)
  /\ Begin(p, r, IF status[r] = "running" THEN "snap" ELSE "delete", TRUE)
  /\ UNCHANGED <<ruleVars, tableVars, runVars, linkVars>>

\* What StopForward reads under its read lock and uses after it.
Snap(p) ==
  LET r == task[p].rule IN
  /\ At(p, "snap")
  /\ IF Exists(r)
     THEN task' = [task EXCEPT ![p].pc = "close", ![p].run = states[r],
                               ![p].heard = listeners[r]]
     ELSE IF task[p].remove THEN GoOn(p, "delete") ELSE Return(p)
  /\ UNCHANGED <<ruleVars, tableVars, runVars, linkVars, raced>>

\* The listener closes, then the done channel; a channel that was closed before makes
\* the call panic, and the rest of it is not done.
Close(p) ==
  LET k == task[p].run  l == task[p].heard IN
  /\ At(p, "close")
  /\ listener' = [j \in Runs |-> IF j = l THEN "closed" ELSE listener[j]]
  /\ IF k \in done
     THEN Return(p) /\ UNCHANGED done
     ELSE GoOn(p, "drop") /\ done' = done \cup ({k} \ {None})
  /\ UNCHANGED <<ruleVars, tableVars, rule, port, linkVars, raced>>

\* Fault: only the listener is taken out of its table.
DropListener(p) ==
  /\ At(p, "drop")
  /\ listeners' = [listeners EXCEPT ![task[p].rule] = None]
  /\ GoOn(p, "stopped")
  /\ UNCHANGED <<ruleVars, states, runVars, linkVars, raced>>

Drop(p) ==
  LET r == task[p].rule IN
  /\ At(p, "drop")
  /\ states' = [states EXCEPT ![r] = None]
  /\ listeners' = [listeners EXCEPT ![r] = None]
  /\ GoOn(p, "stopped")
  /\ UNCHANGED <<ruleVars, runVars, linkVars, raced>>

Stopped(p) ==
  /\ At(p, "stopped")
  /\ UpdateStatus(task[p].rule, "stopped")
  /\ IF task[p].remove THEN GoOn(p, "delete") ELSE Return(p)
  /\ UNCHANGED <<bind, tableVars, runVars, linkVars, raced>>

Delete(p) ==
  LET r == task[p].rule IN
  /\ At(p, "delete")
  /\ status' = [status EXCEPT ![r] = "removed"]
  /\ states' = [states EXCEPT ![r] = None]
  /\ listeners' = [listeners EXCEPT ![r] = None]
  /\ Return(p)
  /\ UNCHANGED <<bind, runVars, linkVars, raced>>

-----------------------------------------------------------------------------
(* The SSH client, which belongs to the connection                         *)

\* A shell has ended: the client is marked, and goes on serving what it listens to.
HandleDisconnect ==
  /\ link
  /\ link' = FALSE
  /\ UNCHANGED <<ruleVars, tableVars, runVars, alive, live, task, raced>>

\* The server is gone, and what the client listened to there with it; nothing notices
\* that on a client without a shell.
ServerLost ==
  /\ alive
  /\ alive' = FALSE
  /\ live' = {}
  /\ listener' = [k \in Runs |->
                    IF Open(k) /\ rule[k] \in Remote THEN "closed" ELSE listener[k]]
  /\ UNCHANGED <<ruleVars, tableVars, rule, port, done, link, task, raced>>

\* Reconnect closes the client that is there, if it is not lost already.
Clean ==
  /\ link \/ alive
  /\ link' = FALSE
  /\ alive' = FALSE
  /\ live' = {}
  /\ listener' = [k \in Runs |->
                    IF Open(k) /\ rule[k] \in Remote THEN "closed" ELSE listener[k]]
  /\ UNCHANGED <<ruleVars, tableVars, rule, port, done, task, raced>>

\* A new client takes its place; the runs keep the old one.
Insert ==
  /\ ~link /\ ~alive
  /\ link' = TRUE
  /\ alive' = TRUE
  /\ UNCHANGED <<ruleVars, tableVars, runVars, live, task, raced>>

-----------------------------------------------------------------------------
Step(p) ==
  \/ ClientMissing(p) \/ \E k \in Runs : Register(p, k)
  \/ \E q \in Ports : Listen(p, q)
  \/ ListenFails(p) \/ Bind(p) \/ Publish(p) \/ Started(p) \/ Undo(p) \/ Fail(p)
  \/ Snap(p) \/ Close(p) \/ Drop(p) \/ Stopped(p) \/ Delete(p)

PFNext ==
  \/ \E r \in Rules, q \in Ports \cup {None} : AddForward(r, q)
  \/ \E p \in Calls, r \in Rules :
       StartForward(p, r) \/ StopForward(p, r) \/ RemoveForward(p, r)
  \/ \E p \in Calls : Step(p)
  \/ HandleDisconnect \/ ServerLost \/ Clean \/ Insert

PFSpec == PFInit /\ [][PFNext]_pfVars

-----------------------------------------------------------------------------
(* Properties                                                              *)

CallType == [pc : Points, rule : Rules \cup {None}, run : Runs \cup {None},
             heard : Runs \cup {None}, remove : BOOLEAN]

\* The shape of the state.
PFTypeOK ==
  /\ status \in [Rules -> {"absent", "stopped", "running", "error", "removed"}]
  /\ bind \in [Rules -> Ports \cup {None}]
  /\ states \in [Rules -> Runs \cup {None}]
  /\ listeners \in [Rules -> Runs \cup {None}]
  /\ rule \in [Runs -> Rules \cup {None}]
  /\ port \in [Runs -> Ports \cup {None}]
  /\ listener \in [Runs -> {"none", "bound", "accepting", "closed"}]
  /\ done \subseteq Runs
  /\ link \in BOOLEAN
  /\ alive \in BOOLEAN
  /\ live \subseteq Runs
  /\ task \in [Calls -> CallType]
  /\ raced \subseteq Rules

\* Unless two calls overlapped on its rule, an open listener is the one its rule has in
\* the table, or is about to: it can still be stopped, and no removed rule listens.
OpenIsOwned ==
  \A k \in Runs : Open(k) /\ rule[k] \notin raced =>
    \/ listeners[rule[k]] = k /\ Exists(rule[k])
    \/ \E p \in Calls : task[p].run = k /\ task[p].pc \in {"bind", "publish"}

Quiet(r) == r \notin raced /\ ~Busy(r)

\* Likewise a rule is shown as running exactly when it has a run and a listener that
\* accepts, or that the SSH server dropped with the link; and a rule that is not running
\* has left nothing in the tables.
RunningListens ==
  \A r \in Rules : Quiet(r) =>
    IF status[r] = "running"
    THEN /\ states[r] = listeners[r] /\ listeners[r] # None
         /\ \/ listener[listeners[r]] = "accepting" /\ port[listeners[r]] = bind[r]
            \/ r \in Remote /\ listeners[r] \notin live
    ELSE states[r] = None /\ listeners[r] = None

\* Likewise no call closes a done channel twice, which would make it panic half way.
ClosedOnce ==
  \A p \in Calls : At(p, "close") /\ task[p].rule \notin raced => task[p].run \notin done

\* Whatever overlaps, a run whose done channel is closed stands in the table only until
\* the call that closed it goes on: so a stop panics only when it overlaps another stop.
ClosedAreDropped ==
  \A r \in Rules : states[r] \in done =>
    \E p \in Calls : At(p, "drop") /\ task[p].rule = r

\* RemoveForward: "stop the forward first (close the listener)".  Once a rule is removed
\* and no call is at it any more, nothing listens for it.
RemovedIsClosed ==
  \A k \in Runs : rule[k] # None /\ status[rule[k]] = "removed" /\ ~Busy(rule[k]) => ~Open(k)
=============================================================================

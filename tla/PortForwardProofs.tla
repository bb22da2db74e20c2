------------------------- MODULE PortForwardProofs -------------------------
(***************************************************************************)
(* The port forwards for every number of rules, runs, ports and calls.     *)
(* The inductive invariant says what the one call at a rule finds of it,   *)
(* place by place, as long as no two calls overlap on the rule; and, for   *)
(* all rules, that what a call or a table names belongs to its rule, so    *)
(* that steps at one rule leave the others alone.                          *)
(***************************************************************************)
EXTENDS PortForward, TLAPS

\* What calls and tables name belongs to the rule that is named.
OwnedInv ==
  /\ \A r \in Rules :
       /\ states[r] # None => rule[states[r]] = r
       /\ listeners[r] # None => rule[listeners[r]] = r
  /\ \A p \in Calls :
       /\ task[p].pc = "idle" => task[p] = Idle
       /\ task[p].pc # "idle" => task[p].rule # None /\ status[task[p].rule] # "absent"
       /\ task[p].run # None => rule[task[p].run] = task[p].rule
       /\ task[p].heard # None => rule[task[p].heard] = task[p].rule
       /\ task[p].pc \in {"listen", "bind", "publish", "started", "undo"} =>
            task[p].run # None
       /\ task[p].pc = "bind" => task[p].rule \notin Remote
  /\ \A k \in Runs : rule[k] = None => listener[k] = "none" /\ k \notin done

\* A remote rule has its port from the beginning.
ChosenInv == \A r \in Remote : status[r] # "absent" => bind[r] # None

\* The tables have nothing of a rule.
Empty(r) == states[r] = None /\ listeners[r] = None

\* A published listener accepts, unless the SSH server has dropped it.
Serving(r, k) ==
  \/ listener[k] = "accepting" /\ port[k] = bind[r]
  \/ r \in Remote /\ k \notin live

\* What a rule looks like that no call is at.
Settled(r) ==
  IF status[r] = "running"
  THEN /\ states[r] = listeners[r] /\ listeners[r] # None
       /\ states[r] \notin done
       /\ Serving(r, listeners[r])
  ELSE Empty(r)

\* What a rule looks like while it is started with run k, until its listener is published.
Entered(r, k) ==
  /\ status[r] # "running"
  /\ states[r] = k /\ listeners[r] = None
  /\ k \notin done

\* What a call finds of its rule, by the place it is at.
Place(r, c) ==
  /\ Exists(r)
  /\ c.pc \in {"client", "fail"} => status[r] # "running" /\ Empty(r)
  /\ c.pc \in {"listen", "undo"} => Entered(r, c.run)
  /\ c.pc = "bind" => Entered(r, c.run) /\ bind[r] = None /\ listener[c.run] = "bound"
  /\ c.pc = "publish" =>
       /\ Entered(r, c.run)
       /\ port[c.run] = bind[r]
       /\ listener[c.run] = "bound" \/ (r \in Remote /\ c.run \notin live)
  /\ c.pc = "started" =>
       /\ status[r] # "running"
       /\ states[r] = c.run /\ listeners[r] = c.run
       /\ c.run \notin done
       /\ Serving(r, c.run)
  /\ c.pc = "snap" => Settled(r)
  /\ c.pc = "close" => Settled(r) /\ c.run = states[r] /\ c.heard = listeners[r]
  /\ c.pc = "drop" => listeners[r] = None \/ ~Open(listeners[r])
  /\ c.pc \in {"stopped", "delete"} => Empty(r)

\* An open listener of a rule can be reached.
Reached(r) ==
  \A k \in Runs : Open(k) /\ rule[k] = r =>
    \/ listeners[r] = k /\ Exists(r)
    \/ \E p \in Calls : task[p].run = k /\ task[p].pc \in {"bind", "publish"}

\* As long as no two calls overlap on a rule, the one that is at it finds what it expects.
RuleInv(r) ==
  r \notin raced =>
    /\ \A p, q \in Calls : task[p].rule = r /\ task[q].rule = r => p = q
    /\ Reached(r)
    /\ Busy(r) \/ Settled(r)
    /\ \A p \in Calls : task[p].rule = r => Place(r, task[p])

ForwardInv == PFTypeOK /\ OwnedInv /\ ChosenInv /\ \A r \in Rules : RuleInv(r)

\* A step that concerns rule r only.
OnlyAt(r) ==
  /\ \A s \in Rules \ {r} :
       /\ status'[s] = status[s] /\ bind'[s] = bind[s]
       /\ states'[s] = states[s] /\ listeners'[s] = listeners[s]
       /\ s \in raced' <=> s \in raced
       /\ \A k \in Runs : rule'[k] = s <=> rule[k] = s
  /\ \A k \in Runs : rule[k] \notin {r, None} =>
       /\ listener'[k] = listener[k] /\ port'[k] = port[k]
       /\ k \in done' <=> k \in done
       /\ k \in live' <=> k \in live
  /\ \A p \in Calls :
       task'[p] = task[p] \/ (task[p].rule \in {r, None} /\ task'[p].rule \in {r, None})

-----------------------------------------------------------------------------
\* No rules, no runs and no calls at first.
LEMMA ForwardInit == PFInit => ForwardInv
  <1> SUFFICES ASSUME PFInit PROVE ForwardInv
    OBVIOUS
  <1>1. PFTypeOK
    BY DEF PFInit, PFTypeOK, CallType, Idle, Points
  <1>2. OwnedInv /\ ChosenInv
    BY ForwardAssumption DEF PFInit, OwnedInv, ChosenInv, Idle
  <1>3. ASSUME NEW r \in Rules PROVE RuleInv(r)
    <2>1. \A p \in Calls : task[p].rule # r
      BY ForwardAssumption DEF PFInit, Idle
    <2>2. Reached(r) /\ Settled(r)
      BY DEF PFInit, Reached, Settled, Empty, Open
    <2>3. QED
      BY <2>1, <2>2 DEF RuleInv
  <1>4. QED
    BY <1>1, <1>2, <1>3 DEF ForwardInv

\* Other rules keep what they had.
LEMMA Frame ==
  ASSUME PFTypeOK, OwnedInv, NEW r \in Rules, OnlyAt(r),
         NEW s \in Rules, s # r, RuleInv(s)
  PROVE  RuleInv(s)'
  <1> SUFFICES ASSUME s \notin raced'
               PROVE  RuleInv(s)'
    BY DEF RuleInv
  <1>1. s \notin raced /\ s # None
    BY ForwardAssumption DEF OnlyAt
  <1>2. \A p \in Calls : (task[p].rule = s \/ task'[p].rule = s) => task'[p] = task[p]
    BY <1>1 DEF OnlyAt
  <1>3. \A k \in Runs : rule[k] = s =>
          /\ listener'[k] = listener[k] /\ port'[k] = port[k]
          /\ k \in done' <=> k \in done
          /\ k \in live' <=> k \in live
    BY <1>1 DEF OnlyAt
  <1>4. /\ status'[s] = status[s] /\ bind'[s] = bind[s]
        /\ states'[s] = states[s] /\ listeners'[s] = listeners[s]
        /\ \A k \in Runs : rule'[k] = s <=> rule[k] = s
    BY DEF OnlyAt
  <1>5. /\ states[s] # None => states[s] \in Runs /\ rule[states[s]] = s
        /\ listeners[s] # None => listeners[s] \in Runs /\ rule[listeners[s]] = s
    BY DEF PFTypeOK, OwnedInv
  <1>6. Settled(s)' <=> Settled(s)
    BY <1>3, <1>4, <1>5 DEF Settled, Serving, Empty
  <1>7. Reached(s)'
    <2> SUFFICES ASSUME NEW k \in Runs, Open(k)', rule'[k] = s
                 PROVE  \/ listeners'[s] = k /\ Exists(s)'
                        \/ \E p \in Calls :
                             task'[p].run = k /\ task'[p].pc \in {"bind", "publish"}
      BY DEF Reached
    <2>1. rule[k] = s /\ Open(k)
      BY <1>3, <1>4 DEF Open
    <2>2. CASE listeners[s] = k /\ Exists(s)
      BY <2>2, <1>4 DEF Exists
    <2>3. CASE \E p \in Calls : task[p].run = k /\ task[p].pc \in {"bind", "publish"}
      <3>1. PICK p \in Calls : task[p].run = k /\ task[p].pc \in {"bind", "publish"}
        BY <2>3
      <3>2. task[p].rule = s
        BY <3>1, <2>1, ForwardAssumption DEF OwnedInv
      <3>3. QED
        BY <3>1, <3>2, <1>2
    <2>4. QED
      BY <1>1, <2>1, <2>2, <2>3 DEF RuleInv, Reached
  <1>8. ASSUME NEW p \in Calls, task'[p].rule = s PROVE Place(s, task[p])'
    <2>1. task'[p] = task[p] /\ task[p].rule = s /\ Place(s, task[p])
      BY <1>1, <1>2, <1>8 DEF RuleInv
    <2>2. task[p].run # None => task[p].run \in Runs /\ rule[task[p].run] = s
      BY <2>1 DEF OwnedInv, PFTypeOK, CallType
    <2>3. task[p].pc \in {"listen", "bind", "publish", "started", "undo"} =>
            task[p].run # None
      BY DEF OwnedInv
    <2>4. QED
      BY <2>1, <2>2, <2>3, <1>3, <1>4, <1>5, <1>6
      DEF Place, Exists, Entered, Serving, Empty, Open
  <1>9. /\ \A p, q \in Calls : task'[p].rule = s /\ task'[q].rule = s => p = q
        /\ Busy(s)' \/ Settled(s)'
    BY <1>1, <1>2, <1>6 DEF RuleInv, Busy
  <1>10. QED
    BY <1>7, <1>8, <1>9 DEF RuleInv

\* The record of a call that moves on or returns.
LEMMA CallMoves ==
  ASSUME PFTypeOK, NEW p \in Calls
  PROVE  /\ \A place \in Points : GoOn(p, place) =>
              /\ task' \in [Calls -> CallType]
              /\ task'[p].pc = place
              /\ task'[p].rule = task[p].rule /\ task'[p].run = task[p].run
              /\ task'[p].heard = task[p].heard /\ task'[p].remove = task[p].remove
              /\ \A q \in Calls \ {p} : task'[q] = task[q]
         /\ Return(p) =>
              /\ task' \in [Calls -> CallType]
              /\ task'[p] = Idle
              /\ \A q \in Calls \ {p} : task'[q] = task[q]
  <1>1. task \in [Calls -> CallType] /\ Idle \in CallType
    BY DEF PFTypeOK, CallType, Idle, Points
  <1>2. QED
    BY <1>1 DEF GoOn, Return, CallType

\* A step of a call leaves every name with its rule.
LEMMA OwnedStep ==
  ASSUME PFTypeOK, OwnedInv, NEW p \in Calls, NEW r \in Rules, task[p].rule = r,
         rule' = rule,
         \A s \in Rules : /\ states'[s] \in {states[s], None}
                          /\ \/ listeners'[s] \in {listeners[s], None}
                             \/ rule[listeners'[s]] = s
                          /\ status[s] # "absent" => status'[s] # "absent",
         \A k \in Runs : rule[k] = None =>
                            listener'[k] = listener[k] /\ (k \in done' => k \in done),
         \A q \in Calls \ {p} : task'[q] = task[q],
         \/ task'[p] = Idle
         \/ /\ task'[p].pc # "idle"
            /\ task'[p].rule = r
            /\ task'[p].run # None => rule[task'[p].run] = r
            /\ task'[p].heard # None => rule[task'[p].heard] = r
            /\ task'[p].pc \in {"listen", "bind", "publish", "started", "undo"} =>
                 task'[p].run # None
            /\ task'[p].pc = "bind" => r \notin Remote
  PROVE  OwnedInv'
  <1>1. \A s \in Rules : /\ states'[s] # None => rule'[states'[s]] = s
                         /\ listeners'[s] # None => rule'[listeners'[s]] = s
    BY DEF OwnedInv
  <1>2. \A k \in Runs : rule'[k] = None => listener'[k] = "none" /\ k \notin done'
    BY DEF OwnedInv
  <1>3. r # None /\ status[r] # "absent"
    BY ForwardAssumption DEF OwnedInv, Idle
  <1>4. ASSUME NEW q \in Calls
        PROVE  /\ task'[q].pc = "idle" => task'[q] = Idle
               /\ task'[q].pc # "idle" =>
                    task'[q].rule # None /\ status'[task'[q].rule] # "absent"
               /\ task'[q].run # None => rule'[task'[q].run] = task'[q].rule
               /\ task'[q].heard # None => rule'[task'[q].heard] = task'[q].rule
               /\ task'[q].pc \in {"listen", "bind", "publish", "started", "undo"} =>
                    task'[q].run # None
               /\ task'[q].pc = "bind" => task'[q].rule \notin Remote
    <2>1. CASE q # p
      BY <2>1 DEF OwnedInv, PFTypeOK, CallType
    <2>2. CASE q = p /\ task'[p] = Idle
      BY <2>2 DEF Idle
    <2>3. CASE q = p /\ task'[p] # Idle
      BY <2>3, <1>3
    <2>4. QED
      BY <2>1, <2>2, <2>3
  <1>5. Idle' = Idle
    BY DEF Idle
  <1>6. QED
    BY <1>1, <1>2, <1>4, <1>5 DEF OwnedInv

\* After a step of the one call at rule r, it is enough to look at that rule and that call.
LEMMA OwnStep ==
  ASSUME NEW p \in Calls, NEW r \in Rules, task[p].rule = r, RuleInv(r), r \notin raced,
         \A q \in Calls \ {p} : task'[q] = task[q],
         Reached(r)',
         (task'[p] = Idle /\ Settled(r)') \/ (task'[p].rule = r /\ Place(r, task[p])')
  PROVE  RuleInv(r)'
  <1>1. \A q \in Calls : task[q].rule = r => q = p
    BY DEF RuleInv
  <1>2. CASE task'[p] = Idle /\ Settled(r)'
    BY <1>1, <1>2, ForwardAssumption DEF RuleInv, Idle
  <1>3. CASE task'[p].rule = r /\ Place(r, task[p])'
    BY <1>1, <1>3 DEF RuleInv, Busy
  <1>4. QED
    BY <1>2, <1>3

\* What the one call at rule r finds.
LEMMA Caller ==
  ASSUME ForwardInv, NEW p \in Calls, NEW r \in Rules, task[p].rule = r, r \notin raced
  PROVE  /\ Place(r, task[p])
         /\ RuleInv(r)
         /\ \A k \in Runs : Open(k) /\ rule[k] = r =>
              \/ listeners[r] = k
              \/ task[p].run = k /\ task[p].pc \in {"bind", "publish"}
  <1>1. RuleInv(r) /\ Place(r, task[p])
    BY DEF ForwardInv, RuleInv
  <1>2. ASSUME NEW k \in Runs, Open(k), rule[k] = r, listeners[r] # k
        PROVE  task[p].run = k /\ task[p].pc \in {"bind", "publish"}
    <2>1. PICK q \in Calls : task[q].run = k /\ task[q].pc \in {"bind", "publish"}
      BY <1>1, <1>2 DEF RuleInv, Reached
    <2>2. task[q].rule = r
      BY <1>2, <2>1, ForwardAssumption DEF ForwardInv, OwnedInv
    <2>3. q = p
      BY <1>1, <2>2 DEF RuleInv
    <2>4. QED
      BY <2>1, <2>3
  <1>3. QED
    BY <1>1, <1>2

\* A step at rule r leaves the invariant to be shown for r.
LEMMA StepAt ==
  ASSUME ForwardInv, NEW r \in Rules, OnlyAt(r),
         PFTypeOK', OwnedInv', ChosenInv', RuleInv(r)'
  PROVE  ForwardInv'
  BY Frame DEF ForwardInv

-----------------------------------------------------------------------------
\* A start without a client.
LEMMA ClientMissingKeeps ==
  ASSUME ForwardInv, NEW p \in Calls, NEW r \in Rules, task[p].rule = r,
         ClientMissing(p)
  PROVE  ForwardInv'
  <1>1. PFTypeOK'
    BY CallMoves
    DEF ForwardInv, PFTypeOK, ClientMissing, Points, Starting, ruleVars, tableVars,
        runVars, linkVars
  <1>2. OwnedInv'
    <2>1. OwnedInv /\ PFTypeOK
      BY DEF ForwardInv
    <2>2. QED
      BY <2>1, CallMoves, OwnedStep
      DEF OwnedInv, ClientMissing, Points, Starting, ruleVars, tableVars, runVars
  <1>3. ChosenInv'
    BY DEF ForwardInv, ChosenInv, ClientMissing, ruleVars
  <1>4. OnlyAt(r)
    BY CallMoves
    DEF ForwardInv, OnlyAt, ClientMissing, Points, Starting, ruleVars, tableVars,
        runVars, linkVars
  <1>5. RuleInv(r)'
    <2>1. CASE r \in raced
      BY <2>1 DEF RuleInv, ClientMissing
    <2>2. CASE r \notin raced
      <3>1. Place(r, task[p])
        BY <2>2, Caller
      <3>2. (task'[p] = Idle /\ Settled(r)') \/ (task'[p].rule = r /\ Place(r, task[p])')
        BY <3>1, CallMoves
        DEF ForwardInv, ClientMissing, At, Points, Starting, Place, Empty, Exists,
            ruleVars, tableVars
      <3>3. Reached(r)'
        BY <2>2, <3>1, Caller
        DEF ClientMissing, At, Place, Exists, Open, Reached, ruleVars, tableVars,
            runVars
      <3>4. QED
        BY <2>2, <3>2, <3>3, CallMoves, OwnStep
        DEF ForwardInv, ClientMissing, Points, Starting
    <2>3. QED
      BY <2>1, <2>2
  <1>6. QED
    BY <1>1, <1>2, <1>3, <1>4, <1>5, StepAt

\* A start that cannot listen.
LEMMA ListenFailsKeeps ==
  ASSUME ForwardInv, NEW p \in Calls, NEW r \in Rules, task[p].rule = r,
         ListenFails(p)
  PROVE  ForwardInv'
  <1>1. PFTypeOK'
    BY CallMoves
    DEF ForwardInv, PFTypeOK, ListenFails, Points, Starting, ruleVars, tableVars, runVars,
        linkVars
  <1>2. OwnedInv'
    <2>1. OwnedInv /\ PFTypeOK
      BY DEF ForwardInv
    <2>2. QED
      BY <2>1, CallMoves
      DEF OwnedInv, ListenFails, At, Points, Starting, ruleVars, tableVars, runVars
  <1>3. ChosenInv'
    BY DEF ForwardInv, ChosenInv, ListenFails, ruleVars
  <1>4. OnlyAt(r)
    BY CallMoves
    DEF ForwardInv, OnlyAt, ListenFails, Points, Starting, ruleVars, tableVars, runVars,
        linkVars
  <1>5. RuleInv(r)'
    <2>1. CASE r \in raced
      BY <2>1 DEF RuleInv, ListenFails
    <2>2. CASE r \notin raced
      <3>1. Place(r, task[p])
        BY <2>2, Caller
      <3>2. (task'[p] = Idle /\ Settled(r)') \/ (task'[p].rule = r /\ Place(r, task[p])')
        BY <3>1, CallMoves
        DEF ForwardInv, ListenFails, At, Points, Starting, Place, Entered, Exists,
            ruleVars, tableVars, runVars
      <3>3. Reached(r)'
        BY <2>2, <3>1, Caller
        DEF ListenFails, At, Place, Exists, Open, Reached, ruleVars, tableVars, runVars
      <3>4. QED
        BY <2>2, <3>2, <3>3, CallMoves, OwnStep
        DEF ForwardInv, ListenFails, Points, Starting
    <2>3. QED
      BY <2>1, <2>2
  <1>6. QED
    BY <1>1, <1>2, <1>3, <1>4, <1>5, StepAt

\* A chosen port is written down.
LEMMA BindKeeps ==
  ASSUME ForwardInv, NEW p \in Calls, NEW r \in Rules, task[p].rule = r,
         Bind(p)
  PROVE  ForwardInv'
  <1>1. PFTypeOK'
    BY CallMoves
    DEF ForwardInv, PFTypeOK, Bind, At, Points, Starting, CallType, tableVars, runVars,
        linkVars, OwnedInv
  <1>2. OwnedInv'
    <2>1. OwnedInv /\ PFTypeOK
      BY DEF ForwardInv
    <2>2. QED
      BY <2>1, CallMoves DEF OwnedInv, Bind, At, Points, Starting, tableVars, runVars
  <1>3. ChosenInv'
    BY DEF ForwardInv, ChosenInv, Bind, At, OwnedInv
  <1>4. OnlyAt(r)
    BY CallMoves
    DEF ForwardInv, OnlyAt, Bind, Points, Starting, tableVars, runVars, linkVars
  <1>5. RuleInv(r)'
    <2>1. CASE r \in raced
      BY <2>1 DEF RuleInv, Bind
    <2>2. CASE r \notin raced
      <3>1. Place(r, task[p])
        BY <2>2, Caller
      <3>2. (task'[p] = Idle /\ Settled(r)') \/ (task'[p].rule = r /\ Place(r, task[p])')
        BY <3>1, CallMoves
        DEF ForwardInv, PFTypeOK, Bind, At, Points, Starting, Place, Entered, Exists,
            tableVars, runVars
      <3>3. Reached(r)'
        BY <2>2, <3>1, Caller, CallMoves
        DEF ForwardInv, Bind, Points, Starting, Place, Exists, Open, Reached, tableVars,
            runVars
      <3>4. QED
        BY <2>2, <3>2, <3>3, CallMoves, OwnStep DEF ForwardInv, Bind, Points, Starting
    <2>3. QED
      BY <2>1, <2>2
  <1>6. QED
    BY <1>1, <1>2, <1>3, <1>4, <1>5, StepAt

\* A listener is published.
LEMMA PublishKeeps ==
  ASSUME ForwardInv, NEW p \in Calls, NEW r \in Rules, task[p].rule = r,
         Publish(p)
  PROVE  ForwardInv'
  <1>1. PFTypeOK'
    BY CallMoves
    DEF ForwardInv, PFTypeOK, Publish, Points, Starting, CallType, ruleVars, linkVars
  <1>2. OwnedInv'
    <2>1. OwnedInv /\ PFTypeOK
      BY DEF ForwardInv
    <2>2. QED
      BY <2>1, CallMoves DEF OwnedInv, Publish, At, Points, Starting, ruleVars
  <1>3. ChosenInv'
    BY DEF ForwardInv, ChosenInv, Publish, ruleVars
  <1>4. OnlyAt(r)
    BY CallMoves, ForwardAssumption
    DEF ForwardInv, OwnedInv, OnlyAt, Publish, Points, Starting, ruleVars, linkVars
  <1>5. RuleInv(r)'
    <2>1. CASE r \in raced
      BY <2>1 DEF RuleInv, Publish
    <2>2. CASE r \notin raced
      <3>1. Place(r, task[p])
        BY <2>2, Caller
      <3>2. (task'[p] = Idle /\ Settled(r)') \/ (task'[p].rule = r /\ Place(r, task[p])')
        BY <3>1, CallMoves
        DEF ForwardInv, PFTypeOK, OwnedInv, Publish, At, Points, Starting, Place, Serving,
            Entered, Exists, ruleVars, linkVars
      <3>3. Reached(r)'
        BY <2>2, <3>1, Caller, ForwardAssumption
        DEF ForwardInv, PFTypeOK, Publish, At, Place, Entered, Exists, Open, Reached,
            ruleVars
      <3>4. QED
        BY <2>2, <3>2, <3>3, CallMoves, OwnStep
        DEF ForwardInv, Publish, Points, Starting
    <2>3. QED
      BY <2>1, <2>2
  <1>6. QED
    BY <1>1, <1>2, <1>3, <1>4, <1>5, StepAt

\* A start ends.
LEMMA StartedKeeps ==
  ASSUME ForwardInv, NEW p \in Calls, NEW r \in Rules, task[p].rule = r,
         Started(p)
  PROVE  ForwardInv'
  <1>1. PFTypeOK'
    BY CallMoves
    DEF ForwardInv, PFTypeOK, Started, tableVars, runVars, linkVars, UpdateStatus
  <1>2. OwnedInv'
    <2>1. OwnedInv /\ PFTypeOK
      BY DEF ForwardInv
    <2>2. QED
      BY <2>1, CallMoves, OwnedStep DEF Started, tableVars, runVars, UpdateStatus
  <1>3. ChosenInv'
    BY DEF ForwardInv, ChosenInv, Started, UpdateStatus, Exists
  <1>4. OnlyAt(r)
    BY CallMoves
    DEF ForwardInv, OnlyAt, Started, Idle, tableVars, runVars, linkVars, UpdateStatus
  <1>5. RuleInv(r)'
    <2>1. CASE r \in raced
      BY <2>1 DEF RuleInv, Started
    <2>2. CASE r \notin raced
      <3>1. Place(r, task[p])
        BY <2>2, Caller
      <3>2. (task'[p] = Idle /\ Settled(r)') \/ (task'[p].rule = r /\ Place(r, task[p])')
        BY <3>1, CallMoves
        DEF ForwardInv, PFTypeOK, OwnedInv, Started, At, Place, Settled, Serving,
            tableVars, runVars, linkVars, UpdateStatus
      <3>3. Reached(r)'
        BY <2>2, <3>1, Caller
        DEF Started, At, Place, Exists, Open, Reached, tableVars, runVars, UpdateStatus
      <3>4. QED
        BY <2>2, <3>2, <3>3, CallMoves, OwnStep DEF ForwardInv, Started
    <2>3. QED
      BY <2>1, <2>2
  <1>6. QED
    BY <1>1, <1>2, <1>3, <1>4, <1>5, StepAt

\* A failed start takes back its state.
LEMMA UndoKeeps ==
  ASSUME ForwardInv, NEW p \in Calls, NEW r \in Rules, task[p].rule = r,
         Undo(p)
  PROVE  ForwardInv'
  <1>1. PFTypeOK'
    BY CallMoves
    DEF ForwardInv, PFTypeOK, Undo, Points, Starting, ruleVars, runVars, linkVars
  <1>2. OwnedInv'
    <2>1. OwnedInv /\ PFTypeOK
      BY DEF ForwardInv
    <2>2. QED
      BY <2>1, CallMoves, OwnedStep
      DEF OwnedInv, Undo, Points, Starting, ruleVars, runVars
  <1>3. ChosenInv'
    BY DEF ForwardInv, ChosenInv, Undo, ruleVars
  <1>4. OnlyAt(r)
    BY CallMoves
    DEF ForwardInv, OnlyAt, Undo, Points, Starting, ruleVars, runVars, linkVars
  <1>5. RuleInv(r)'
    <2>1. CASE r \in raced
      BY <2>1 DEF RuleInv, Undo
    <2>2. CASE r \notin raced
      <3>1. Place(r, task[p])
        BY <2>2, Caller
      <3>2. (task'[p] = Idle /\ Settled(r)') \/ (task'[p].rule = r /\ Place(r, task[p])')
        BY <3>1, CallMoves
        DEF ForwardInv, PFTypeOK, Undo, At, Points, Starting, Place, Empty, Entered,
            Exists, ruleVars
      <3>3. Reached(r)'
        BY <2>2, <3>1, Caller
        DEF Undo, At, Place, Exists, Open, Reached, ruleVars, runVars
      <3>4. QED
        BY <2>2, <3>2, <3>3, CallMoves, OwnStep DEF ForwardInv, Undo, Points, Starting
    <2>3. QED
      BY <2>1, <2>2
  <1>6. QED
    BY <1>1, <1>2, <1>3, <1>4, <1>5, StepAt

\* A failed start ends.
LEMMA FailKeeps ==
  ASSUME ForwardInv, NEW p \in Calls, NEW r \in Rules, task[p].rule = r,
         Fail(p)
  PROVE  ForwardInv'
  <1>1. PFTypeOK'
    BY CallMoves
    DEF ForwardInv, PFTypeOK, Fail, tableVars, runVars, linkVars, UpdateStatus
  <1>2. OwnedInv'
    <2>1. OwnedInv /\ PFTypeOK
      BY DEF ForwardInv
    <2>2. QED
      BY <2>1, CallMoves, OwnedStep DEF Fail, tableVars, runVars, UpdateStatus
  <1>3. ChosenInv'
    BY DEF ForwardInv, ChosenInv, Fail, UpdateStatus, Exists
  <1>4. OnlyAt(r)
    BY CallMoves
    DEF ForwardInv, OnlyAt, Fail, Idle, tableVars, runVars, linkVars, UpdateStatus
  <1>5. RuleInv(r)'
    <2>1. CASE r \in raced
      BY <2>1 DEF RuleInv, Fail
    <2>2. CASE r \notin raced
      <3>1. Place(r, task[p])
        BY <2>2, Caller
      <3>2. (task'[p] = Idle /\ Settled(r)') \/ (task'[p].rule = r /\ Place(r, task[p])')
        BY <3>1, CallMoves
        DEF ForwardInv, Fail, At, Place, Settled, Empty, tableVars, UpdateStatus
      <3>3. Reached(r)'
        BY <2>2, <3>1, Caller
        DEF Fail, At, Place, Exists, Open, Reached, tableVars, runVars, UpdateStatus
      <3>4. QED
        BY <2>2, <3>2, <3>3, CallMoves, OwnStep DEF ForwardInv, Fail
    <2>3. QED
      BY <2>1, <2>2
  <1>6. QED
    BY <1>1, <1>2, <1>3, <1>4, <1>5, StepAt

\* What a stop has read, or where it goes without a rule.
LEMMA SnapMoves ==
  ASSUME ForwardInv, NEW p \in Calls, NEW r \in Rules, task[p].rule = r, Snap(p)
  PROVE  /\ task' \in [Calls -> CallType]
         /\ \A q \in Calls \ {p} : task'[q] = task[q]
         /\ \/ /\ Exists(r)
               /\ task'[p].pc = "close" /\ task'[p].rule = r
               /\ task'[p].run = states[r] /\ task'[p].heard = listeners[r]
            \/ /\ ~Exists(r)
               /\ task'[p].pc = "delete" /\ task'[p].rule = r
               /\ task'[p].run = task[p].run /\ task'[p].heard = task[p].heard
            \/ ~Exists(r) /\ task'[p] = Idle
  <1>1. task \in [Calls -> CallType] /\ states[r] \in Runs \cup {None}
        /\ listeners[r] \in Runs \cup {None} /\ PFTypeOK
    BY DEF ForwardInv, PFTypeOK
  <1>2. CASE Exists(r)
    BY <1>1, <1>2 DEF Snap, CallType, Points, Stopping
  <1>3. CASE ~Exists(r)
    BY <1>1, <1>3, CallMoves DEF Snap, Points, Stopping
  <1>4. QED
    BY <1>2, <1>3

\* A stop reads the tables.
LEMMA SnapKeeps ==
  ASSUME ForwardInv, NEW p \in Calls, NEW r \in Rules, task[p].rule = r,
         Snap(p)
  PROVE  ForwardInv'
  <1> DEFINE Read == /\ Exists(r)
                     /\ task'[p].pc = "close" /\ task'[p].rule = r
                     /\ task'[p].run = states[r] /\ task'[p].heard = listeners[r]
             Missed == /\ ~Exists(r)
                       /\ task'[p].pc = "delete" /\ task'[p].rule = r
                       /\ task'[p].run = task[p].run /\ task'[p].heard = task[p].heard
             Left == ~Exists(r) /\ task'[p] = Idle
  <1>0. /\ task' \in [Calls -> CallType]
        /\ \A q \in Calls \ {p} : task'[q] = task[q]
        /\ Read \/ Missed \/ Left
    BY SnapMoves
  <1>a. /\ UNCHANGED <<ruleVars, tableVars, runVars, linkVars, raced>>
        /\ task[p].pc = "snap"
    BY DEF Snap, At
  <1> HIDE DEF Read, Missed, Left
  <1>1. PFTypeOK'
    BY <1>0, <1>a DEF ForwardInv, PFTypeOK, ruleVars, tableVars, runVars, linkVars
  <1>2. OwnedInv'
    <2>1. OwnedInv /\ PFTypeOK
      BY DEF ForwardInv
    <2>2. \/ task'[p] = Idle
          \/ /\ task'[p].pc # "idle"
             /\ task'[p].rule = r
             /\ task'[p].run # None => rule[task'[p].run] = r
             /\ task'[p].heard # None => rule[task'[p].heard] = r
             /\ task'[p].pc \notin {"listen", "bind", "publish", "started", "undo"}
      <3>1. CASE Read
        BY <2>1, <3>1 DEF Read, OwnedInv
      <3>2. CASE Missed
        BY <2>1, <3>2 DEF Missed, OwnedInv
      <3>3. CASE Left
        BY <3>3 DEF Left
      <3>4. QED
        BY <1>0, <3>1, <3>2, <3>3
    <2>3. QED
      BY <1>0, <1>a, <2>1, <2>2, OwnedStep DEF ruleVars, tableVars, runVars
  <1>3. ChosenInv'
    BY <1>a DEF ForwardInv, ChosenInv, ruleVars
  <1>4. OnlyAt(r)
    <2>1. task'[p].rule \in {r, None}
      BY <1>0 DEF Read, Missed, Left, Idle
    <2>2. QED
      BY <1>0, <1>a, <2>1 DEF OnlyAt, ruleVars, tableVars, runVars, linkVars
  <1>5. RuleInv(r)'
    <2>1. CASE r \in raced
      BY <1>a, <2>1 DEF RuleInv
    <2>2. CASE r \notin raced
      <3>1. Place(r, task[p]) /\ Exists(r) /\ Settled(r)
        BY <1>a, <2>2, Caller DEF Place
      <3>2. Exists(r)' /\ Settled(r)'
        BY <1>a, <3>1
        DEF Exists, Settled, Empty, Serving, ruleVars, tableVars, runVars, linkVars
      <3>3. Read
        BY <1>0, <3>1 DEF Missed, Left
      <3>4. Place(r, task[p])'
        BY <1>a, <3>2, <3>3 DEF Read, Place, tableVars
      <3>5. Reached(r)'
        BY <1>a, <2>2, <3>2, Caller DEF Reached, Open, tableVars, runVars
      <3>6. QED
        BY <1>0, <2>2, <3>3, <3>4, <3>5, Caller, OwnStep DEF Read
    <2>3. QED
      BY <2>1, <2>2
  <1>6. QED
    BY <1>1, <1>2, <1>3, <1>4, <1>5, StepAt

\* A stop closes the listener and the channel.
LEMMA CloseKeeps ==
  ASSUME ForwardInv, NEW p \in Calls, NEW r \in Rules, task[p].rule = r,
         Close(p)
  PROVE  ForwardInv'
  <1>1. PFTypeOK'
    BY CallMoves
    DEF ForwardInv, PFTypeOK, Close, Points, Stopping, CallType, ruleVars, tableVars,
        linkVars
  <1>2. OwnedInv'
    <2>1. OwnedInv /\ PFTypeOK
      BY DEF ForwardInv
    <2>2. \A k \in Runs : rule[k] = None =>
             listener'[k] = listener[k] /\ (k \in done' => k \in done)
      BY ForwardAssumption DEF ForwardInv, OwnedInv, Close
    <2>3. QED
      BY <2>1, <2>2, CallMoves, OwnedStep
      DEF OwnedInv, Close, Points, Stopping, ruleVars, tableVars
  <1>3. ChosenInv'
    BY DEF ForwardInv, ChosenInv, Close, ruleVars
  <1>4. OnlyAt(r)
    BY CallMoves, ForwardAssumption
    DEF ForwardInv, OwnedInv, OnlyAt, Close, Idle, Points, Stopping, ruleVars,
        tableVars, linkVars
  <1>5. RuleInv(r)'
    <2>1. CASE r \in raced
      BY <2>1 DEF RuleInv, Close
    <2>2. CASE r \notin raced
      <3>1. Place(r, task[p])
        BY <2>2, Caller
      <3>2. (task'[p] = Idle /\ Settled(r)') \/ (task'[p].rule = r /\ Place(r, task[p])')
        BY <3>1, CallMoves
        DEF ForwardInv, CallType, Close, At, Points, Stopping, Place, Settled, Empty,
            Exists, Open, ruleVars, tableVars
      <3>3. Reached(r)'
        BY <2>2, <3>1, Caller DEF Close, At, Place, Open, Reached
      <3>4. QED
        BY <2>2, <3>2, <3>3, CallMoves, OwnStep DEF ForwardInv, Close, Points, Stopping
    <2>3. QED
      BY <2>1, <2>2
  <1>6. QED
    BY <1>1, <1>2, <1>3, <1>4, <1>5, StepAt

\* A stop clears the tables.
LEMMA DropKeeps ==
  ASSUME ForwardInv, NEW p \in Calls, NEW r \in Rules, task[p].rule = r,
         Drop(p)
  PROVE  ForwardInv'
  <1>1. PFTypeOK'
    BY CallMoves
    DEF ForwardInv, PFTypeOK, Drop, Points, Stopping, ruleVars, runVars, linkVars
  <1>2. OwnedInv'
    <2>1. OwnedInv /\ PFTypeOK
      BY DEF ForwardInv
    <2>2. QED
      BY <2>1, CallMoves, OwnedStep
      DEF OwnedInv, Drop, Points, Stopping, ruleVars, runVars
  <1>3. ChosenInv'
    BY DEF ForwardInv, ChosenInv, Drop, ruleVars
  <1>4. OnlyAt(r)
    BY CallMoves
    DEF ForwardInv, OnlyAt, Drop, Points, Stopping, ruleVars, runVars, linkVars
  <1>5. RuleInv(r)'
    <2>1. CASE r \in raced
      BY <2>1 DEF RuleInv, Drop
    <2>2. CASE r \notin raced
      <3>1. Place(r, task[p])
        BY <2>2, Caller
      <3>2. (task'[p] = Idle /\ Settled(r)') \/ (task'[p].rule = r /\ Place(r, task[p])')
        BY <3>1, CallMoves
        DEF ForwardInv, PFTypeOK, Drop, Points, Stopping, Place, Empty, Exists, ruleVars
      <3>3. Reached(r)'
        BY <2>2, <3>1, Caller, ForwardAssumption
        DEF Drop, At, Place, Open, Reached, runVars
      <3>4. QED
        BY <2>2, <3>2, <3>3, CallMoves, OwnStep DEF ForwardInv, Drop, Points, Stopping
    <2>3. QED
      BY <2>1, <2>2
  <1>6. QED
    BY <1>1, <1>2, <1>3, <1>4, <1>5, StepAt

\* A stop ends, or goes on to remove the rule.
LEMMA StoppedKeeps ==
  ASSUME ForwardInv, NEW p \in Calls, NEW r \in Rules, task[p].rule = r,
         Stopped(p)
  PROVE  ForwardInv'
  <1>1. PFTypeOK'
    BY CallMoves
    DEF ForwardInv, PFTypeOK, Stopped, Points, Stopping, tableVars, runVars, linkVars,
        UpdateStatus
  <1>2. OwnedInv'
    <2>1. OwnedInv /\ PFTypeOK
      BY DEF ForwardInv
    <2>2. QED
      BY <2>1, CallMoves, OwnedStep
      DEF OwnedInv, Stopped, Points, Stopping, tableVars, runVars, UpdateStatus
  <1>3. ChosenInv'
    BY DEF ForwardInv, ChosenInv, Stopped, UpdateStatus, Exists
  <1>4. OnlyAt(r)
    BY CallMoves
    DEF ForwardInv, OnlyAt, Stopped, Idle, Points, Stopping, tableVars, runVars,
        linkVars, UpdateStatus
  <1>5. RuleInv(r)'
    <2>1. CASE r \in raced
      BY <2>1 DEF RuleInv, Stopped
    <2>2. CASE r \notin raced
      <3>1. Place(r, task[p])
        BY <2>2, Caller
      <3>2. (task'[p] = Idle /\ Settled(r)') \/ (task'[p].rule = r /\ Place(r, task[p])')
        BY <3>1, CallMoves
        DEF ForwardInv, PFTypeOK, Stopped, At, Points, Stopping, Place, Settled, Empty,
            Exists, tableVars, UpdateStatus
      <3>3. Reached(r)'
        BY <2>2, <3>1, Caller
        DEF Stopped, At, Place, Exists, Open, Reached, tableVars, runVars, UpdateStatus
      <3>4. QED
        BY <2>2, <3>2, <3>3, CallMoves, OwnStep
        DEF ForwardInv, Stopped, Points, Stopping
    <2>3. QED
      BY <2>1, <2>2
  <1>6. QED
    BY <1>1, <1>2, <1>3, <1>4, <1>5, StepAt

\* A rule is removed.
LEMMA DeleteKeeps ==
  ASSUME ForwardInv, NEW p \in Calls, NEW r \in Rules, task[p].rule = r,
         Delete(p)
  PROVE  ForwardInv'
  <1>1. PFTypeOK'
    BY CallMoves DEF ForwardInv, PFTypeOK, Delete, runVars, linkVars
  <1>2. OwnedInv'
    <2>1. OwnedInv /\ PFTypeOK
      BY DEF ForwardInv
    <2>2. QED
      BY <2>1, CallMoves, OwnedStep DEF Delete, runVars
  <1>3. ChosenInv'
    BY DEF ForwardInv, ChosenInv, Delete, At, OwnedInv
  <1>4. OnlyAt(r)
    BY CallMoves DEF ForwardInv, OnlyAt, Delete, Idle, runVars, linkVars
  <1>5. RuleInv(r)'
    <2>1. CASE r \in raced
      BY <2>1 DEF RuleInv, Delete
    <2>2. CASE r \notin raced
      <3>1. Place(r, task[p])
        BY <2>2, Caller
      <3>2. (task'[p] = Idle /\ Settled(r)') \/ (task'[p].rule = r /\ Place(r, task[p])')
        BY <3>1, CallMoves DEF ForwardInv, PFTypeOK, Delete, Settled, Empty
      <3>3. Reached(r)'
        BY <2>2, <3>1, Caller, ForwardAssumption
        DEF Delete, At, Place, Empty, Open, Reached, runVars
      <3>4. QED
        BY <2>2, <3>2, <3>3, CallMoves, OwnStep DEF ForwardInv, Delete
    <2>3. QED
      BY <2>1, <2>2
  <1>6. QED
    BY <1>1, <1>2, <1>3, <1>4, <1>5, StepAt

\* A run is registered for a rule.
LEMMA RegisterKeeps ==
  ASSUME ForwardInv, NEW p \in Calls, NEW r \in Rules, task[p].rule = r,
         NEW k \in Runs, Register(p, k)
  PROVE  ForwardInv'
  <1>0. /\ PFTypeOK /\ OwnedInv /\ r # None /\ k # None
        /\ task[p].pc = "client" /\ rule[k] = None
        /\ task' = [task EXCEPT ![p].pc = "listen", ![p].run = k]
        /\ rule' = [rule EXCEPT ![k] = r] /\ states' = [states EXCEPT ![r] = k]
        /\ live' = live \/ live' = live \cup {k}
        /\ UNCHANGED <<ruleVars, listeners, port, listener, done, link, alive, raced>>
    BY ForwardAssumption DEF ForwardInv, Register, At
  <1>1. /\ task' \in [Calls -> CallType]
        /\ task'[p].pc = "listen" /\ task'[p].rule = r /\ task'[p].run = k
        /\ task'[p].heard = task[p].heard
        /\ \A q \in Calls \ {p} : task'[q] = task[q]
    <2>1. task \in [Calls -> CallType] /\ k \in Runs \cup {None} /\ "listen" \in Points
      BY <1>0 DEF PFTypeOK, Points, Starting
    <2> DEFINE x == [task[p] EXCEPT !.pc = "listen", !.run = k]
    <2>2. task' = [task EXCEPT ![p] = x]
      BY <1>0, <2>1
    <2>3. /\ x \in CallType /\ x.pc = "listen" /\ x.rule = r /\ x.run = k
          /\ x.heard = task[p].heard
      BY <2>1 DEF CallType
    <2> HIDE DEF x
    <2>4. QED
      BY <2>1, <2>2, <2>3
  <1>2. PFTypeOK'
    BY <1>0, <1>1 DEF PFTypeOK, ruleVars
  <1>3. \A j \in Runs : rule[j] # None => j # k /\ rule'[j] = rule[j]
    BY <1>0 DEF PFTypeOK
  <1>4. OwnedInv'
    <2>1. \A s \in Rules : /\ states'[s] # None => rule'[states'[s]] = s
                           /\ listeners'[s] # None => rule'[listeners'[s]] = s
      BY <1>0, <1>3, ForwardAssumption DEF OwnedInv, PFTypeOK
    <2>2. ASSUME NEW q \in Calls
          PROVE  /\ task'[q].pc = "idle" => task'[q] = Idle
                 /\ task'[q].pc # "idle" =>
                      task'[q].rule # None /\ status'[task'[q].rule] # "absent"
                 /\ task'[q].run # None => rule'[task'[q].run] = task'[q].rule
                 /\ task'[q].heard # None => rule'[task'[q].heard] = task'[q].rule
                 /\ task'[q].pc \in {"listen", "bind", "publish", "started", "undo"} =>
                      task'[q].run # None
                 /\ task'[q].pc = "bind" => task'[q].rule \notin Remote
      <3>1. /\ task[q].run # None => task[q].run \in Runs /\ rule[task[q].run] # None
            /\ task[q].heard # None => task[q].heard \in Runs /\ rule[task[q].heard] # None
        BY ForwardAssumption, <1>0 DEF OwnedInv, PFTypeOK, CallType, Idle
      <3>2. CASE q # p
        BY <1>0, <1>1, <1>3, <3>1, <3>2 DEF OwnedInv, ruleVars
      <3>3. CASE q = p
        BY <1>0, <1>1, <1>3, <3>1, <3>3 DEF OwnedInv, PFTypeOK, ruleVars
      <3>4. QED
        BY <3>2, <3>3
    <2>3. \A j \in Runs : rule'[j] = None => listener'[j] = "none" /\ j \notin done'
      BY <1>0 DEF OwnedInv, PFTypeOK
    <2>4. Idle' = Idle
      BY DEF Idle
    <2>5. QED
      BY <2>1, <2>2, <2>3, <2>4 DEF OwnedInv
  <1>5. ChosenInv'
    BY <1>0 DEF ForwardInv, ChosenInv, ruleVars
  <1>6. OnlyAt(r)
    BY <1>0, <1>1, ForwardAssumption DEF OnlyAt, PFTypeOK, ruleVars
  <1>7. RuleInv(r)'
    <2>1. CASE r \in raced
      BY <1>0, <2>1 DEF RuleInv
    <2>2. CASE r \notin raced
      <3>1. /\ Place(r, task[p]) /\ Exists(r) /\ status[r] # "running" /\ Empty(r)
            /\ k \notin done /\ listener[k] = "none"
        BY <1>0, <2>2, Caller DEF Place, OwnedInv
      <3>2. Place(r, task[p])'
        BY <1>0, <1>1, <3>1 DEF Place, Exists, Entered, Empty, PFTypeOK, ruleVars
      <3>3. Reached(r)'
        BY <1>0, <1>3, <2>2, <3>1, Caller, ForwardAssumption
        DEF Reached, Open, Empty, PFTypeOK
      <3>4. QED
        BY <1>0, <1>1, <2>2, <3>2, <3>3, Caller, OwnStep
    <2>3. QED
      BY <2>1, <2>2
  <1>8. QED
    BY <1>2, <1>4, <1>5, <1>6, <1>7, StepAt

\* A run gets its listener.
LEMMA ListenKeeps ==
  ASSUME ForwardInv, NEW p \in Calls, NEW r \in Rules, task[p].rule = r,
         NEW q \in Ports, Listen(p, q)
  PROVE  ForwardInv'
  <1> DEFINE k == task[p].run
             place == IF bind[r] = None THEN "bind" ELSE "publish"
  <1>0. /\ PFTypeOK /\ OwnedInv /\ r # None /\ k # None /\ k \in Runs /\ rule[k] = r
        /\ task[p].pc = "listen" /\ q \in Candidates(r) /\ q # None
        /\ r \in Remote => k \in live
        /\ listener' = [listener EXCEPT ![k] = "bound"]
        /\ port' = [port EXCEPT ![k] = q]
        /\ GoOn(p, place)
        /\ UNCHANGED <<ruleVars, tableVars, rule, done, linkVars, raced>>
    BY ForwardAssumption DEF ForwardInv, Listen, At, OwnedInv, PFTypeOK, CallType
  <1>1. /\ task' \in [Calls -> CallType]
        /\ task'[p].pc = place /\ task'[p].rule = r /\ task'[p].run = k
        /\ task'[p].heard = task[p].heard
        /\ \A j \in Calls \ {p} : task'[j] = task[j]
    BY <1>0, CallMoves DEF Points, Starting
  <1>2. PFTypeOK'
    BY <1>0, <1>1 DEF PFTypeOK, ruleVars, tableVars, linkVars
  <1>3. bind[r] = None => r \notin Remote
    BY <1>0 DEF ForwardInv, ChosenInv, OwnedInv
  <1> HIDE DEF k
  <1>4. OwnedInv'
    <2>1. \A j \in Runs : rule[j] = None => listener'[j] = listener[j]
      BY <1>0
    <2>2. task[p].heard # None => rule[task[p].heard] = r
      BY <1>0 DEF OwnedInv
    <2>3. QED
      BY <1>0, <1>1, <1>3, <2>1, <2>2, OwnedStep DEF ruleVars, tableVars
  <1>5. ChosenInv'
    BY <1>0 DEF ForwardInv, ChosenInv, ruleVars
  <1>6. OnlyAt(r)
    BY <1>0, <1>1 DEF OnlyAt, PFTypeOK, ruleVars, tableVars, linkVars
  <1>7. RuleInv(r)'
    <2>1. CASE r \in raced
      BY <1>0, <2>1 DEF RuleInv
    <2>2. CASE r \notin raced
      <3>1. Place(r, task[p]) /\ Exists(r) /\ Entered(r, k)
        BY <1>0, <2>2, Caller DEF Place, k
      <3>2. /\ Exists(r)' /\ Entered(r, k)' /\ listener'[k] = "bound" /\ port'[k] = q
            /\ bind'[r] = bind[r] /\ (bind[r] # None => q = bind[r])
        BY <1>0, <1>1, <3>1, ForwardAssumption
        DEF Exists, Entered, PFTypeOK, Candidates, ruleVars, tableVars, k
      <3>3. Place(r, task[p])'
        BY <1>1, <3>2 DEF Place, Entered, k
      <3>4. Reached(r)'
        BY <1>0, <1>1, <2>2, <3>1, Caller, ForwardAssumption
        DEF Reached, Open, Entered, PFTypeOK, tableVars, k
      <3>5. QED
        BY <1>0, <1>1, <2>2, <3>3, <3>4, Caller, OwnStep
    <2>3. QED
      BY <2>1, <2>2
  <1>8. QED
    BY <1>2, <1>4, <1>5, <1>6, <1>7, StepAt

-----------------------------------------------------------------------------
\* A call begins at a rule that is there.
LEMMA BeginKeeps ==
  ASSUME ForwardInv, NEW p \in Calls, NEW r \in Rules, NEW removing \in BOOLEAN,
         NEW place \in {"client", "snap", "delete"},
         Exists(r), place = "snap" \/ status[r] # "running",
         Begin(p, r, place, removing),
         UNCHANGED <<ruleVars, tableVars, runVars, linkVars>>
  PROVE  ForwardInv'
  <1>0. /\ PFTypeOK /\ OwnedInv /\ r # None
        /\ task[p] = Idle
        /\ raced' = IF Busy(r) THEN raced \cup {r} ELSE raced
    BY ForwardAssumption DEF ForwardInv, Begin, At, OwnedInv
  <1>1. /\ task' \in [Calls -> CallType]
        /\ task'[p].pc = place /\ task'[p].rule = r
        /\ task'[p].run = None /\ task'[p].heard = None
        /\ \A q \in Calls \ {p} : task'[q] = task[q]
    BY <1>0 DEF Begin, PFTypeOK, CallType, Idle, Points, Starting, Stopping
  <1>2. PFTypeOK'
    BY <1>0, <1>1 DEF PFTypeOK, ruleVars, tableVars, runVars, linkVars
  <1>3. OwnedInv'
    BY <1>0, <1>1 DEF OwnedInv, Exists, Idle, PFTypeOK, ruleVars, tableVars, runVars
  <1>4. ChosenInv'
    BY DEF ForwardInv, ChosenInv, ruleVars
  <1>5. OnlyAt(r)
    BY <1>0, <1>1 DEF OnlyAt, Idle, PFTypeOK, ruleVars, tableVars, runVars, linkVars
  <1>6. RuleInv(r)'
    <2>1. CASE r \in raced \/ Busy(r)
      BY <1>0, <2>1 DEF RuleInv
    <2>2. CASE r \notin raced /\ ~Busy(r)
      <3>1. /\ Settled(r) /\ Reached(r)
            /\ \A q \in Calls : task[q].rule # r
        BY <2>2 DEF ForwardInv, RuleInv, Busy
      <3>2. Settled(r)' /\ Exists(r)'
        BY <3>1
        DEF Settled, Serving, Empty, Exists, ruleVars, tableVars, runVars, linkVars
      <3>3. Place(r, task[p])'
        BY <1>1, <3>1, <3>2 DEF Place, Settled, Empty, ruleVars, tableVars
      <3>4. Reached(r)'
        BY <1>0, <1>1, <3>1, <3>2, ForwardAssumption
        DEF Reached, Open, OwnedInv, Exists, ruleVars, tableVars, runVars
      <3>5. QED
        BY <1>1, <3>1, <3>3, <3>4 DEF RuleInv, Busy
    <2>3. QED
      BY <2>1, <2>2
  <1>7. QED
    BY <1>2, <1>3, <1>4, <1>5, <1>6, StepAt

\* The bindings that begin a call.
LEMMA BindingKeeps ==
  ASSUME ForwardInv, NEW p \in Calls, NEW r \in Rules,
         StartForward(p, r) \/ StopForward(p, r) \/ RemoveForward(p, r)
  PROVE  ForwardInv'
  <1>1. CASE StartForward(p, r)
    BY <1>1, BeginKeeps DEF StartForward
  <1>2. CASE StopForward(p, r)
    BY <1>2, BeginKeeps DEF StopForward
  <1>3. CASE RemoveForward(p, r)
    BY <1>3, BeginKeeps DEF RemoveForward
  <1>4. QED
    BY <1>1, <1>2, <1>3

\* A new rule is stopped and has nothing in the tables.
LEMMA AddKeeps ==
  ASSUME ForwardInv, NEW r \in Rules, NEW q \in Ports \cup {None}, AddForward(r, q)
  PROVE  ForwardInv'
  <1>0. /\ PFTypeOK /\ OwnedInv /\ r # None /\ status[r] = "absent"
        /\ status' = [status EXCEPT ![r] = "stopped"] /\ bind' = [bind EXCEPT ![r] = q]
        /\ r \in Remote => q # None
        /\ UNCHANGED <<tableVars, runVars, linkVars, task, raced>>
    BY ForwardAssumption DEF ForwardInv, AddForward
  <1>1. PFTypeOK'
    BY <1>0 DEF PFTypeOK, tableVars, runVars, linkVars
  <1>2. OwnedInv'
    <2>1. \A s \in Rules : status[s] # "absent" => status'[s] # "absent"
      BY <1>0 DEF PFTypeOK
    <2>2. \A p \in Calls : task[p].rule # None => task[p].rule \in Rules
      BY <1>0 DEF PFTypeOK, CallType
    <2>3. QED
      BY <1>0, <2>1, <2>2 DEF OwnedInv, Idle, tableVars, runVars
  <1>3. ChosenInv'
    BY <1>0, ForwardAssumption DEF ForwardInv, ChosenInv, PFTypeOK
  <1>4. OnlyAt(r)
    BY <1>0 DEF OnlyAt, PFTypeOK, tableVars, runVars, linkVars
  <1>5. RuleInv(r)'
    <2>1. CASE r \in raced
      BY <1>0, <2>1 DEF RuleInv
    <2>2. CASE r \notin raced
      <3>1. \A p \in Calls : task[p].rule # r
        BY <1>0 DEF OwnedInv, Idle
      <3>2. Settled(r) /\ Reached(r)
        BY <2>2, <3>1 DEF ForwardInv, RuleInv, Busy
      <3>3. Settled(r)' /\ Reached(r)'
        <4>1. Empty(r)
          BY <1>0, <3>2 DEF Settled
        <4>2. \A k \in Runs : rule[k] = r => ~Open(k)
          BY <1>0, <3>1, <3>2 DEF Reached, Exists, OwnedInv
        <4>3. QED
          BY <1>0, <4>1, <4>2
          DEF Settled, Empty, Reached, Open, PFTypeOK, tableVars, runVars
      <3>4. QED
        BY <1>0, <3>1, <3>3 DEF RuleInv
    <2>3. QED
      BY <2>1, <2>2
  <1>6. QED
    BY <1>1, <1>2, <1>3, <1>4, <1>5, StepAt

-----------------------------------------------------------------------------
\* The flags of the client say nothing about rules.
LEMMA FlagsKeep ==
  ASSUME ForwardInv, UNCHANGED <<ruleVars, tableVars, runVars, live, task, raced>>,
         link' \in BOOLEAN, alive' \in BOOLEAN
  PROVE  ForwardInv'
  <1>1. PFTypeOK' /\ OwnedInv' /\ ChosenInv'
    BY DEF ForwardInv, PFTypeOK, OwnedInv, ChosenInv, Idle, ruleVars, tableVars, runVars
  <1>2. ASSUME NEW r \in Rules PROVE RuleInv(r)'
    <2>1. RuleInv(r)
      BY DEF ForwardInv
    <2>2. (Settled(r)' <=> Settled(r)) /\ (Reached(r)' <=> Reached(r))
      BY DEF Settled, Serving, Empty, Reached, Exists, Open, ruleVars, tableVars, runVars
    <2>3. \A p \in Calls : Place(r, task[p])' <=> Place(r, task[p])
      BY <2>2 DEF Place, Entered, Serving, Empty, Exists, Open, ruleVars, tableVars, runVars
    <2>4. QED
      BY <2>1, <2>2, <2>3 DEF RuleInv, Busy
  <1>3. QED
    BY <1>1, <1>2 DEF ForwardInv

\* A lost or closed client takes the listeners of remote rules with it.
LEMMA LostKeeps ==
  ASSUME ForwardInv, ServerLost \/ Clean
  PROVE  ForwardInv'
  <1>0. /\ PFTypeOK /\ OwnedInv
        /\ live' = {} /\ link' \in BOOLEAN /\ alive' \in BOOLEAN
        /\ listener' = [k \in Runs |-> IF Open(k) /\ rule[k] \in Remote
                                       THEN "closed" ELSE listener[k]]
        /\ UNCHANGED <<ruleVars, tableVars, rule, port, done, task, raced>>
    BY DEF ForwardInv, PFTypeOK, ServerLost, Clean
  <1>1. PFTypeOK'
    BY <1>0 DEF PFTypeOK, Open, ruleVars, tableVars
  <1>2. OwnedInv' /\ ChosenInv'
    <2>1. \A k \in Runs : rule[k] = None => listener'[k] = "none"
      BY <1>0 DEF OwnedInv, Open
    <2>2. QED
      BY <1>0, <2>1 DEF ForwardInv, OwnedInv, ChosenInv, Idle, ruleVars, tableVars
  <1>3. ASSUME NEW r \in Rules PROVE RuleInv(r)'
    <2>1. RuleInv(r)
      BY DEF ForwardInv
    <2>2. \A k \in Runs : /\ rule[k] = r => r \in Remote \/ listener'[k] = listener[k]
                          /\ Open(k)' => Open(k)
      BY <1>0 DEF Open
    <2>3. /\ listeners[r] # None => listeners[r] \in Runs /\ rule[listeners[r]] = r
          /\ states[r] # None => states[r] \in Runs
      BY <1>0 DEF PFTypeOK, OwnedInv
    <2>4. Settled(r) => Settled(r)'
      BY <1>0, <2>2, <2>3 DEF Settled, Serving, Empty, ruleVars, tableVars
    <2>5. Reached(r) => Reached(r)'
      BY <1>0, <2>2 DEF Reached, Exists, ruleVars, tableVars
    <2>6. ASSUME NEW p \in Calls, task[p].rule = r, Place(r, task[p])
          PROVE  Place(r, task[p])'
      <3>1. task[p].run # None => task[p].run \in Runs /\ rule[task[p].run] = r
        BY <1>0, <2>6 DEF OwnedInv, PFTypeOK, CallType
      <3>2. task[p].pc \in {"listen", "bind", "publish", "started", "undo"} =>
            task[p].run # None
        BY <1>0 DEF OwnedInv
      <3>3. task[p].pc = "bind" => r \notin Remote
        BY <1>0, <2>6 DEF OwnedInv
      <3>4. QED
        BY <1>0, <2>2, <2>3, <2>4, <2>6, <3>1, <3>2, <3>3
        DEF Place, Entered, Serving, Empty, Exists, ruleVars, tableVars
    <2>7. QED
      BY <1>0, <2>1, <2>4, <2>5, <2>6 DEF RuleInv, Busy
  <1>4. QED
    BY <1>1, <1>2, <1>3 DEF ForwardInv

-----------------------------------------------------------------------------
\* A step of a call that is under way.
LEMMA StepKeeps ==
  ASSUME ForwardInv, NEW p \in Calls, Step(p)
  PROVE  ForwardInv'
  <1>1. task[p].rule \in Rules
    BY SMTT(30) DEF Step, ClientMissing, Register, Listen, ListenFails, Bind, Publish, Started, Undo,
           Fail, Snap, Close, Drop, Stopped, Delete, At, ForwardInv, OwnedInv, PFTypeOK, CallType
  <1>2. PICK r \in Rules : task[p].rule = r
    BY <1>1
  <1>3. CASE \E k \in Runs : Register(p, k)
    BY <1>2, <1>3, RegisterKeeps
  <1>4. CASE \E q \in Ports : Listen(p, q)
    BY <1>2, <1>4, ListenKeeps
  <1>5. CASE ClientMissing(p) \/ ListenFails(p) \/ Bind(p) \/ Publish(p) \/ Started(p)
    BY <1>2, <1>5, ClientMissingKeeps, ListenFailsKeeps, BindKeeps, PublishKeeps,
       StartedKeeps
  <1>6. CASE Undo(p) \/ Fail(p) \/ Snap(p) \/ Close(p) \/ Drop(p) \/ Stopped(p) \/ Delete(p)
    BY <1>2, <1>6, UndoKeeps, FailKeeps, SnapKeeps, CloseKeeps, DropKeeps, StoppedKeeps,
       DeleteKeeps
  <1>7. QED
    BY <1>3, <1>4, <1>5, <1>6 DEF Step

\* The invariant holds throughout: at a rule where no two calls overlap, each call finds
\* the tables, the listener and the status as it left them.
THEOREM ForwardsAgree == PFSpec => []ForwardInv
  <1>1. ASSUME ForwardInv, [PFNext]_pfVars PROVE ForwardInv'
    <2>1. CASE \E r \in Rules, q \in Ports \cup {None} : AddForward(r, q)
      BY <1>1, <2>1, AddKeeps
    <2>2. CASE \E p \in Calls, r \in Rules :
                 StartForward(p, r) \/ StopForward(p, r) \/ RemoveForward(p, r)
      BY <1>1, <2>2, BindingKeeps
    <2>3. CASE \E p \in Calls : Step(p)
      BY <1>1, <2>3, StepKeeps
    <2>4. CASE HandleDisconnect \/ Insert \/ UNCHANGED pfVars
      <3>1. /\ UNCHANGED <<ruleVars, tableVars, runVars, live, task, raced>>
            /\ link' \in BOOLEAN /\ alive' \in BOOLEAN
        BY <1>1, <2>4 DEF HandleDisconnect, Insert, pfVars, linkVars, ForwardInv, PFTypeOK
      <3>2. QED
        BY <1>1, <3>1, FlagsKeep
    <2>5. CASE ServerLost \/ Clean
      BY <1>1, <2>5, LostKeeps
    <2>6. QED
      BY <1>1, <2>1, <2>2, <2>3, <2>4, <2>5 DEF PFNext
  <1>2. QED
    BY <1>1, ForwardInit, PTL DEF PFSpec

\* The state of the port forwards keeps its shape.
THEOREM ForwardsTyped == PFSpec => []PFTypeOK
  <1>1. ForwardInv => PFTypeOK
    BY DEF ForwardInv
  <1>2. QED
    BY <1>1, ForwardsAgree, PTL

\* An open listener can be reached by a stop, unless calls overlapped on its rule.
THEOREM NoStrayListener == PFSpec => []OpenIsOwned
  <1>1. ForwardInv => OpenIsOwned
    BY ForwardAssumption
    DEF ForwardInv, RuleInv, Reached, OpenIsOwned, PFTypeOK, OwnedInv, Open
  <1>2. QED
    BY <1>1, ForwardsAgree, PTL

\* The status of a rule that no call is at is that of its listener and tables.
THEOREM RunningMeansListening == PFSpec => []RunningListens
  <1>1. ForwardInv => RunningListens
    BY DEF ForwardInv, RuleInv, Settled, Serving, Empty, RunningListens, Quiet
  <1>2. QED
    BY <1>1, ForwardsAgree, PTL

\* No done channel is closed twice, unless calls overlapped on its rule.
THEOREM NoSecondClose == PFSpec => []ClosedOnce
  <1>1. ASSUME ForwardInv PROVE ClosedOnce
    <2> SUFFICES ASSUME NEW p \in Calls, task[p].pc = "close", task[p].rule \notin raced
                 PROVE  task[p].run \notin done
      BY DEF ClosedOnce, At
    <2>1. task[p].rule \in Rules
      BY <1>1 DEF ForwardInv, OwnedInv, PFTypeOK, CallType
    <2>2. Settled(task[p].rule) /\ task[p].run = states[task[p].rule]
      BY <1>1, <2>1 DEF ForwardInv, RuleInv, Place
    <2>3. None \notin done
      BY <1>1, ForwardAssumption DEF ForwardInv, PFTypeOK
    <2>4. QED
      BY <2>2, <2>3 DEF Settled, Empty
  <1>2. QED
    BY <1>1, ForwardsAgree, PTL

\* A run whose done channel is closed is in the table of runs only as long as the call
\* that closed it is about to take it out, whatever calls overlap.
THEOREM NoClosedRunLeft == PFSpec => []ClosedAreDropped
  <1>1. ASSUME PFTypeOK, OwnedInv, ClosedAreDropped, [PFNext]_pfVars
        PROVE  ClosedAreDropped'
    <2> SUFFICES ASSUME NEW r \in Rules, states'[r] \in done'
                 PROVE  \E p \in Calls : task'[p].pc = "drop" /\ task'[p].rule = r
      BY DEF ClosedAreDropped, At
    <2> DEFINE Kept ==
          \A p \in Calls : task[p].pc = "drop" =>
            task'[p].pc = "drop" /\ task'[p].rule = task[p].rule
    <2>1. None \notin done
      BY <1>1, ForwardAssumption DEF PFTypeOK
    <2>2. CASE UNCHANGED <<states, done>> /\ Kept
      BY <1>1, <2>2 DEF ClosedAreDropped, At
    <2>3. ASSUME NEW p \in Calls, NEW k \in Runs, Register(p, k)
          PROVE  \E q \in Calls : task'[q].pc = "drop" /\ task'[q].rule = r
      <3>1. k \notin done /\ done' = done /\ states' = [states EXCEPT ![task[p].rule] = k]
        BY <1>1, <2>3 DEF Register, OwnedInv
      <3>2. states'[r] = states[r]
        BY <1>1, <3>1 DEF PFTypeOK
      <3>3. Kept
        BY <1>1, <2>3 DEF Register, At, PFTypeOK
      <3>4. QED
        BY <1>1, <3>1, <3>2, <3>3 DEF ClosedAreDropped, At
    <2>4. ASSUME NEW p \in Calls, Undo(p) \/ Drop(p) \/ Delete(p)
          PROVE  \E q \in Calls : task'[q].pc = "drop" /\ task'[q].rule = r
      <3>1. done' = done /\ states' = [states EXCEPT ![task[p].rule] = None]
        BY <2>4 DEF Undo, Drop, Delete, runVars
      <3>2. task[p].rule # r /\ states'[r] = states[r]
        BY <1>1, <2>1, <3>1 DEF PFTypeOK
      <3>3. \A q \in Calls \ {p} : task'[q] = task[q]
        BY <1>1, <2>4 DEF Undo, Drop, Delete, GoOn, Return, PFTypeOK
      <3>4. QED
        BY <1>1, <3>1, <3>2, <3>3 DEF ClosedAreDropped, At
    <2>5. ASSUME NEW p \in Calls, Close(p)
          PROVE  \E q \in Calls : task'[q].pc = "drop" /\ task'[q].rule = r
      <3>1. states' = states /\ Kept
        BY <1>1, <2>5 DEF Close, At, GoOn, Return, PFTypeOK, tableVars
      <3>2. CASE states[r] \in done
        BY <1>1, <3>1, <3>2 DEF ClosedAreDropped, At
      <3>3. CASE states[r] \notin done
        <4>1. states[r] = task[p].run /\ task[p].run # None
          BY <2>5, <3>1, <3>3 DEF Close
        <4>2. task[p].rule = r
          BY <1>1, <4>1 DEF OwnedInv
        <4>3. task'[p].pc = "drop" /\ task'[p].rule = r
          BY <1>1, <2>5, <3>3, <4>1, <4>2 DEF Close, GoOn, PFTypeOK, CallType
        <4>4. QED
          BY <4>3
      <3>4. QED
        BY <3>2, <3>3
    <2>6. ASSUME NEW p \in Calls, NEW s \in Rules,
                 StartForward(p, s) \/ StopForward(p, s) \/ RemoveForward(p, s)
          PROVE  UNCHANGED <<states, done>> /\ Kept
      BY <1>1, <2>6
      DEF StartForward, StopForward, RemoveForward, Begin, At, PFTypeOK, tableVars, runVars
    <2>7. ASSUME NEW p \in Calls,
                 \/ ClientMissing(p) \/ \E q \in Ports : Listen(p, q)
                 \/ ListenFails(p) \/ Bind(p) \/ Publish(p)
          PROVE  UNCHANGED <<states, done>> /\ Kept
      BY <1>1, <2>7
      DEF ClientMissing, Listen, ListenFails, Bind, Publish, GoOn, At, PFTypeOK, tableVars,
          runVars
    <2>8. ASSUME NEW p \in Calls, Started(p) \/ Fail(p) \/ Snap(p) \/ Stopped(p)
          PROVE  UNCHANGED <<states, done>> /\ Kept
      BY <1>1, <2>8
      DEF Started, Fail, Snap, Stopped, GoOn, Return, At, PFTypeOK, tableVars, runVars
    <2>9. ASSUME \/ \E s \in Rules, q \in Ports \cup {None} : AddForward(s, q)
                 \/ HandleDisconnect \/ ServerLost \/ Clean \/ Insert \/ UNCHANGED pfVars
          PROVE  UNCHANGED <<states, done>> /\ Kept
      BY <2>9
      DEF AddForward, HandleDisconnect, ServerLost, Clean, Insert, pfVars, tableVars, runVars
    <2>10. QED
      BY <1>1, <2>2, <2>3, <2>4, <2>5, <2>6, <2>7, <2>8, <2>9 DEF PFNext, Step
  <1>2. PFInit => ClosedAreDropped
    BY DEF PFInit, ClosedAreDropped
  <1>3. ForwardInv => PFTypeOK /\ OwnedInv
    BY DEF ForwardInv
  <1>4. QED
    BY <1>1, <1>2, <1>3, ForwardsAgree, PTL DEF PFSpec
=============================================================================

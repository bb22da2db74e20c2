---------------------------- MODULE PanelProofs ----------------------------
(***************************************************************************)
(* What holds of three panels of a connection window for every set of      *)
(* connections and files and every bound.  Files: the listing is of the    *)
(* directory in the path bar, spinners wait for an answer, results are of  *)
(* the last search, and dialogs belong to the tab in front.  Batch         *)
(* commands: a row shows a command as running just as long as its call is  *)
(* unanswered.  Terminal: what is called ready is mounted, cursors stay    *)
(* within the lists they point into, and a block that has ended is not     *)
(* written to again.                                                       *)
(***************************************************************************)
EXTENDS Files, Batch, Terminal, FiniteSetTheorems, SequenceTheorems, TLAPS

-----------------------------------------------------------------------------
(* Batch commands                                                          *)

\* Only the last run waits for calls, and only while the panel is running; a row is
\* running as long as that run waits for it.
OneRun ==
  /\ rounds \in Nat /\ running \in BOOLEAN
  /\ DOMAIN waiting = (IF running THEN {rounds} ELSE {})
  /\ waiting = [r \in DOMAIN waiting |-> waiting[r]]
  /\ results = [c \in DOMAIN results |-> results[c]]
  /\ \A c \in DOMAIN results :
       results[c] = "running" <=> running /\ c \in waiting[rounds]

LEMMA OneRunGivesRows == OneRun => RowsOfRun
BY DEF OneRun, RowsOfRun

LEMMA OneRunAtFirst == BatchInit => OneRun
<1> SUFFICES ASSUME BatchInit PROVE OneRun
  OBVIOUS
<1>1. DOMAIN waiting = {} /\ waiting = [r \in {} |-> waiting[r]]
  BY DEF BatchInit
<1>2. DOMAIN results = {} /\ results = [c \in {} |-> results[c]]
  BY DEF BatchInit
<1>3. rounds = 0 /\ running = FALSE
  BY DEF BatchInit
<1> QED
  BY <1>1, <1>2, <1>3 DEF OneRun

\* The list of connections takes rows away and adds none.
LEMMA RowsGo ==
  ASSUME OneRun, WindowChanges
  PROVE  OneRun'
<1>1. UNCHANGED <<running, rounds, waiting>>
  BY DEF WindowChanges
<1>2. /\ results' = [c \in DOMAIN results' |-> results[c]]
      /\ DOMAIN results' \subseteq DOMAIN results
  BY DEF WindowChanges, KeepKnown, Restrict, OneRun
<1> QED
  BY <1>1, <1>2 DEF OneRun

\* A run begins when no other one waits, which the button sees to.
LEMMA RunBegins ==
  ASSUME OneRun, run
  PROVE  OneRun'
<1>1. ~running
  BY DEF run, Use, BatchOffers
<1>2. waiting' = [r \in {rounds'} |-> selectedConnections]
  BY <1>1 DEF run, OneRun
<1>3. /\ results' = [c \in selectedConnections |-> "running"]
      /\ running' = TRUE /\ rounds' = rounds + 1
  BY DEF run
<1> QED
  BY <1>2, <1>3 DEF OneRun

\* A call that ends leaves the rows of the others alone.
LEMMA CallEnds ==
  ASSUME OneRun, NEW r \in DOMAIN waiting, NEW c, CommandEnds(r, c)
  PROVE  OneRun'
<1>1. running /\ r = rounds /\ UNCHANGED <<running, rounds>>
  BY DEF CommandEnds, OneRun
<1>2. waiting' = [waiting EXCEPT ![rounds] = @ \ {c}]
  BY <1>1 DEF CommandEnds
<1>3. PICK status \in {"success", "error"} : updateResult(c, status)
  BY DEF CommandEnds
<1>4. /\ DOMAIN results' = DOMAIN results
      /\ \A d \in DOMAIN results : results'[d] = IF d = c THEN status ELSE results[d]
      /\ results' = [d \in DOMAIN results' |-> results'[d]]
  BY <1>3 DEF updateResult, OneRun
<1>5. \A d : d \in waiting'[rounds] <=> d \in waiting[rounds] /\ d # c
  BY <1>1, <1>2
<1>6. DOMAIN waiting' = DOMAIN waiting /\ waiting' = [s \in DOMAIN waiting' |-> waiting'[s]]
  BY <1>2
<1> QED
  BY <1>1, <1>4, <1>5, <1>6 DEF OneRun

\* The run ends when it waits for nothing.
LEMMA LastEnds ==
  ASSUME OneRun, NEW r \in DOMAIN waiting, RunEnds(r)
  PROVE  OneRun'
<1>1. running /\ waiting[rounds] = {} /\ DOMAIN waiting = {r}
  BY DEF RunEnds, OneRun
<1>2. DOMAIN waiting' = {} /\ waiting' = [s \in DOMAIN waiting' |-> waiting'[s]]
  BY <1>1 DEF RunEnds, Restrict
<1>3. running' = FALSE /\ UNCHANGED <<results, rounds>>
  BY DEF RunEnds
<1> QED
  BY <1>1, <1>2, <1>3 DEF OneRun

LEMMA OneRunStep == OneRun /\ [BatchNext]_batchVars => OneRun'
<1> SUFFICES ASSUME OneRun, [BatchNext]_batchVars PROVE OneRun'
  OBVIOUS
<1>1. CASE Choose \/ Type \/ UNCHANGED batchVars
  BY <1>1 DEF Choose, Type, batchVars, OneRun
<1> QED
  BY <1>1, RowsGo, RunBegins, CallEnds, LastEnds DEF BatchNext

\* A row says that its command runs just as long as the call of the run shown is
\* unanswered, and no call outlives its run.
THEOREM RowsAreOfRun == BatchSpec => []RowsOfRun
<1>1. BatchSpec => []OneRun
  BY OneRunAtFirst, OneRunStep, PTL DEF BatchSpec
<1> QED
  BY <1>1, OneRunGivesRows, PTL

-----------------------------------------------------------------------------
(* The terminal panel                                                      *)

RunSet == [conn : Conns, start : {"asked", "making", "made", "ready", "failed"},
           close : {"none", "asked", "done"}, disposed : BOOLEAN]
BlockSet == [id : Nat, status : {"running", "success", "failed", "cancelled"}, hit : BOOLEAN]

\* Only runs on the connection in front are not given up.
MountInv ==
  /\ connID \in Conns /\ runs \in Seq(RunSet) /\ DOMAIN records = Conns
  /\ \A r \in Live : runs[r].conn = connID
  /\ ReadyIsMounted

\* Blocks have ids of their own, and the active one has not ended.
BlocksInv ==
  /\ made \in 0 .. Blocks /\ blocks \in Seq(BlockSet)
  /\ \A n \in DOMAIN blocks : blocks[n].id \in 1 .. made
  /\ \A m, n \in DOMAIN blocks : blocks[m].id = blocks[n].id => m = n
  /\ active \in 1 .. made \cup {None}
  /\ \A n \in Running : blocks[n].status \in {"running", "cancelled"}

\* What CursorsInBounds says, with the shape of what it is about: the line that is typed,
\* and the search.
LineInv ==
  /\ command \in BOOLEAN
  /\ history \in Nat /\ cursor \in -1 .. history - 1
  /\ popup \in [count : Nat, index : Nat, visible : BOOLEAN]
  /\ popup.visible => popup.index < popup.count

FindSet == [visible : BOOLEAN, query : BOOLEAN, index : Int]
FindInv ==
  /\ find \in FindSet
  /\ find.index \in -1 .. Cardinality(Results(blocks, find.query)) - 1

TermInv == MountInv /\ BlocksInv /\ LineInv /\ FindInv

-----------------------------------------------------------------------------
(* The shell                                                               *)

LEMMA RunsAre ==
  ASSUME MountInv
  PROVE  /\ Len(runs) \in Nat /\ DOMAIN runs = 1 .. Len(runs)
         /\ runs \in [1 .. Len(runs) -> RunSet]
         /\ \A r \in DOMAIN runs : runs[r] \in RunSet
BY LenProperties, ElementOfSeq DEF MountInv

\* A connection that is not in front is not ready.
LEMMA ReadyInFront ==
  ASSUME MountInv, NEW c \in Conns, c # connID
  PROVE  records[c] # "ready"
BY DEF MountInv, ReadyIsMounted

\* The runs with the one in front given up.
Abandoned == [r \in DOMAIN runs |-> IF r \in Live THEN Disposed(runs[r]) ELSE runs[r]]

LEMMA AllAbandoned ==
  ASSUME MountInv
  PROVE  /\ Abandoned \in Seq(RunSet) /\ Len(Abandoned) = Len(runs)
         /\ \A r \in 1 .. Len(runs) : Abandoned[r].disposed
<1>1. ASSUME NEW r \in DOMAIN runs
      PROVE  Abandoned[r] \in RunSet /\ Abandoned[r].disposed
  BY RunsAre DEF Abandoned, Live, Disposed, RunSet
<1>2. Abandoned \in [1 .. Len(runs) -> RunSet]
  BY <1>1, RunsAre DEF Abandoned
<1>3. Abandoned \in Seq(RunSet)
  BY <1>2, RunsAre, SeqDef
<1>4. DOMAIN Abandoned = 1 .. Len(runs)
  BY <1>2
<1>5. Len(Abandoned) = Len(runs)
  BY <1>3, <1>4, RunsAre, LenProperties
<1> QED
  BY <1>1, <1>3, <1>5, RunsAre

LEMMA RestartMounts ==
  ASSUME MountInv, NEW c \in Conns, Restart(c)
  PROVE  MountInv'
<1>1. NewRun(c) \in RunSet /\ NewRun(c).conn = c /\ ~NewRun(c).disposed
  BY DEF NewRun, RunSet
<1>2. runs' = Append(Abandoned, NewRun(c))
  BY DEF Restart, Abandoned
<1> HIDE DEF Abandoned
<1>3. /\ runs' \in Seq(RunSet) /\ Len(runs') = Len(runs) + 1
      /\ runs'[Len(runs) + 1] = NewRun(c)
      /\ \A r \in 1 .. Len(runs) : runs'[r] = Abandoned[r]
  BY <1>1, <1>2, AllAbandoned, RunsAre
<1>4. DOMAIN runs' = 1 .. Len(runs) + 1
  BY <1>3, LenProperties
<1>5. \A r \in Live' : r = Len(runs) + 1
  BY <1>3, <1>4, AllAbandoned, RunsAre DEF Live
<1>6. records' = [records EXCEPT ![connID] = None, ![c] = "starting"] /\ connID' = c
  BY DEF Restart
<1>7. \A d \in Conns : records'[d] # "ready"
  BY <1>6, ReadyInFront, TerminalAssumption DEF MountInv
<1> QED
  BY <1>1, <1>3, <1>5, <1>6, <1>7 DEF MountInv, ReadyIsMounted

LEMMA CloseMounts ==
  ASSUME MountInv, ClosePanel
  PROVE  MountInv'
<1>1. runs' = Abandoned /\ connID' = connID
  BY DEF ClosePanel, Abandoned
<1>2. records' = [records EXCEPT ![connID] = None]
  BY DEF ClosePanel, Record
<1> HIDE DEF Abandoned
<1>3. Live' = {}
  BY <1>1, AllAbandoned, LenProperties DEF Live
<1>4. \A d \in Conns : records'[d] # "ready"
  BY <1>2, ReadyInFront, TerminalAssumption DEF MountInv
<1> QED
  BY <1>1, <1>2, <1>3, <1>4, AllAbandoned DEF MountInv, ReadyIsMounted

\* A start that is answered changes no other run, and none that is ready.
LEMMA StartGoesOn ==
  ASSUME MountInv, NEW r \in DOMAIN runs, NEW from \in {"asked", "making", "made"},
         NEW to \in {"making", "made", "ready", "failed"}, StartGoes(r, from, to),
         \/ records' = records
         \/ records' = [records EXCEPT ![runs[r].conn] = "error"]
         \/ /\ ~runs[r].disposed /\ to = "ready"
            /\ records' = [records EXCEPT ![runs[r].conn] = "ready"]
  PROVE  MountInv'
<1>1. connID' = connID /\ runs' = [runs EXCEPT ![r].start = to] /\ runs[r].start = from
  BY DEF StartGoes
<1>2. \A s \in DOMAIN runs : /\ runs'[s] \in RunSet
                             /\ runs'[s].conn = runs[s].conn
                             /\ runs'[s].disposed = runs[s].disposed
                             /\ runs[s].start = "ready" => runs'[s].start = "ready"
  BY <1>1, RunsAre DEF RunSet
<1>3. DOMAIN runs' = DOMAIN runs /\ runs'[r].start = to
  BY <1>1, RunsAre DEF RunSet
<1>4. runs' \in [1 .. Len(runs) -> RunSet]
  BY <1>1, <1>2, RunsAre
<1>5. runs' \in Seq(RunSet)
  BY <1>4, RunsAre, SeqDef
<1>6. Live' = Live
  BY <1>2, <1>3 DEF Live
<1>7. DOMAIN records' = Conns
  BY DEF MountInv
<1>8. ReadyIsMounted'
  <2> SUFFICES ASSUME NEW c \in Conns, records'[c] = "ready"
               PROVE  \E s \in Live' : runs'[s].conn = c /\ runs'[s].start = "ready"
    BY DEF ReadyIsMounted
  <2>1. CASE records[c] = "ready"
    <3>1. PICK s \in Live : runs[s].conn = c /\ runs[s].start = "ready"
      BY <2>1 DEF MountInv, ReadyIsMounted
    <3> QED
      BY <1>2, <1>6, <3>1 DEF Live
  <2>2. CASE records[c] # "ready"
    <3>1. c = runs[r].conn /\ ~runs[r].disposed /\ to = "ready"
      BY <2>2 DEF MountInv
    <3> QED
      BY <1>2, <1>3, <1>6, <3>1 DEF Live
  <2> QED
    BY <2>1, <2>2
<1> QED
  BY <1>1, <1>2, <1>5, <1>6, <1>7, <1>8 DEF MountInv, Live

LEMMA ShellMounts ==
  ASSUME MountInv, NEW r \in DOMAIN runs,
         CreateShell(r) \/ EnterShell(r) \/ StartFails(r) \/ Ready(r)
  PROVE  MountInv'
<1>1. CASE CreateShell(r)
  BY <1>1, StartGoesOn DEF CreateShell
<1>2. CASE EnterShell(r)
  BY <1>2, StartGoesOn DEF EnterShell
<1>3. CASE StartFails(r)
  <2>1. PICK at \in {"asked", "making", "made"} : StartGoes(r, at, "failed")
    BY <1>3 DEF StartFails
  <2>2. records' = [records EXCEPT ![runs[r].conn] = "error"]
    BY <1>3 DEF StartFails, Record
  <2> QED
    BY <2>1, <2>2, StartGoesOn
<1>4. CASE Ready(r)
  <2>1. StartGoes(r, "made", "ready")
    BY <1>4 DEF Ready
  <2>2. \/ records' = records
        \/ /\ ~runs[r].disposed
           /\ records' = [records EXCEPT ![runs[r].conn] = "ready"]
    BY <1>4 DEF Ready, Record
  <2> QED
    BY <2>1, <2>2, StartGoesOn
<1> QED
  BY <1>1, <1>2, <1>3, <1>4

LEMMA ShellCloses ==
  ASSUME MountInv, NEW r \in DOMAIN runs, closeShellSession(r)
  PROVE  MountInv'
<1>1. UNCHANGED <<connID, records>> /\ runs' = [runs EXCEPT ![r].close = "done"]
  BY DEF closeShellSession
<1>2. \A s \in DOMAIN runs : /\ runs'[s] \in RunSet
                             /\ runs'[s].conn = runs[s].conn
                             /\ runs'[s].disposed = runs[s].disposed
                             /\ runs'[s].start = runs[s].start
  BY <1>1, RunsAre DEF RunSet
<1>3. DOMAIN runs' = DOMAIN runs /\ runs' \in [1 .. Len(runs) -> RunSet]
  BY <1>1, <1>2, RunsAre
<1>4. runs' \in Seq(RunSet)
  BY <1>3, RunsAre, SeqDef
<1>5. Live' = Live
  BY <1>2, <1>3 DEF Live
<1> QED
  BY <1>1, <1>2, <1>3, <1>4, <1>5 DEF MountInv, ReadyIsMounted, Live

LEMMA MountKept ==
  ASSUME MountInv, UNCHANGED <<connID, runs, records>>
  PROVE  MountInv'
BY DEF MountInv, ReadyIsMounted, Live

-----------------------------------------------------------------------------
(* Blocks                                                                  *)

LEMMA BlocksAre ==
  ASSUME BlocksInv
  PROVE  /\ Len(blocks) \in Nat /\ DOMAIN blocks = 1 .. Len(blocks)
         /\ blocks \in [1 .. Len(blocks) -> BlockSet]
         /\ \A n \in DOMAIN blocks : blocks[n] \in BlockSet
         /\ made \in Nat /\ made <= Blocks
BY LenProperties, ElementOfSeq, TerminalAssumption DEF BlocksInv

\* What a step leaves of the blocks that had ended.
Kept ==
  \A m \in DOMAIN blocks, n \in DOMAIN blocks' :
    /\ blocks[m].id = blocks'[n].id
    /\ blocks[m].status \in {"success", "failed"}
    => blocks'[n] = blocks[m]

LEMMA BlockAdded ==
  ASSUME BlocksInv, made < Blocks, made' = made + 1, NEW status, NEW hit \in BOOLEAN,
         blocks' = Append(blocks, Block(made', status, hit)),
         \/ status = "running" /\ active' = made'
         \/ status = "success" /\ active' = active
  PROVE  BlocksInv' /\ Kept
<1> DEFINE b == Block(made', status, hit)
<1>1. b \in BlockSet /\ b.id = made + 1 /\ b.status = status
  BY BlocksAre DEF Block, BlockSet
<1>2. blocks' = Append(blocks, b)
  OBVIOUS
<1> HIDE DEF b
<1>3. /\ blocks' \in Seq(BlockSet) /\ Len(blocks') = Len(blocks) + 1
      /\ blocks'[Len(blocks) + 1] = b
      /\ \A n \in 1 .. Len(blocks) : blocks'[n] = blocks[n]
  BY <1>1, <1>2, BlocksAre DEF BlocksInv
<1>4. DOMAIN blocks' = 1 .. Len(blocks) + 1
  BY <1>3, LenProperties
<1>5. ASSUME NEW n \in DOMAIN blocks'
      PROVE  \/ n \in DOMAIN blocks /\ blocks'[n] = blocks[n] /\ blocks[n].id \in 1 .. made
             \/ n = Len(blocks) + 1 /\ blocks'[n] = b
  BY <1>3, <1>4, BlocksAre DEF BlocksInv
<1>6. made' \in 0 .. Blocks /\ made + 1 \notin 1 .. made /\ made + 1 \in 1 .. made'
  BY BlocksAre, TerminalAssumption
<1>7. \A n \in DOMAIN blocks' : blocks'[n].id \in 1 .. made'
  BY <1>1, <1>5, <1>6, BlocksAre
<1>8. \A m, n \in DOMAIN blocks' : blocks'[m].id = blocks'[n].id => m = n
  BY <1>1, <1>5, <1>6 DEF BlocksInv
<1>9. active' \in 1 .. made' \cup {None}
  BY <1>6, BlocksAre DEF BlocksInv
<1>10. active # made + 1
  <2>1. None # made + 1
    BY <1>6, BlocksAre, TerminalAssumption
  <2> QED
    BY <1>6, <2>1 DEF BlocksInv
<1>11. \A n \in Running' : blocks'[n].status \in {"running", "cancelled"}
  <2> SUFFICES ASSUME NEW n \in DOMAIN blocks', blocks'[n].id = active'
               PROVE  blocks'[n].status \in {"running", "cancelled"}
    BY DEF Running
  <2>1. CASE active' = made + 1 /\ status = "running"
    BY <1>1, <1>5, <1>6, <2>1
  <2>2. CASE active' = active
    BY <1>1, <1>5, <1>10, <2>2 DEF BlocksInv, Running
  <2> QED
    BY <2>1, <2>2
<1>12. Kept
  BY <1>1, <1>5, <1>6, SMTT(30) DEF Kept, BlocksInv
<1> QED
  BY <1>3, <1>6, <1>7, <1>8, <1>9, <1>11, <1>12 DEF BlocksInv

\* Only the active block is written to.
LEMMA BlockWritten ==
  ASSUME BlocksInv, made' = made, blocks' \in [1 .. Len(blocks) -> BlockSet],
         \A n \in DOMAIN blocks : /\ blocks'[n].id = blocks[n].id
                                  /\ n \notin Running => blocks'[n] = blocks[n],
         \/ active' = None
         \/ /\ active' = active
            /\ \A n \in Running : blocks'[n].status \in {"running", "cancelled"}
  PROVE  BlocksInv' /\ Kept
<1>1. blocks' \in Seq(BlockSet) /\ DOMAIN blocks' = DOMAIN blocks
  BY BlocksAre, SeqDef
<1>2. \A n \in DOMAIN blocks' : blocks'[n].id \in 1 .. made'
  BY <1>1 DEF BlocksInv
<1>3. \A m, n \in DOMAIN blocks' : blocks'[m].id = blocks'[n].id => m = n
  BY <1>1 DEF BlocksInv
<1>4. active' \in 1 .. made' \cup {None}
  BY DEF BlocksInv
<1>5. \A n \in Running' : blocks'[n].status \in {"running", "cancelled"}
  <2>1. CASE active' = None
    <3>1. \A n \in DOMAIN blocks' : blocks'[n].id # None
      BY <1>2, BlocksAre, TerminalAssumption
    <3> QED
      BY <2>1, <3>1 DEF Running
  <2>2. CASE /\ active' = active
             /\ \A n \in Running : blocks'[n].status \in {"running", "cancelled"}
    BY <1>1, <2>2 DEF Running
  <2> QED
    BY <2>1, <2>2
<1>6. Kept
  <2> SUFFICES ASSUME NEW m \in DOMAIN blocks, NEW n \in DOMAIN blocks',
                      blocks[m].id = blocks'[n].id, blocks[m].status \in {"success", "failed"}
               PROVE  blocks'[n] = blocks[m]
    BY DEF Kept
  <2>1. m = n
    BY <1>1 DEF BlocksInv
  <2>2. m \notin Running
    BY DEF BlocksInv
  <2> QED
    BY <2>1, <2>2
<1>7. made' \in 0 .. Blocks
  BY DEF BlocksInv
<1> QED
  BY <1>1, <1>2, <1>3, <1>4, <1>5, <1>6, <1>7 DEF BlocksInv

LEMMA StatusWritten ==
  ASSUME BlocksInv, NEW s \in {"running", "success", "failed", "cancelled"}
  PROVE  /\ WithStatus(s) \in [1 .. Len(blocks) -> BlockSet]
         /\ \A n \in DOMAIN blocks : /\ WithStatus(s)[n].id = blocks[n].id
                                     /\ n \notin Running => WithStatus(s)[n] = blocks[n]
                                     /\ n \in Running => WithStatus(s)[n].status = s
<1>1. ASSUME NEW n \in DOMAIN blocks
      PROVE  /\ WithStatus(s)[n] \in BlockSet
             /\ WithStatus(s)[n].id = blocks[n].id
             /\ n \notin Running => WithStatus(s)[n] = blocks[n]
             /\ n \in Running => WithStatus(s)[n].status = s
  BY BlocksAre DEF WithStatus, BlockSet
<1> QED
  BY <1>1, BlocksAre DEF WithStatus

LEMMA OutputBlocks ==
  ASSUME BlocksInv, NEW prompt \in BOOLEAN, NEW hit \in BOOLEAN, appendOutput(prompt, hit)
  PROVE  BlocksInv' /\ Kept
<1>1. CASE Running = {}
  <2>1. /\ made < Blocks /\ made' = made + 1 /\ active' = active
        /\ blocks' = Append(blocks, Block(made', "success", hit))
    BY <1>1 DEF appendOutput, SetBlocks
  <2> QED
    BY <2>1, BlockAdded
<1>2. CASE Running # {}
  <2> DEFINE n == CHOOSE k \in Running : TRUE
             end == IF prompt /\ blocks[n].status # "cancelled" THEN "success"
                    ELSE blocks[n].status
  <2>1. n \in Running /\ n \in DOMAIN blocks /\ blocks[n].id = active
    BY <1>2 DEF Running
  <2>2. /\ blocks' = [blocks EXCEPT ![n] = Block(active, end, @.hit \/ hit)]
        /\ active' = IF prompt THEN None ELSE active
        /\ made' = made
    BY <1>2 DEF appendOutput, SetBlocks
  <2> HIDE DEF n
  <2> DEFINE b == Block(active, end, blocks[n].hit \/ hit)
  <2>3. /\ b \in BlockSet /\ b.id = blocks[n].id
        /\ ~prompt => b.status = blocks[n].status
    BY <2>1, BlocksAre DEF Block, BlockSet
  <2>4. blocks' = [blocks EXCEPT ![n] = b]
    BY <2>2
  <2> HIDE DEF b, end
  <2>5. \A m \in DOMAIN blocks : blocks'[m] = IF m = n THEN b ELSE blocks[m]
    BY <2>4
  <2>6. blocks' \in [1 .. Len(blocks) -> BlockSet]
    BY <2>3, <2>4, BlocksAre
  <2>7. \A m \in Running : m = n
    BY <2>1 DEF Running, BlocksInv
  <2>8. active' = active => \A m \in Running : blocks'[m].status \in {"running", "cancelled"}
    <3>1. CASE prompt
      <4>1. active' = None /\ active \in 1 .. made
        BY <2>1, <2>2, <3>1 DEF BlocksInv
      <4>2. None \notin 1 .. made
        BY BlocksAre, TerminalAssumption
      <4> QED
        BY <4>1, <4>2
    <3>2. CASE ~prompt
      BY <2>1, <2>3, <2>5, <2>7, <3>2 DEF BlocksInv, Running
    <3> QED
      BY <3>1, <3>2
  <2>9. \A m \in DOMAIN blocks : /\ blocks'[m].id = blocks[m].id
                                 /\ m \notin Running => blocks'[m] = blocks[m]
    BY <2>1, <2>3, <2>5
  <2> QED
    BY <2>2, <2>6, <2>8, <2>9, BlockWritten
<1> QED
  BY <1>1, <1>2

\* A sequence without its element at n.
Without(s, n) == SubSeq(s, 1, n - 1) \o SubSeq(s, n + 1, Len(s))

LEMMA WithoutIs ==
  ASSUME NEW S, NEW s \in Seq(S), NEW n \in 1 .. Len(s)
  PROVE  /\ Without(s, n) \in Seq(S) /\ Len(Without(s, n)) = Len(s) - 1
         /\ \A i \in 1 .. Len(s) - 1 : Without(s, n)[i] = s[IF i < n THEN i ELSE i + 1]
<1> DEFINE left == SubSeq(s, 1, n - 1)  right == SubSeq(s, n + 1, Len(s))
<1>1. Len(s) \in Nat /\ n \in Int /\ 1 <= n /\ n <= Len(s)
  BY LenProperties
<1>2. \A i \in 1 .. Len(s) : s[i] \in S
  BY ElementOfSeq
<1>3. /\ left \in Seq(S) /\ Len(left) = n - 1
      /\ \A i \in 1 .. n - 1 : left[i] = s[i]
  <2>1. \A i \in 1 .. n - 1 : s[i] \in S
    BY <1>1, <1>2
  <2>2. 1 \in Int /\ n - 1 \in Int
    BY <1>1
  <2>3. /\ left \in Seq(S) /\ Len(left) = IF 1 <= n - 1 THEN (n - 1) - 1 + 1 ELSE 0
        /\ \A i \in 1 .. (n - 1) - 1 + 1 : left[i] = s[1 + i - 1]
    BY <2>1, <2>2, SubSeqProperties
  <2> HIDE DEF left
  <2> QED
    BY <1>1, <2>3
<1>4. /\ right \in Seq(S) /\ Len(right) = Len(s) - n
      /\ \A i \in 1 .. Len(s) - n : right[i] = s[n + i]
  <2>1. \A i \in n + 1 .. Len(s) : s[i] \in S
    BY <1>1, <1>2
  <2>2. n + 1 \in Int /\ Len(s) \in Int
    BY <1>1
  <2>3. /\ right \in Seq(S)
        /\ Len(right) = IF n + 1 <= Len(s) THEN Len(s) - (n + 1) + 1 ELSE 0
        /\ \A i \in 1 .. Len(s) - (n + 1) + 1 : right[i] = s[(n + 1) + i - 1]
    BY <2>1, <2>2, SubSeqProperties
  <2> HIDE DEF right
  <2>4. ASSUME NEW i \in 1 .. Len(s) - n
        PROVE  i \in 1 .. Len(s) - (n + 1) + 1 /\ (n + 1) + i - 1 = n + i
    BY <1>1
  <2>5. \A i \in 1 .. Len(s) - n : right[i] = s[n + i]
    BY <2>3, <2>4
  <2>6. Len(right) = Len(s) - n
    BY <1>1, <2>3
  <2> QED
    BY <2>3, <2>5, <2>6
<1> DEFINE rest == left \o right
<1>5. Without(s, n) = rest
  BY DEF Without
<1> HIDE DEF left, right
<1>6. /\ rest \in Seq(S) /\ Len(rest) = Len(left) + Len(right)
      /\ \A i \in 1 .. Len(left) + Len(right) :
           rest[i] = IF i <= Len(left) THEN left[i] ELSE right[i - Len(left)]
  BY <1>3, <1>4, ConcatProperties
<1> HIDE DEF rest
<1>7. Len(left) + Len(right) = Len(s) - 1
  BY <1>1, <1>3, <1>4
<1>8. ASSUME NEW i \in 1 .. Len(s) - 1
      PROVE  rest[i] = s[IF i < n THEN i ELSE i + 1]
  <2>1. CASE i < n
    <3>1. i \in 1 .. n - 1 /\ i <= n - 1
      BY <1>1, <2>1
    <3> QED
      BY <1>3, <1>6, <1>7, <2>1, <3>1
  <2>2. CASE ~(i < n)
    <3>1. ~(i <= n - 1) /\ i - (n - 1) \in 1 .. Len(s) - n /\ n + (i - (n - 1)) = i + 1
      BY <1>1, <2>2
    <3>2. rest[i] = right[i - (n - 1)]
      BY <1>3, <1>6, <1>7, <3>1
    <3>3. right[i - (n - 1)] = s[i + 1]
      BY <1>4, <3>1
    <3> QED
      BY <2>2, <3>2, <3>3
  <2> QED
    BY <2>1, <2>2
<1> QED
  BY <1>5, <1>6, <1>7, <1>8

LEMMA BlockRemoved ==
  ASSUME BlocksInv, NEW n \in DOMAIN blocks, made' = made, active' = active,
         blocks' = Without(blocks, n)
  PROVE  BlocksInv' /\ Kept
<1> DEFINE from(i) == IF i < n THEN i ELSE i + 1
<1>1. /\ Len(blocks) \in Nat /\ DOMAIN blocks = 1 .. Len(blocks)
      /\ n \in 1 .. Len(blocks) /\ blocks \in Seq(BlockSet)
  BY BlocksAre DEF BlocksInv
<1>2. /\ blocks' \in Seq(BlockSet) /\ Len(blocks') = Len(blocks) - 1
      /\ \A i \in 1 .. Len(blocks) - 1 : blocks'[i] = blocks[from(i)]
  BY <1>1, WithoutIs
<1>3. DOMAIN blocks' = 1 .. Len(blocks) - 1
  BY <1>2, LenProperties
<1>4. ASSUME NEW i \in DOMAIN blocks'
      PROVE  from(i) \in DOMAIN blocks
  BY <1>1, <1>3
<1>5. ASSUME NEW i \in DOMAIN blocks', NEW j \in DOMAIN blocks', from(i) = from(j)
      PROVE  i = j
  BY <1>1, <1>3, <1>5
<1> HIDE DEF from
<1>6. \A i \in DOMAIN blocks' : from(i) \in DOMAIN blocks /\ blocks'[i] = blocks[from(i)]
  BY <1>2, <1>3, <1>4
<1>7. \A i \in DOMAIN blocks' : blocks'[i].id \in 1 .. made'
  BY <1>6 DEF BlocksInv
<1>8. ASSUME NEW i \in DOMAIN blocks', NEW j \in DOMAIN blocks', blocks'[i].id = blocks'[j].id
      PROVE  i = j
  <2>1. /\ from(i) \in DOMAIN blocks /\ from(j) \in DOMAIN blocks
        /\ blocks[from(i)].id = blocks[from(j)].id
    BY <1>6, <1>8
  <2>2. from(i) = from(j)
    BY <2>1 DEF BlocksInv
  <2> QED
    BY <1>5, <2>2
<1>9. ASSUME NEW i \in DOMAIN blocks', blocks'[i].id = active'
      PROVE  blocks'[i].status \in {"running", "cancelled"}
  <2>1. from(i) \in Running
    BY <1>6, <1>9 DEF Running
  <2> QED
    BY <1>6, <2>1 DEF BlocksInv
<1>10. Kept
  <2> SUFFICES ASSUME NEW m \in DOMAIN blocks, NEW i \in DOMAIN blocks',
                      blocks[m].id = blocks'[i].id
               PROVE  blocks'[i] = blocks[m]
    BY DEF Kept
  <2>1. from(i) \in DOMAIN blocks /\ blocks[from(i)].id = blocks[m].id
    BY <1>6
  <2>2. from(i) = m
    BY <2>1 DEF BlocksInv
  <2> QED
    BY <1>6, <2>2
<1>11. \A i \in Running' : blocks'[i].status \in {"running", "cancelled"}
  BY <1>9 DEF Running
<1> QED
  BY <1>2, <1>7, <1>8, <1>10, <1>11 DEF BlocksInv

LEMMA BlocksKept ==
  ASSUME BlocksInv, UNCHANGED <<blocks, active, made>>
  PROVE  BlocksInv' /\ Kept
<1>1. BlocksInv'
  BY DEF BlocksInv, Running
<1>2. Kept
  BY DEF Kept, BlocksInv
<1> QED
  BY <1>1, <1>2

LEMMA BlocksStep ==
  ASSUME BlocksInv, TermNext
  PROVE  BlocksInv' /\ Kept
<1>1. CASE \/ handleInputChange \/ Complete \/ Arrows \/ Escape \/ SwitchView \/ Pick
           \/ OpenOrLeaveDialog \/ toggleRecording \/ Browse \/ OpenOrCloseSearch
           \/ handleSearchChange \/ ClosePanel
           \/ (\E b \in sends : Sent(b)) \/ (\E c \in Conns : Restart(c))
           \/ \E r \in DOMAIN runs : CreateShell(r) \/ EnterShell(r) \/ StartFails(r)
                                       \/ Ready(r) \/ closeShellSession(r)
  <2>1. UNCHANGED <<blocks, active, made>>
    BY <1>1 DEF handleInputChange, Complete, Arrows, Escape, SwitchView, Pick,
       OpenOrLeaveDialog, toggleRecording, Browse, OpenOrCloseSearch, handleSearchChange,
       ClosePanel, Sent, Restart, CreateShell, EnterShell, StartFails, Ready, StartGoes,
       closeShellSession, blockVars
  <2> QED
    BY <2>1, BlocksKept
<1>2. CASE submitStructuredCommand \/ handleClassicCommand
  <2>1. /\ made < Blocks /\ made' = made + 1 /\ active' = made'
        /\ blocks' = Append(blocks, Block(made', "running", FALSE))
    BY <1>2 DEF submitStructuredCommand, handleClassicCommand, registerCommand, SetBlocks
  <2> QED
    BY <2>1, BlockAdded
<1>3. CASE \E b \in sends : SendFails(b)
  <2>1. blocks' = WithStatus("failed") /\ active' = None /\ made' = made
    BY <1>3 DEF SendFails, SetBlocks
  <2> QED
    BY <2>1, BlockWritten, StatusWritten
<1>4. CASE cancelCommand
  <2>1. blocks' = WithStatus("cancelled") /\ active' = active /\ made' = made
    BY <1>4 DEF cancelCommand, SetBlocks
  <2>2. \A n \in Running : n \in DOMAIN blocks
    BY DEF Running
  <2>3. /\ blocks' \in [1 .. Len(blocks) -> BlockSet]
        /\ \A n \in DOMAIN blocks : /\ blocks'[n].id = blocks[n].id
                                    /\ n \notin Running => blocks'[n] = blocks[n]
                                    /\ n \in Running => blocks'[n].status = "cancelled"
    BY <2>1, StatusWritten
  <2>4. \A n \in Running : blocks'[n].status \in {"running", "cancelled"}
    BY <2>2, <2>3
  <2> QED
    BY <2>1, <2>3, <2>4, BlockWritten
<1>5. CASE \E n \in DOMAIN blocks : removeBlock(n)
  <2>1. PICK n \in DOMAIN blocks : removeBlock(n)
    BY <1>5
  <2>2. blocks' = Without(blocks, n) /\ active' = active /\ made' = made
    BY <2>1 DEF removeBlock, SetBlocks, Without
  <2> QED
    BY <2>2, BlockRemoved
<1>6. CASE handleClear
  <2>1. blocks' = <<>> /\ active' = None /\ made' = made
    BY <1>6 DEF handleClear
  <2>2. blocks' \in Seq(BlockSet) /\ DOMAIN blocks' = {}
    BY <2>1, EmptySeq
  <2> QED
    BY <2>1, <2>2 DEF BlocksInv, Running, Kept
<1>7. CASE TerminalOutput
  <2>1. PICK prompt \in BOOLEAN, hit \in BOOLEAN : appendOutput(prompt, hit)
    BY <1>7 DEF TerminalOutput
  <2> QED
    BY <2>1, OutputBlocks
<1> QED
  BY <1>1, <1>2, <1>3, <1>4, <1>5, <1>6, <1>7 DEF TermNext

-----------------------------------------------------------------------------
(* Cursors                                                                 *)

LEMMA ResultsCounted ==
  ASSUME NEW bs \in Seq(BlockSet), NEW asked
  PROVE  /\ Cardinality(Results(bs, asked)) \in Nat
         /\ Results(bs, asked) # {} => Cardinality(Results(bs, asked)) >= 1
<1>1. IsFiniteSet(DOMAIN bs)
  BY LenProperties, FS_Interval
<1>2. Results(bs, asked) \in SUBSET DOMAIN bs
  BY DEF Results
<1>3. IsFiniteSet(Results(bs, asked))
  BY <1>1, <1>2, FS_Subset
<1>4. Cardinality(Results(bs, asked)) \in Nat
  BY <1>3, FS_CardinalityType
<1>5. Cardinality(Results(bs, asked)) = 0 <=> Results(bs, asked) = {}
  BY <1>3, FS_EmptySet
<1> QED
  BY <1>4, <1>5

\* The effect puts the index back where it may be out of range.
LEMMA Reindexed ==
  ASSUME FindInv, BlocksInv, NEW bs \in Seq(BlockSet), NEW f \in FindSet,
         f.index = find.index
  PROVE  /\ Reindex(bs, f) \in FindSet
         /\ Reindex(bs, f).index \in -1 .. Cardinality(Results(bs, Reindex(bs, f).query)) - 1
<1> DEFINE g == [f EXCEPT !.index = IF Results(bs, f.query) # {} THEN 0 ELSE -1]
<1>1. g \in FindSet /\ g.query = f.query
      /\ g.index = IF Results(bs, f.query) # {} THEN 0 ELSE -1
  BY DEF FindSet
<1>2. Reindex(bs, f) \in {f, g}
  BY DEF Reindex
<1> HIDE DEF g
<1>3. CASE Reindex(bs, f) = g
  <2>1. g.index \in -1 .. Cardinality(Results(bs, g.query)) - 1
    BY <1>1, ResultsCounted
  <2> QED
    BY <1>1, <1>3, <2>1
<1>4. CASE Reindex(bs, f) # g
  <2>1. /\ Cardinality(Results(bs, f.query)) = Cardinality(Results(blocks, find.query))
        /\ Reindex(bs, f) = f
    BY <1>2, <1>4 DEF Reindex, g
  <2> QED
    BY <2>1 DEF FindInv
<1> QED
  BY <1>3, <1>4

LEMMA FindStep ==
  ASSUME BlocksInv, BlocksInv', FindInv, TermNext
  PROVE  FindInv'
<1>0. blocks' \in Seq(BlockSet) /\ blocks \in Seq(BlockSet) /\ find \in FindSet
  BY DEF BlocksInv, FindInv
<1>1. ASSUME find' = Reindex(blocks', find)
      PROVE  FindInv'
  <2>1. /\ Reindex(blocks', find) \in FindSet
        /\ Reindex(blocks', find).index
             \in -1 .. Cardinality(Results(blocks', Reindex(blocks', find).query)) - 1
    BY <1>0, Reindexed
  <2> QED
    BY <1>1, <2>1 DEF FindInv
<1>2. CASE \/ handleInputChange \/ Complete \/ Arrows \/ SwitchView \/ Pick
           \/ OpenOrLeaveDialog \/ toggleRecording \/ ClosePanel
           \/ (\E b \in sends : Sent(b)) \/ (\E c \in Conns : Restart(c))
           \/ \E r \in DOMAIN runs : CreateShell(r) \/ EnterShell(r) \/ StartFails(r)
                                       \/ Ready(r) \/ closeShellSession(r)
  <2>1. UNCHANGED <<blocks, find>>
    BY <1>2 DEF handleInputChange, Complete, Arrows, SwitchView, Pick,
       OpenOrLeaveDialog, toggleRecording, ClosePanel, Sent, Restart, CreateShell,
       EnterShell, StartFails, Ready, StartGoes, closeShellSession, blockVars
  <2> QED
    BY <2>1 DEF FindInv
<1>3. CASE \/ submitStructuredCommand \/ handleClassicCommand \/ cancelCommand
           \/ (\E b \in sends : SendFails(b)) \/ (\E n \in DOMAIN blocks : removeBlock(n))
  <2>1. find' = Reindex(blocks', find)
    BY <1>3 DEF submitStructuredCommand, handleClassicCommand, registerCommand,
       cancelCommand, SendFails, removeBlock, SetBlocks
  <2> QED
    BY <1>1, <2>1
<1>4. CASE TerminalOutput
  <2>1. find' = Reindex(blocks', find)
    BY <1>4 DEF TerminalOutput, appendOutput, SetBlocks
  <2> QED
    BY <1>1, <2>1
<1>5. ASSUME blocks' = blocks, NEW f \in FindSet, f.index = find.index,
             find' = Reindex(blocks, f)
      PROVE  FindInv'
  <2>1. /\ Reindex(blocks, f) \in FindSet
        /\ Reindex(blocks, f).index
             \in -1 .. Cardinality(Results(blocks, Reindex(blocks, f).query)) - 1
    BY <1>0, <1>5, Reindexed
  <2> QED
    BY <1>5, <2>1 DEF FindInv
<1>6. CASE handleSearchChange
  <2> DEFINE f == [find EXCEPT !.query = ~@]
  <2>1. f \in FindSet /\ f.index = find.index
    BY <1>0 DEF FindSet
  <2>2. find' = Reindex(blocks, f) /\ blocks' = blocks
    BY <1>6 DEF handleSearchChange
  <2> HIDE DEF f
  <2> QED
    BY <1>5, <2>1, <2>2
<1>7. ASSUME blocks' = blocks, find' = [find EXCEPT !.visible = FALSE]
      PROVE  FindInv'
  BY <1>7 DEF FindInv, FindSet
<1>8. CASE Escape
  BY <1>7, <1>8 DEF Escape
<1>9. CASE OpenOrCloseSearch
  <2>1. blocks' = blocks
    BY <1>9 DEF OpenOrCloseSearch
  <2>2. CASE find' = [find EXCEPT !.visible = FALSE]
    BY <1>7, <2>1, <2>2
  <2>3. CASE find' = Reindex(blocks, [find EXCEPT !.visible = TRUE, !.query = @ \/ command])
    <3> DEFINE f == [find EXCEPT !.visible = TRUE, !.query = @ \/ command]
    <3>1. f \in FindSet /\ f.index = find.index
      BY <1>0 DEF FindSet
    <3>2. find' = Reindex(blocks, f)
      BY <2>3
    <3> HIDE DEF f
    <3> QED
      BY <1>5, <2>1, <3>1, <3>2
  <2> QED
    BY <1>9, <2>2, <2>3 DEF OpenOrCloseSearch
<1>10. CASE Browse
  <2> DEFINE count == Cardinality(Results(blocks, find.query))
  <2>1. count \in Nat /\ blocks' = blocks /\ count > 0 /\ find.index \in Int
    BY <1>0, <1>10, ResultsCounted DEF Browse, FindSet
  <2>2. \/ find' = [find EXCEPT !.index = (@ + 1) % count]
        \/ find' = [find EXCEPT !.index = (@ - 1 + count) % count]
    BY <1>10 DEF Browse
  <2>3. PICK i \in Int : find' = [find EXCEPT !.index = i % count]
    <3>1. find.index + 1 \in Int /\ find.index - 1 + count \in Int
      BY <2>1
    <3> QED
      BY <2>2, <3>1
  <2>4. i % count \in 0 .. count - 1
    BY <2>1
  <2>5. find'.index = i % count /\ find'.query = find.query /\ find' \in FindSet
    BY <1>0, <2>3, <2>4 DEF FindSet
  <2>6. Cardinality(Results(blocks', find'.query)) = count
    BY <2>1, <2>5
  <2> HIDE DEF count
  <2> QED
    BY <2>1, <2>4, <2>5, <2>6 DEF FindInv
<1>11. CASE handleClear
  <2>1. find' = [visible |-> FALSE, query |-> FALSE, index |-> -1]
    BY <1>11 DEF handleClear
  <2>2. find' \in FindSet /\ find'.index = -1
    BY <2>1 DEF FindSet
  <2> QED
    BY <1>0, <2>2, ResultsCounted DEF FindInv
<1> QED
  BY <1>2, <1>3, <1>4, <1>6, <1>8, <1>9, <1>10, <1>11 DEF TermNext

LEMMA LineStep ==
  ASSUME LineInv, TermNext
  PROVE  LineInv'
<1> DEFINE PopupSet == [count : Nat, index : Nat, visible : BOOLEAN]
<1>0. NoPopup \in PopupSet /\ ~NoPopup.visible
  BY DEF NoPopup
<1>a. ASSUME cursor' = -1, history' \in Nat, command' \in BOOLEAN,
             popup' \in PopupSet, popup'.visible => popup'.index < popup'.count
      PROVE  LineInv'
  <2>1. \A h \in Nat : -1 \in -1 .. h - 1
    OBVIOUS
  <2>2. cursor' \in -1 .. history' - 1
    BY <1>a, <2>1
  <2> QED
    BY <1>a, <2>2 DEF LineInv
<1>b. popup \in PopupSet /\ (popup.visible => popup.index < popup.count) /\ history \in Nat
  BY DEF LineInv
<1>1. CASE handleInputChange
  BY <1>1 DEF handleInputChange, LineInv
<1>2. CASE Complete
  <2>1. UNCHANGED <<history, cursor>>
    BY <1>2 DEF Complete
  <2>2. command' \in BOOLEAN
    BY <1>2 DEF Complete, LineInv
  <2>3. popup' \in PopupSet /\ (popup'.visible => popup'.index < popup'.count)
    <3>1. CASE popup' = NoPopup
      BY <1>0, <3>1
    <3>2. ASSUME NEW n \in 0 .. Offered,
                 popup' = IF n < 2 THEN NoPopup
                          ELSE [count |-> n, index |-> 0, visible |-> TRUE]
          PROVE  popup' \in PopupSet /\ (popup'.visible => popup'.index < popup'.count)
      BY <1>0, <3>2, TerminalAssumption
    <3> QED
      BY <1>2, <3>1, <3>2, TerminalAssumption DEF Complete
  <2> QED
    BY <2>1, <2>2, <2>3 DEF LineInv
<1>3. CASE Arrows
  <2>1. CASE UNCHANGED popup
    <3>1. history' = history /\ command' \in BOOLEAN /\ cursor \in -1 .. history - 1
      BY <1>3 DEF Arrows, LineInv
    <3>2. CASE cursor' = cursor
      BY <2>1, <3>1, <3>2, <1>b DEF LineInv
    <3>3. CASE history > 0 /\ cursor' = IF cursor = -1 THEN history - 1
                                       ELSE IF cursor > 0 THEN cursor - 1 ELSE 0
      <4>1. cursor' \in -1 .. history - 1
        BY <1>b, <3>1, <3>3
      <4> QED
        BY <1>b, <2>1, <3>1, <4>1 DEF LineInv
    <3>4. CASE cursor' = IF cursor < history - 1 THEN cursor + 1 ELSE -1
      <4>1. cursor' \in -1 .. history - 1
        BY <1>b, <3>1, <3>4
      <4> QED
        BY <1>b, <2>1, <3>1, <4>1 DEF LineInv
    <3> QED
      BY <1>3, <3>2, <3>3, <3>4 DEF Arrows
  <2>2. CASE popup' # popup
    <3>1. popup.visible /\ UNCHANGED <<command, cursor, history>>
      BY <1>3, <2>2 DEF Arrows
    <3>2. popup.count \in Nat /\ popup.index \in Nat /\ popup.count > 0
      BY <3>1 DEF LineInv
    <3>3. \E i \in Int : popup' = [popup EXCEPT !.index = i % popup.count]
      <4>1. popup.index + 1 \in Int /\ popup.index - 1 + popup.count \in Int
        BY <3>2
      <4>2. \/ popup' = [popup EXCEPT !.index = (@ - 1 + popup.count) % popup.count]
            \/ popup' = [popup EXCEPT !.index = (@ + 1) % popup.count]
        BY <1>3, <2>2 DEF Arrows
      <4> QED
        BY <4>1, <4>2
    <3>4. PICK i \in Int : popup' = [popup EXCEPT !.index = i % popup.count]
      BY <3>3
    <3>5. i % popup.count \in 0 .. popup.count - 1
      BY <3>2
    <3> QED
      BY <3>1, <3>2, <3>4, <3>5 DEF LineInv
  <2> QED
    BY <2>1, <2>2
<1>4. CASE Escape
  BY <1>0, <1>4 DEF Escape, LineInv
<1>5. CASE submitStructuredCommand \/ handleClassicCommand
  <2>1. history' = history + 1 /\ cursor' = -1 /\ UNCHANGED popup /\ command' \in BOOLEAN
    BY <1>5 DEF submitStructuredCommand, handleClassicCommand, registerCommand, LineInv
  <2> QED
    BY <2>1 DEF LineInv
<1>6. CASE \E b \in sends : Sent(b)
  <2>1. cursor' = -1 /\ history' = history /\ command' = FALSE /\ popup' = NoPopup
    BY <1>6 DEF Sent
  <2> QED
    BY <1>0, <1>a, <1>b, <2>1
<1>7. CASE cancelCommand
  <2>1. cursor' = -1 /\ history' = history /\ command' = FALSE /\ popup' = popup
    BY <1>7 DEF cancelCommand
  <2> QED
    BY <1>a, <1>b, <2>1
<1>8. CASE Pick
  BY <1>8 DEF Pick, LineInv
<1>9. CASE handleClear
  <2>1. cursor' = -1 /\ history' = history /\ command' = FALSE /\ popup' = NoPopup
    BY <1>9 DEF handleClear
  <2> QED
    BY <1>0, <1>a, <1>b, <2>1
<1>10. CASE \/ SwitchView \/ OpenOrLeaveDialog \/ toggleRecording \/ Browse
            \/ OpenOrCloseSearch \/ handleSearchChange \/ ClosePanel \/ TerminalOutput
            \/ (\E n \in DOMAIN blocks : removeBlock(n)) \/ (\E b \in sends : SendFails(b))
            \/ (\E c \in Conns : Restart(c))
            \/ \E r \in DOMAIN runs : CreateShell(r) \/ EnterShell(r) \/ StartFails(r)
                                       \/ Ready(r) \/ closeShellSession(r)
  <2>1. UNCHANGED <<command, history, cursor, popup>>
    BY <1>10 DEF SwitchView, OpenOrLeaveDialog, toggleRecording, Browse,
       OpenOrCloseSearch, handleSearchChange, ClosePanel, TerminalOutput, removeBlock,
       SendFails, Restart, CreateShell, EnterShell, StartFails, Ready, StartGoes,
       closeShellSession, inputVars
  <2> QED
    BY <2>1 DEF LineInv
<1> QED
  BY <1>1, <1>2, <1>3, <1>4, <1>5, <1>6, <1>7, <1>8, <1>9, <1>10 DEF TermNext

-----------------------------------------------------------------------------
(* The panel                                                               *)

LEMMA MountStep ==
  ASSUME MountInv, TermNext
  PROVE  MountInv'
<1>1. CASE \/ handleInputChange \/ Complete \/ Arrows \/ Escape \/ submitStructuredCommand
           \/ cancelCommand \/ handleClassicCommand \/ SwitchView \/ Pick
           \/ OpenOrLeaveDialog \/ handleClear \/ toggleRecording \/ Browse
           \/ OpenOrCloseSearch \/ handleSearchChange \/ TerminalOutput
           \/ (\E n \in DOMAIN blocks : removeBlock(n))
           \/ \E b \in sends : Sent(b) \/ SendFails(b)
  <2>1. UNCHANGED <<connID, runs, records>>
    BY <1>1 DEF handleInputChange, Complete, Arrows, Escape, submitStructuredCommand,
       cancelCommand, handleClassicCommand, SwitchView, Pick, OpenOrLeaveDialog, handleClear,
       toggleRecording, Browse, OpenOrCloseSearch, handleSearchChange, TerminalOutput,
       removeBlock, Sent, SendFails, runVars
  <2> QED
    BY <2>1, MountKept
<1> QED
  BY <1>1, RestartMounts, CloseMounts, ShellMounts, ShellCloses DEF TermNext

LEMMA TermInvAtFirst == TermInit => TermInv
<1> SUFFICES ASSUME TermInit PROVE TermInv
  OBVIOUS
<1>1. NewRun(connID) \in RunSet /\ NewRun(connID).conn = connID
  BY DEF TermInit, NewRun, RunSet
<1>2. runs = <<NewRun(connID)>> /\ blocks = <<>> /\ made = 0 /\ active = None
  BY DEF TermInit
<1>3. runs \in Seq(RunSet) /\ DOMAIN runs = {1} /\ runs[1] = NewRun(connID)
  BY <1>1, <1>2
<1>4. blocks \in Seq(BlockSet) /\ DOMAIN blocks = {}
  BY <1>2, EmptySeq
<1>5. MountInv
  <2>1. \A c \in Conns : records[c] # "ready"
    BY TerminalAssumption DEF TermInit
  <2> QED
    BY <1>1, <1>3, <2>1 DEF TermInit, MountInv, ReadyIsMounted, Live
<1>6. BlocksInv
  BY <1>2, <1>4, TerminalAssumption DEF BlocksInv, Running
<1>7. LineInv
  <2>1. cursor = -1 /\ history = 0 /\ command = FALSE /\ popup = NoPopup
    BY DEF TermInit
  <2>2. -1 \in -1 .. 0 - 1
    OBVIOUS
  <2> QED
    BY <2>1, <2>2 DEF LineInv, NoPopup
<1>8. FindInv
  <2>1. find \in FindSet /\ find.index = -1
    BY DEF TermInit, FindSet
  <2>2. Cardinality(Results(blocks, find.query)) \in Nat
    BY <1>4, <2>1, ResultsCounted DEF FindSet
  <2>3. -1 \in -1 .. Cardinality(Results(blocks, find.query)) - 1
    BY <2>2
  <2> QED
    BY <2>1, <2>3 DEF FindInv
<1> QED
  BY <1>5, <1>6, <1>7, <1>8 DEF TermInv

LEMMA TermInvStep == TermInv /\ [TermNext]_termVars => TermInv' /\ [Kept]_termVars
<1> SUFFICES ASSUME TermInv, [TermNext]_termVars PROVE TermInv' /\ [Kept]_termVars
  OBVIOUS
<1>1. CASE TermNext
  BY <1>1, MountStep, BlocksStep, LineStep, FindStep DEF TermInv
<1>2. CASE UNCHANGED termVars
  <2>1. UNCHANGED <<connID, runs, records, blocks, active, made, command, history, cursor,
                    popup, find>>
    BY <1>2 DEF termVars, inputVars, blockVars, runVars
  <2>2. LineInv' /\ FindInv'
    BY <2>1 DEF TermInv, LineInv, FindInv
  <2> QED
    BY <1>2, <2>1, <2>2, MountKept, BlocksKept DEF TermInv
<1> QED
  BY <1>1, <1>2

LEMMA TermInvAlways == TermSpec => []TermInv
BY TermInvAtFirst, TermInvStep, PTL DEF TermSpec

\* What the store calls ready is mounted: the cleanup of a run takes its record away, and
\* a start that is answered later makes none.
THEOREM MountedIfReady == TermSpec => []ReadyIsMounted
<1>1. TermInv => ReadyIsMounted
  BY DEF TermInv, MountInv
<1> QED
  BY <1>1, TermInvAlways, PTL

\* The cursors stay within the lists that change behind them.
THEOREM CursorsHaveBounds == TermSpec => []CursorsInBounds
<1>1. TermInv => CursorsInBounds
  BY DEF TermInv, LineInv, FindInv, CursorsInBounds
<1> QED
  BY <1>1, TermInvAlways, PTL

\* A block that has ended is never written to again.
THEOREM EndedIsKept == TermSpec => EndedBlocksKept
<1>1. TermSpec => [][Kept]_termVars
  BY TermInvAtFirst, TermInvStep, PTL DEF TermSpec
<1> QED
  BY <1>1 DEF EndedBlocksKept, Kept

-----------------------------------------------------------------------------
(* Jobs                                                                    *)

JobFields == {"kind", "from", "conn", "dir", "path", "todo", "answer"}

\* A job to load a directory has the paths that are in it, once it is answered; the only
\* job with a question is one that deletes.
JobOK(job) ==
  /\ DOMAIN job = JobFields
  /\ job.dir \in Folders
  /\ job.kind = "load" => job.path \in Folders /\ \A p \in job.todo : Front(p) = job.path
  /\ job.kind # "load" => job.from = None
  /\ job.answer = "confirm" => job.kind = "delete"

JobsOK == DOMAIN jobs = Jobs /\ cwd \in Folders /\ \A j \in Jobs : JobOK(jobs[j])

\* A step is of one job.
JobStep(j, job) ==
  /\ DOMAIN jobs' = Jobs
  /\ \A k \in Jobs \ {j} : jobs'[k] = jobs[k]
  /\ jobs'[j] = job

LEMMA NoJobOK == JobOK(NoJob) /\ NoJob.kind = None /\ NoJob.from = None
BY FilesAssumption DEF JobOK, JobFields, NoJob

LEMMA Ends ==
  ASSUME JobsOK, NEW j \in Jobs, End(j)
  PROVE  JobStep(j, NoJob)
BY DEF JobsOK, JobStep, End

\* A job begins, from nothing, in the directory shown.
LEMMA Starts ==
  ASSUME JobsOK, NEW j \in Jobs, NEW kind, NEW p, NEW todo, Start(j, kind, p, todo),
         kind = "load" => p \in Folders /\ todo = {}
  PROVE  /\ jobs[j] = NoJob
         /\ JobStep(j, jobs'[j])
         /\ JobOK(jobs'[j]) /\ jobs'[j].kind = kind
BY NoJobOK, FilesAssumption DEF JobsOK, JobStep, JobOK, JobFields, Start, NoJob

LEMMA Loads ==
  ASSUME JobsOK, NEW j \in Jobs, NEW p \in Folders, Load(j, p)
  PROVE  /\ JobStep(j, jobs'[j])
         /\ JobOK(jobs'[j])
         /\ jobs'[j].kind = "load" /\ jobs'[j].from = jobs[j].kind
BY FilesAssumption DEF JobsOK, JobStep, JobOK, JobFields, Load

-----------------------------------------------------------------------------
(* What each handler does to its job                                       *)

LEMMA LoadBegins ==
  ASSUME JobsOK, NEW j \in Jobs, loadDirectory(j)
  PROVE  jobs[j] = NoJob /\ JobStep(j, jobs'[j]) /\ JobOK(jobs'[j]) /\ jobs'[j].kind = "load"
<1>1. PICK p \in Folders : Start(j, "load", p, {})
  BY DEF loadDirectory
<1> QED
  BY <1>1, Starts

LEMMA TabLoads ==
  ASSUME JobsOK, NEW j \in Jobs, NEW c \in Conns, ChangeTab(j, c)
  PROVE  jobs[j] = NoJob /\ JobStep(j, jobs'[j]) /\ JobOK(jobs'[j]) /\ jobs'[j].kind = "load"
BY NoJobOK, FilesAssumption DEF ChangeTab, JobsOK, JobStep, JobOK, JobFields, NoJob

LEMMA DeleteAsks ==
  ASSUME JobsOK, NEW j \in Jobs, handleDelete(j)
  PROVE  jobs[j] = NoJob /\ JobStep(j, jobs'[j]) /\ JobOK(jobs'[j]) /\ jobs'[j].kind = "delete"
<1>1. PICK ps : jobs' = [jobs EXCEPT ![j] = [NoJob EXCEPT !.kind = "delete", !.conn = connID,
                           !.dir = cwd, !.todo = ps, !.answer = "confirm"]]
  BY DEF handleDelete
<1> QED
  BY <1>1, NoJobOK DEF handleDelete, JobsOK, JobStep, JobOK, JobFields, NoJob

LEMMA DownloadBegins ==
  ASSUME JobsOK, NEW j \in Jobs, handleDownload(j)
  PROVE  /\ jobs[j] = NoJob /\ JobStep(j, jobs'[j]) /\ JobOK(jobs'[j])
         /\ jobs'[j].kind \in {"download", "archive"}
<1> DEFINE One(ps) == \E p \in Plain : ps = {p}
           kind(ps) == IF One(ps) THEN "download" ELSE "archive"
           scope(ps) == IF One(ps) THEN CHOOSE p \in ps : TRUE ELSE <<makeArchiveName(ps, cwd)>>
<1>1. PICK ps : Start(j, kind(ps), scope(ps), ps)
  BY DEF handleDownload
<1>2. kind(ps) \in {"download", "archive"}
  OBVIOUS
<1> QED
  BY <1>1, <1>2, Starts

\* The answer to a call; a listing has what is in the directory.
LEMMA Serves ==
  ASSUME JobsOK, NEW j \in Jobs, Serve(j)
  PROVE  /\ JobStep(j, jobs'[j]) /\ JobOK(jobs'[j])
         /\ jobs'[j].kind = jobs[j].kind /\ jobs'[j].from = jobs[j].from
<1>1. CASE jobs' = [jobs EXCEPT ![j].answer = "failed"]
  BY <1>1 DEF JobsOK, JobStep, JobOK, JobFields
<1>2. CASE \E T : jobs' = [jobs EXCEPT ![j].answer = "ok",
                      ![j].todo = IF jobs[j].kind # "load" THEN @
                        ELSE {p \in T : Front(p) = jobs[j].path}]
  BY <1>2 DEF JobsOK, JobStep, JobOK, JobFields
<1> QED
  BY <1>1, <1>2 DEF Serve

LEMMA QuestionAnswered ==
  ASSUME JobsOK, NEW j \in Jobs, Confirm(j)
  PROVE  /\ JobStep(j, jobs'[j]) /\ JobOK(jobs'[j])
         /\ jobs[j].kind = "delete" /\ jobs[j].from = None /\ jobs'[j].from = None
         /\ jobs'[j].kind \in {"delete", None}
<1>1. jobs[j].kind = "delete" /\ jobs[j].from = None
  BY DEF JobsOK, JobOK, Confirm
<1>2. CASE End(j)
  BY <1>1, <1>2, Ends, NoJobOK DEF JobStep
<1>3. CASE jobs' = [jobs EXCEPT ![j].answer = None]
  BY <1>1, <1>3, FilesAssumption DEF JobsOK, JobStep, JobOK, JobFields
<1> QED
  BY <1>2, <1>3 DEF Confirm

LEMMA DownloadGoesOn ==
  ASSUME JobsOK, NEW j \in Jobs, Downloaded(j)
  PROVE  /\ JobStep(j, jobs'[j]) /\ JobOK(jobs'[j])
         /\ jobs[j].kind \in {"download", "archive", "fetch", "sweep"}
         /\ jobs[j].from = None /\ jobs'[j].from = None
<1>1. jobs[j].kind \in {"download", "archive", "fetch", "sweep"} /\ jobs[j].from = None
  BY DEF Downloaded, Answered, JobsOK, JobOK
<1>2. CASE End(j)
  BY <1>1, <1>2, Ends, NoJobOK DEF JobStep
<1>3. CASE \E kind \in {"fetch", "sweep"} :
             jobs' = [jobs EXCEPT ![j].kind = kind, ![j].answer = None]
  BY <1>1, <1>3, FilesAssumption DEF JobsOK, JobStep, JobOK, JobFields
<1> QED
  BY <1>2, <1>3 DEF Downloaded, Step

\* A change that went well goes on to load, one that failed ends.
LEMMA ChangeEnds ==
  ASSUME JobsOK, NEW j \in Jobs, Changed(j)
  PROVE  /\ JobStep(j, jobs'[j]) /\ JobOK(jobs'[j])
         /\ jobs[j].kind \in {"mkdir", "rename", "updir", "save", "chmod"}
         /\ jobs[j].from = None
         /\ IF Went(j) THEN jobs'[j].kind = "load" /\ jobs'[j].from = jobs[j].kind
                       ELSE jobs'[j] = NoJob
<1>1. jobs[j].kind \in {"mkdir", "rename", "updir", "save", "chmod"} /\ jobs[j].from = None
  BY DEF Changed, Answered, JobsOK, JobOK
<1>2. CASE Went(j)
  <2>1. jobs[j].dir \in Folders /\ Load(j, jobs[j].dir)
    BY <1>2 DEF Changed, JobsOK, JobOK
  <2> QED
    BY <1>1, <1>2, <2>1, Loads
<1>3. CASE ~Went(j)
  <2>1. End(j)
    BY <1>3 DEF Changed
  <2> QED
    BY <1>1, <1>3, <2>1, Ends, NoJobOK DEF JobStep
<1> QED
  BY <1>2, <1>3

LEMMA LoopGoesOn ==
  ASSUME JobsOK, NEW j \in Jobs, NextFile(j)
  PROVE  /\ JobStep(j, jobs'[j]) /\ JobOK(jobs'[j])
         /\ jobs[j].kind \in {"delete", "upload"} /\ jobs[j].from = None
         /\ jobs[j].todo \ {Item(jobs[j])} = {} => jobs'[j].kind = "load"
<1>1. jobs[j].kind \in {"delete", "upload"} /\ jobs[j].from = None
  BY DEF NextFile, Answered, JobsOK, JobOK
<1> DEFINE rest == jobs[j].todo \ {Item(jobs[j])}
<1>2. CASE rest = {}
  <2>1. jobs[j].dir \in Folders /\ Load(j, jobs[j].dir)
    BY <1>2 DEF NextFile, JobsOK, JobOK
  <2> QED
    BY <1>1, <2>1, Loads
<1>3. CASE rest # {}
  <2>1. jobs' = [jobs EXCEPT ![j].todo = rest, ![j].answer = None]
    BY <1>3 DEF NextFile
  <2> QED
    BY <1>1, <1>3, <2>1, FilesAssumption DEF JobsOK, JobStep, JobOK, JobFields
<1> QED
  BY <1>2, <1>3

-----------------------------------------------------------------------------
(* The panel as a whole                                                    *)

\* What a handler leaves alone, unless it changes the tab or ends a load.
LEMMA JobKeeps ==
  ASSUME NEW j \in Jobs, JobStarts(j) \/ JobGoesOn(j)
  PROVE  \/ \E c \in Conns : ChangeTab(j, c)
         \/ Loaded(j) /\ UNCHANGED <<connID, openedIn, searchVars>>
         \/ UNCHANGED <<connID, searchVars, cwd, files, source>>
<1>1. CASE loadDirectory(j)
  BY <1>1 DEF loadDirectory, listVars, dialogVars, searchVars
<1>2. CASE handleUploadDirectory(j)
  BY <1>2 DEF handleUploadDirectory, listVars, dialogVars, searchVars
<1>3. CASE handleSaveEdit(j)
  BY <1>3 DEF handleSaveEdit, listVars, dialogVars, searchVars
<1>4. CASE handleApplyPermission(j)
  BY <1>4 DEF handleApplyPermission, listVars, dialogVars, searchVars
<1>5. CASE handleDelete(j)
  BY <1>5 DEF handleDelete, listVars, dialogVars, searchVars
<1>6. CASE handleDownload(j)
  BY <1>6 DEF handleDownload, listVars, dialogVars, searchVars
<1>7. CASE Previewed(j)
  BY <1>7 DEF Previewed, listVars, dialogVars, searchVars
<1>8. CASE EditorFilled(j)
  BY <1>8 DEF EditorFilled, listVars, dialogVars, searchVars
<1>9. CASE Changed(j)
  BY <1>9 DEF Changed, listVars, dialogVars, searchVars
<1>10. CASE NextFile(j)
  BY <1>10 DEF NextFile, listVars, dialogVars, searchVars
<1>11. CASE Downloaded(j)
  BY <1>11 DEF Downloaded, listVars, dialogVars, searchVars
<1>12. CASE Confirm(j)
  BY <1>12 DEF Confirm, listVars, dialogVars, searchVars
<1>13. CASE Serve(j)
  BY <1>13 DEF Serve, listVars, dialogVars, searchVars
<1>14. ASSUME NEW p \in Paths, openPreview(j, p) PROVE UNCHANGED <<connID, searchVars, cwd, files, source>>
  BY <1>14 DEF openPreview, listVars, dialogVars, searchVars
<1>15. ASSUME NEW p \in Paths, openEditor(j, p) PROVE UNCHANGED <<connID, searchVars, cwd, files, source>>
  BY <1>15 DEF openEditor, listVars, dialogVars, searchVars
<1>16. ASSUME NEW p \in SUBSET Plain, handleUploadFiles(j, p) PROVE UNCHANGED <<connID, searchVars, cwd, files, source>>
  BY <1>16 DEF handleUploadFiles, listVars, dialogVars, searchVars
<1>17. ASSUME NEW p \in Folders, handleCreateFolder(j, p) PROVE UNCHANGED <<connID, searchVars, cwd, files, source>>
  BY <1>17 DEF handleCreateFolder, listVars, dialogVars, searchVars
<1>18. ASSUME NEW p \in Paths, NEW to \in Paths, handleRename(j, p, to)
      PROVE UNCHANGED <<connID, searchVars, cwd, files, source>>
  BY <1>18 DEF handleRename, listVars, dialogVars, searchVars
<1>19. CASE Loaded(j)
  BY <1>19 DEF Loaded
<1> QED
  BY <1>1, <1>2, <1>3, <1>4, <1>5, <1>6, <1>7, <1>8, <1>9, <1>10, <1>11, <1>12, <1>13, <1>14, <1>15, <1>16, <1>17, <1>18, <1>19 DEF JobStarts, JobGoesOn

Aside ==
  \/ \E p \in Plain : UploadProgress(p)
  \/ DirectoryProgress \/ removeTask \/ clearCompleted \/ toggleSelection
  \/ Dismiss \/ \E p \in Paths : openPermissions(p)
Searching ==
  \/ searchFiles \/ resetSearch \/ \E q \in Words \cup {""} : setQuery(q)
  \/ \E i \in DOMAIN hunts : SearchGoesOn(i)

LEMMA AsideKeeps == Aside => UNCHANGED <<connID, cwd, files, loading, source, jobs, searchVars>>
BY DEF Aside, UploadProgress, DirectoryProgress, removeTask, clearCompleted, toggleSelection,
       Dismiss, openPermissions, listVars, dialogVars, searchVars

LEMMA SearchingKeeps == Searching => UNCHANGED <<connID, listVars, dialogVars, jobs>>
BY DEF Searching, searchFiles, resetSearch, setQuery, SearchGoesOn, SearchStart, SearchResult,
       SearchComplete, SearchFails, Hunting

LEMMA ThreeKinds ==
  FilesNext => (\E j \in Jobs : JobStarts(j) \/ JobGoesOn(j)) \/ Aside \/ Searching
BY DEF FilesNext, Aside, Searching

LEMMA Begins ==
  ASSUME JobsOK, NEW j \in Jobs, JobStarts(j)
  PROVE  jobs[j] = NoJob /\ JobStep(j, jobs'[j]) /\ JobOK(jobs'[j])
<1>1. CASE handleUploadDirectory(j) \/ handleSaveEdit(j) \/ handleApplyPermission(j)
  BY <1>1, Starts DEF handleUploadDirectory, handleSaveEdit, handleApplyPermission
<1>2. CASE \E p \in Paths : openPreview(j, p) \/ openEditor(j, p)
  BY <1>2, Starts DEF openPreview, openEditor
<1>3. CASE \E ps \in SUBSET Plain : handleUploadFiles(j, ps)
  BY <1>3, Starts DEF handleUploadFiles
<1>4. CASE \E p \in Folders : handleCreateFolder(j, p)
  BY <1>4, Starts DEF handleCreateFolder
<1>5. CASE \E p, to \in Paths : handleRename(j, p, to)
  BY <1>5, Starts DEF handleRename
<1> QED
  BY <1>1, <1>2, <1>3, <1>4, <1>5, LoadBegins, TabLoads, DeleteAsks, DownloadBegins DEF JobStarts

LEMMA GoesOn ==
  ASSUME JobsOK, NEW j \in Jobs, JobGoesOn(j)
  PROVE  JobStep(j, jobs'[j]) /\ JobOK(jobs'[j])
<1>1. CASE Loaded(j) \/ Previewed(j) \/ EditorFilled(j)
  <2>1. End(j)
    BY <1>1 DEF Loaded, Previewed, EditorFilled
  <2> QED
    BY <2>1, Ends, NoJobOK DEF JobStep
<1> QED
  BY <1>1, ChangeEnds, LoopGoesOn, DownloadGoesOn, QuestionAnswered, Serves DEF JobGoesOn

LEMMA JobsStep == JobsOK /\ [FilesNext]_filesVars => JobsOK'
<1> SUFFICES ASSUME JobsOK, [FilesNext]_filesVars PROVE JobsOK'
  OBVIOUS
<1>1. ASSUME NEW j \in Jobs, JobStarts(j) \/ JobGoesOn(j) PROVE JobsOK'
  <2>1. cwd' \in Folders
    <3>1. CASE Loaded(j)
      BY <3>1 DEF Loaded, Answered, JobsOK, JobOK
    <3>2. CASE \E c \in Conns : ChangeTab(j, c)
      BY <3>2 DEF ChangeTab, JobsOK
    <3> QED
      BY <1>1, <3>1, <3>2, JobKeeps DEF JobsOK
  <2> QED
    BY <1>1, <2>1, Begins, GoesOn DEF JobStep, JobsOK, JobOK
<1>2. CASE Aside \/ Searching \/ UNCHANGED filesVars
  <2>1. UNCHANGED <<jobs, cwd>>
    BY <1>2, AsideKeeps, SearchingKeeps DEF filesVars, listVars
  <2> QED
    BY <2>1 DEF JobsOK, JobOK
<1> QED
  BY <1>1, <1>2, ThreeKinds

-----------------------------------------------------------------------------
(* The listing                                                             *)

LEMMA ListingStep == JobsOK /\ ListingOfCwd /\ [FilesNext]_filesVars => ListingOfCwd'
<1> SUFFICES ASSUME JobsOK, ListingOfCwd, [FilesNext]_filesVars PROVE ListingOfCwd'
  OBVIOUS
<1>1. ASSUME NEW j \in Jobs, Loaded(j) PROVE ListingOfCwd'
  <2>1. CASE Went(j)
    BY <1>1, <2>1 DEF Loaded, Answered, JobsOK, JobOK, ListingOfCwd
  <2>2. CASE ~Went(j)
    BY <1>1, <2>2 DEF Loaded, ListingOfCwd
  <2> QED
    BY <2>1, <2>2
<1>2. ASSUME NEW j \in Jobs, NEW c \in Conns, ChangeTab(j, c) PROVE ListingOfCwd'
  BY <1>2 DEF ChangeTab, ListingOfCwd
<1>3. CASE UNCHANGED <<cwd, files, source>>
  BY <1>3 DEF ListingOfCwd
<1> QED
  BY <1>1, <1>2, <1>3, ThreeKinds, JobKeeps, AsideKeeps, SearchingKeeps DEF filesVars, listVars

-----------------------------------------------------------------------------
(* Searches                                                                *)

Hunt == [conn : Conns, base : Folders, word : Words \cup {""}, at : {"asked", "running", "done"}]

\* The search of the panel is one that the backend was asked for, for the tab in front;
\* its results are of that search.
SearchInv ==
  /\ connID \in Conns /\ query \in Words \cup {""} /\ hunts \in Seq(Hunt)
  /\ DOMAIN search = {"id", "searching", "failed", "submitted", "hits"}
  /\ search.id = 0 => ~search.searching /\ search.hits = {}
  /\ search.id # 0 => search.id \in 1 .. Len(hunts) /\ hunts[search.id].conn = connID
  /\ search.searching => hunts[search.id].at # "done"
  /\ \A h \in search.hits : h.id = search.id

LEMMA NoSearchIs ==
  /\ DOMAIN NoSearch = {"id", "searching", "failed", "submitted", "hits"}
  /\ NoSearch.id = 0 /\ ~NoSearch.searching /\ NoSearch.hits = {}
BY DEF NoSearch

LEMMA SearchStep == JobsOK /\ SearchInv /\ [FilesNext]_filesVars => SearchInv'
<1> SUFFICES ASSUME JobsOK, SearchInv, [FilesNext]_filesVars PROVE SearchInv'
  OBVIOUS
<1>1. ASSUME NEW j \in Jobs, NEW c \in Conns, ChangeTab(j, c) PROVE SearchInv'
  BY <1>1, NoSearchIs DEF ChangeTab, SearchInv
<1>2. CASE searchFiles
  <2>1. CASE query = ""
    BY <1>2, <2>1, NoSearchIs DEF searchFiles, SearchInv
  <2>2. CASE query # ""
    <3> DEFINE new == [conn |-> connID, base |-> cwd, word |-> query, at |-> "asked"]
    <3>1. new \in Hunt
      BY DEF Hunt, SearchInv, JobsOK
    <3>2. hunts' = Append(hunts, new) /\ UNCHANGED <<connID, query>>
      BY <1>2, <2>2 DEF searchFiles
    <3>s. hunts \in Seq(Hunt)
      BY DEF SearchInv
    <3> HIDE DEF new
    <3>3. hunts' \in Seq(Hunt) /\ Len(hunts') \in Nat \ {0} /\ hunts'[Len(hunts')] = new
      BY <3>1, <3>2, <3>s
    <3>6. new.conn = connID /\ new.at # "done"
      BY DEF new
    <3>4. search' = [NoSearch EXCEPT !.id = Len(hunts'), !.searching = TRUE, !.submitted = query]
      BY <1>2, <2>2 DEF searchFiles
    <3>5. /\ DOMAIN search' = {"id", "searching", "failed", "submitted", "hits"}
          /\ search'.id = Len(hunts') /\ search'.hits = {}
      BY <3>4, NoSearchIs
    <3>7. search'.id # 0 /\ search'.id \in 1 .. Len(hunts') /\ hunts'[search'.id] = new
      BY <3>3, <3>5
    <3> QED
      BY <3>2, <3>3, <3>5, <3>6, <3>7 DEF SearchInv
  <2> QED
    BY <2>1, <2>2
<1>3. CASE resetSearch
  BY <1>3, NoSearchIs, FilesAssumption DEF resetSearch, SearchInv
<1>4. ASSUME NEW q \in Words \cup {""}, setQuery(q) PROVE SearchInv'
  BY <1>4 DEF setQuery, SearchInv
<1>5. ASSUME NEW i \in DOMAIN hunts, SearchGoesOn(i) PROVE SearchInv'
  <2>s. hunts \in Seq(Hunt)
    BY DEF SearchInv
  <2>1. i \in 1 .. Len(hunts) /\ hunts[i] \in Hunt
    BY <2>s
  <2>2. UNCHANGED <<connID, query>>
    BY <1>5 DEF SearchGoesOn, SearchStart, SearchResult, SearchComplete, SearchFails, Hunting
  <2>h. ASSUME NEW at \in {"running", "done"}, hunts' = [hunts EXCEPT ![i].at = at]
        PROVE  /\ hunts' \in Seq(Hunt) /\ Len(hunts') = Len(hunts)
               /\ hunts'[i].at = at
               /\ \A n \in 1 .. Len(hunts) : hunts'[n].conn = hunts[n].conn
               /\ \A n \in 1 .. Len(hunts) \ {i} : hunts'[n] = hunts[n]
    <3>1. hunts' = [hunts EXCEPT ![i] = [@ EXCEPT !.at = at]]
      BY <2>h
    <3> DEFINE new == [hunts[i] EXCEPT !.at = at]
    <3>2. new \in Hunt /\ new.at = at /\ new.conn = hunts[i].conn
      BY <2>1 DEF Hunt
    <3> HIDE DEF new
    <3>3. hunts' = [hunts EXCEPT ![i] = new]
      BY <3>1 DEF new
    <3> QED
      BY <2>1, <2>s, <3>2, <3>3
  <2>g. ASSUME NEW at \in {"running", "done"}, hunts' = [hunts EXCEPT ![i].at = at],
               DOMAIN search' = DOMAIN search, search'.id = search.id,
               search.id # i => search' = search,
               search.id = i => /\ search'.searching => at # "done"
                                /\ \A h \in search'.hits : h.id = i
        PROVE  SearchInv'
    <3>1. /\ hunts' \in Seq(Hunt) /\ Len(hunts') = Len(hunts)
          /\ hunts'[i].at = at
          /\ \A n \in 1 .. Len(hunts) : hunts'[n].conn = hunts[n].conn
          /\ \A n \in 1 .. Len(hunts) \ {i} : hunts'[n] = hunts[n]
      BY <2>g, <2>h
    <3>2. CASE search.id = i
      <4>1. /\ search'.id = i /\ i # 0 /\ i \in 1 .. Len(hunts')
            /\ hunts'[i].conn = connID' /\ hunts'[i].at = at
        <5>1. i # 0 /\ i \in 1 .. Len(hunts')
          BY <2>1, <2>s, <3>1
        <5>2. hunts[i].conn = connID
          BY <3>2, <5>1 DEF SearchInv
        <5> QED
          BY <2>1, <2>2, <2>g, <3>1, <3>2, <5>1, <5>2
      <4>2. /\ search'.searching => at # "done"
            /\ \A h \in search'.hits : h.id = i
            /\ DOMAIN search' = {"id", "searching", "failed", "submitted", "hits"}
            /\ connID' \in Conns /\ query' \in Words \cup {""}
        BY <2>2, <2>g, <3>2 DEF SearchInv
      <4> QED
        BY <3>1, <4>1, <4>2 DEF SearchInv
    <3>3. CASE search.id # i
      BY <2>1, <2>2, <2>g, <3>1, <3>3 DEF SearchInv
    <3> QED
      BY <3>2, <3>3
  <2>3. CASE SearchStart(i)
    <3>1. /\ hunts' = [hunts EXCEPT ![i].at = "running"]
          /\ DOMAIN search' = DOMAIN search /\ search'.id = search.id
          /\ search.id # i => search' = search
          /\ search.id = i => /\ search'.searching => "running" # "done"
                              /\ \A h \in search'.hits : h.id = i
      BY <2>3 DEF SearchStart, Hunting, Hear, SearchInv
    <3> QED
      BY <3>1, <2>g
  <2>4. CASE SearchResult(i)
    <3>1. /\ hunts' = [hunts EXCEPT ![i].at = "running"]
          /\ DOMAIN search' = DOMAIN search /\ search'.id = search.id
          /\ search.id # i => search' = search
          /\ search.id = i => /\ search'.searching => "running" # "done"
                              /\ \A h \in search'.hits : h.id = i
      <4>1. PICK hit : /\ hit.id = i
                       /\ Hear(i, [search EXCEPT !.hits = @ \cup {hit}])
        BY <2>4 DEF SearchResult
      <4>2. CASE search.id = i
        BY <2>4, <4>1, <4>2 DEF SearchResult, Hunting, Hear, SearchInv
      <4>3. CASE search.id # i
        BY <2>4, <4>1, <4>3 DEF SearchResult, Hunting, Hear, SearchInv
      <4> QED
        BY <4>2, <4>3
    <3> QED
      BY <3>1, <2>g
  <2>5. CASE SearchComplete(i)
    <3>1. /\ hunts' = [hunts EXCEPT ![i].at = "done"]
          /\ DOMAIN search' = DOMAIN search /\ search'.id = search.id
          /\ search.id # i => search' = search
          /\ search.id = i => /\ search'.searching => "done" # "done"
                              /\ \A h \in search'.hits : h.id = i
      BY <2>5 DEF SearchComplete, Hunting, Hear, SearchInv
    <3> QED
      BY <3>1, <2>g
  <2>6. CASE SearchFails(i)
    <3>1. /\ hunts' = [hunts EXCEPT ![i].at = "done"]
          /\ DOMAIN search' = DOMAIN search /\ search'.id = search.id
          /\ search.id # i => search' = search
          /\ search.id = i => /\ search'.searching => "done" # "done"
                              /\ \A h \in search'.hits : h.id = i
      BY <2>6 DEF SearchFails, Hunting, Hear, SearchInv
    <3> QED
      BY <3>1, <2>g
  <2> QED
    BY <1>5, <2>3, <2>4, <2>5, <2>6 DEF SearchGoesOn
<1>6. CASE UNCHANGED <<connID, searchVars>>
  BY <1>6 DEF searchVars, SearchInv
<1> QED
  BY <1>1, <1>2, <1>3, <1>4, <1>5, <1>6, ThreeKinds, JobKeeps, AsideKeeps DEF Searching, filesVars

-----------------------------------------------------------------------------
(* Dialogs and spinners                                                    *)

DialogShape ==
  /\ DOMAIN preview = {"open", "file", "busy", "content"}
  /\ DOMAIN editor = {"open", "file", "busy", "content"}
  /\ DOMAIN permission = {"open", "file"}

Spinning ==
  /\ loading => \E j \in Jobs : jobs[j].kind = "load"
  /\ preview.busy => \E j \in Jobs : jobs[j].kind = "preview"
  /\ editor.busy => \E j \in Jobs : "save" \in {jobs[j].kind, jobs[j].from}

DialogInv == DialogShape /\ DialogsOfTab /\ Spinning

\* What waits for job j as it was goes on waiting, unless the step sees to it.
LEMMA OthersWait ==
  ASSUME NEW j \in Jobs, NEW job, JobStep(j, job), Spinning
  PROVE  /\ loading /\ (jobs[j].kind = "load" => job.kind = "load")
              => \E k \in Jobs : jobs'[k].kind = "load"
         /\ preview.busy /\ (jobs[j].kind = "preview" => job.kind = "preview")
              => \E k \in Jobs : jobs'[k].kind = "preview"
         /\ editor.busy /\ ("save" \in {jobs[j].kind, jobs[j].from}
                              => "save" \in {job.kind, job.from})
              => \E k \in Jobs : "save" \in {jobs'[k].kind, jobs'[k].from}
BY DEF JobStep, Spinning

\* Nothing waits for a place where no job is.
LEMMA NothingWaits ==
  ASSUME NEW j, jobs[j] = NoJob
  PROVE  jobs[j].kind \notin {"load", "preview", "save"} /\ jobs[j].from # "save"
BY NoJobOK, FilesAssumption

LEMMA DialogStarts ==
  ASSUME JobsOK, DialogInv, NEW j \in Jobs, JobStarts(j)
  PROVE  DialogInv'
<1>b. jobs[j] = NoJob /\ JobStep(j, jobs'[j])
  BY Begins
<1>w. /\ loading => \E k \in Jobs : jobs'[k].kind = "load"
      /\ preview.busy => \E k \in Jobs : jobs'[k].kind = "preview"
      /\ editor.busy => \E k \in Jobs : "save" \in {jobs'[k].kind, jobs'[k].from}
  BY <1>b, OthersWait, NothingWaits DEF DialogInv
<1>1. CASE loadDirectory(j)
  BY <1>1, <1>w, LoadBegins DEF loadDirectory, dialogVars, DialogInv, DialogShape, DialogsOfTab, Spinning
<1>2. ASSUME NEW c \in Conns, ChangeTab(j, c) PROVE DialogInv'
  BY <1>2, <1>w, TabLoads DEF ChangeTab, Closing, DialogInv, DialogShape, DialogsOfTab, Spinning
<1>3. CASE handleSaveEdit(j)
  <2>1. jobs'[j].kind = "save"
    BY <1>3, Starts DEF handleSaveEdit
  <2> QED
    BY <1>3, <1>w, <2>1 DEF handleSaveEdit, listVars, DialogInv, DialogShape, DialogsOfTab, Spinning
<1>4. CASE handleDelete(j)
  BY <1>4, <1>w DEF handleDelete, listVars, DialogInv, DialogShape, DialogsOfTab, Spinning
<1>5. ASSUME NEW p \in Paths, openPreview(j, p) PROVE DialogInv'
  <2>1. jobs'[j].kind = "preview"
    BY <1>5, Starts DEF openPreview
  <2> QED
    BY <1>5, <1>w, <2>1 DEF openPreview, listVars, DialogInv, DialogShape, DialogsOfTab, Spinning
<1>6. ASSUME NEW p \in Paths, openEditor(j, p) PROVE DialogInv'
  BY <1>6, <1>w DEF openEditor, listVars, DialogInv, DialogShape, DialogsOfTab, Spinning
<1>7. CASE UNCHANGED <<connID, listVars, dialogVars>>
  BY <1>7, <1>w DEF listVars, dialogVars, DialogInv, DialogShape, DialogsOfTab, Spinning
<1>8. CASE handleUploadDirectory(j) \/ handleApplyPermission(j) \/ handleDownload(j)
  BY <1>7, <1>8 DEF handleUploadDirectory, handleApplyPermission, handleDownload
<1>9. CASE \/ \E ps \in SUBSET Plain : handleUploadFiles(j, ps)
           \/ \E p \in Folders : handleCreateFolder(j, p)
           \/ \E p, to \in Paths : handleRename(j, p, to)
  BY <1>7, <1>9 DEF handleUploadFiles, handleCreateFolder, handleRename
<1> QED
  BY <1>1, <1>2, <1>3, <1>4, <1>5, <1>6, <1>8, <1>9 DEF JobStarts

LEMMA DialogGoesOn ==
  ASSUME JobsOK, DialogInv, NEW j \in Jobs, JobGoesOn(j)
  PROVE  DialogInv'
<1> USE DEF DialogInv, DialogShape, DialogsOfTab
<1>1. CASE Loaded(j)
  <2>1. JobStep(j, NoJob) /\ jobs[j].kind = "load"
    BY <1>1, Ends DEF Loaded, Answered
  <2>2. editor' = IF jobs[j].from = "save" THEN [editor EXCEPT !.busy = FALSE] ELSE editor
    BY <1>1 DEF Loaded
  <2>3. Spinning'
    BY <1>1, <2>1, <2>2, OthersWait DEF Loaded, Spinning
  <2> QED
    BY <1>1, <2>2, <2>3 DEF Loaded
<1>2. CASE Previewed(j)
  <2>1. JobStep(j, NoJob) /\ jobs[j].kind = "preview" /\ jobs[j].from = None
    BY <1>2, Ends DEF Previewed, Answered, JobsOK, JobOK
  <2> QED
    BY <1>2, <2>1, OthersWait, FilesAssumption DEF Previewed, listVars, Spinning
<1>3. CASE EditorFilled(j)
  <2>1. JobStep(j, NoJob) /\ jobs[j].kind = "edit" /\ jobs[j].from = None
    BY <1>3, Ends DEF EditorFilled, Answered, JobsOK, JobOK
  <2> QED
    BY <1>3, <2>1, OthersWait, FilesAssumption DEF EditorFilled, listVars, Spinning
<1>4. CASE Changed(j)
  <2>0. /\ UNCHANGED <<connID, preview, openedIn>>
        /\ DOMAIN permission' = DOMAIN permission
        /\ permission'.open => permission.open
        /\ DOMAIN editor' = DOMAIN editor
        /\ editor'.open => editor.open
    BY <1>4 DEF Changed
  <2>k. /\ JobStep(j, jobs'[j])
        /\ jobs[j].kind \in {"mkdir", "rename", "updir", "save", "chmod"} /\ jobs[j].from = None
    BY <1>4, ChangeEnds
  <2>1. CASE Went(j)
    <3>1. jobs'[j].kind = "load" /\ jobs'[j].from = jobs[j].kind
      BY <1>4, <2>1, ChangeEnds
    <3>2. editor'.busy = editor.busy
      BY <1>4, <2>1 DEF Changed
    <3>3. Spinning'
      BY <2>0, <2>k, <3>1, <3>2, OthersWait, FilesAssumption DEF Spinning
    <3> QED
      BY <2>0, <3>3
  <2>2. CASE ~Went(j)
    <3>1. loading' = loading
      BY <1>4, <2>2 DEF Changed
    <3>2. IF jobs[j].kind = "save" THEN ~editor'.busy ELSE editor' = editor
      BY <1>4, <2>2 DEF Changed
    <3>3. Spinning'
      BY <2>0, <2>k, <3>1, <3>2, OthersWait, FilesAssumption DEF Spinning
    <3> QED
      BY <2>0, <3>3
  <2> QED
    BY <2>1, <2>2
<1>5. CASE NextFile(j)
  BY <1>5, LoopGoesOn, OthersWait, FilesAssumption DEF NextFile, dialogVars, Spinning
<1>6. CASE Downloaded(j)
  BY <1>6, DownloadGoesOn, OthersWait, FilesAssumption DEF Downloaded, listVars, dialogVars, Spinning
<1>7. CASE Confirm(j)
  BY <1>7, QuestionAnswered, OthersWait, FilesAssumption DEF Confirm, listVars, dialogVars, Spinning
<1>8. CASE Serve(j)
  <2>1. UNCHANGED <<connID, loading, preview, editor, permission, openedIn>>
    BY <1>8 DEF Serve, listVars, dialogVars
  <2>2. Spinning'
    BY <1>8, <2>1, Serves, OthersWait DEF Spinning
  <2> QED
    BY <2>1, <2>2
<1> QED
  BY <1>1, <1>2, <1>3, <1>4, <1>5, <1>6, <1>7, <1>8 DEF JobGoesOn

LEMMA DialogStep == JobsOK /\ DialogInv /\ [FilesNext]_filesVars => DialogInv'
<1> SUFFICES ASSUME JobsOK, DialogInv, [FilesNext]_filesVars PROVE DialogInv'
  OBVIOUS
<1>1. CASE UNCHANGED <<connID, loading, jobs, dialogVars>>
  BY <1>1 DEF dialogVars, DialogInv, DialogShape, DialogsOfTab, Spinning
<1>2. ASSUME NEW p \in Paths, openPermissions(p) PROVE DialogInv'
  BY <1>2 DEF openPermissions, listVars, DialogInv, DialogShape, DialogsOfTab, Spinning
<1>3. CASE Dismiss
  BY <1>3 DEF Dismiss, listVars, DialogInv, DialogShape, DialogsOfTab, Spinning
<1>4. CASE Aside
  BY <1>1, <1>2, <1>3, <1>4 DEF Aside, UploadProgress, DirectoryProgress, removeTask,
       clearCompleted, toggleSelection, listVars
<1>5. CASE Searching \/ UNCHANGED filesVars
  BY <1>1, <1>5, SearchingKeeps DEF filesVars, listVars
<1> QED
  BY <1>4, <1>5, ThreeKinds, DialogStarts, DialogGoesOn

-----------------------------------------------------------------------------

FilesInv == JobsOK /\ ListingOfCwd /\ SearchInv /\ DialogInv

LEMMA FilesInvAtFirst == FilesInit => FilesInv
<1> SUFFICES ASSUME FilesInit PROVE FilesInv
  OBVIOUS
<1>1. PICK j \in Jobs : jobs = [k \in Jobs |-> IF k # j THEN NoJob
                       ELSE [NoJob EXCEPT !.kind = "load", !.conn = connID, !.path = <<>>]]
  BY DEF FilesInit
<1> DEFINE first == [NoJob EXCEPT !.kind = "load", !.conn = connID, !.path = <<>>]
<1>2. JobOK(first) /\ first.kind = "load"
  BY NoJobOK, FilesAssumption DEF JobOK, JobFields, NoJob
<1>3. JobsOK
  BY <1>1, <1>2, NoJobOK, FilesAssumption DEF FilesInit, JobsOK
<1>4. ListingOfCwd
  BY DEF FilesInit, ListingOfCwd
<1>5. SearchInv
  <2>0. hunts = <<>>
    BY DEF FilesInit
  <2>1. hunts \in Seq(Hunt)
    BY <2>0
  <2> QED
    BY <2>1, NoSearchIs DEF FilesInit, SearchInv
<1>6. DialogInv
  BY <1>1, <1>2 DEF FilesInit, Closed, DialogInv, DialogShape, DialogsOfTab, Spinning
<1> QED
  BY <1>3, <1>4, <1>5, <1>6 DEF FilesInv

LEMMA FilesInvAlways == FilesSpec => []FilesInv
<1>1. FilesInv /\ [FilesNext]_filesVars => FilesInv'
  BY JobsStep, ListingStep, SearchStep, DialogStep DEF FilesInv
<1> QED
  BY <1>1, FilesInvAtFirst, PTL DEF FilesSpec

\* The table is that of the directory in the path bar, in whatever order loads are
\* answered: loadDirectory sets both after its await.
THEOREM ListingIsOfCwd == FilesSpec => []ListingOfCwd
<1>1. FilesInv => ListingOfCwd
  BY DEF FilesInv
<1> QED
  BY <1>1, FilesInvAlways, PTL

\* No spinner of a load, a preview, a save or a search is left over.
THEOREM SpinnersAreAnswered == FilesSpec => []SpinnersWait
<1>1. FilesInv => SpinnersWait
  BY DEF FilesInv, SearchInv, DialogInv, Spinning, SpinnersWait
<1> QED
  BY <1>1, FilesInvAlways, PTL

\* The results are of the last search and of the tab in front.
THEOREM ResultsAreOfSearch == FilesSpec => []ResultsOfSearch
<1>1. FilesInv => ResultsOfSearch
  BY DEF FilesInv, SearchInv, ResultsOfSearch
<1> QED
  BY <1>1, FilesInvAlways, PTL

\* A dialog never outlives the tab that it was opened in.
THEOREM DialogsAreOfTab == FilesSpec => []DialogsOfTab
<1>1. FilesInv => DialogsOfTab
  BY DEF FilesInv, DialogInv
<1> QED
  BY <1>1, FilesInvAlways, PTL
=============================================================================

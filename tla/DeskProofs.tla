----------------------------- MODULE DeskProofs -----------------------------
(***************************************************************************)
(* What holds of the tabs and panels of a connection window, of the panels *)
(* that poll and of the home window, for every set of connections, tool    *)
(* calls, items and hosts and every bound: panels and requests for         *)
(* terminals are of the tab in front, details are of the guardian that is  *)
(* selected, and a busy sign has a flow that will take it away.  And of    *)
(* the connection storage under the home window: its state keeps its       *)
(* shape, what is marked as saved is kept, and every step is one that      *)
(* Records allows.                                                         *)
(***************************************************************************)
EXTENDS Workspace, Polled, Home, FiniteSetTheorems, SequenceTheorems, TLAPS

-----------------------------------------------------------------------------
(* Tabs and panels                                                         *)

\* The panels of a window whose tab in front is c; a terminal of the AI is a terminal.
PanelsOf(c) ==
  {p \in [type : {"terminal", "ai"}, conn : {c}, isAI : BOOLEAN, session : Nat, start : Nat] :
     p.isAI => p.type = "terminal"}
RequestsOf(c) == [conn : {c}, call : Tools \cup {None, "button"}]

PanelsInv == made \in Nat /\ panels \in Seq(PanelsOf(connID))
RequestsInv == requests \in Seq(RequestsOf(connID)) /\ (requests # <<>> => HasAI(panels))
WindowInv == PanelsInv /\ RequestsInv

-----------------------------------------------------------------------------
(* Lemmas                                                                  *)

\* A sequence without one of its elements keeps the others.
LEMMA OneRemoved ==
  ASSUME NEW S, NEW s \in Seq(S), NEW n \in DOMAIN s
  PROVE  /\ RemoveAt(s, n) \in Seq(S)
         /\ \A k \in DOMAIN s \ {n} : \E m \in DOMAIN RemoveAt(s, n) : RemoveAt(s, n)[m] = s[k]
<1> DEFINE left == SubSeq(s, 1, n - 1)  right == SubSeq(s, n + 1, Len(s))
<1>1. Len(s) \in Nat /\ DOMAIN s = 1 .. Len(s) /\ n \in 1 .. Len(s)
  BY LenProperties
<1>2. \A i \in 1 .. Len(s) : s[i] \in S
  BY ElementOfSeq
<1>3. /\ left \in Seq(S) /\ Len(left) = n - 1
      /\ \A i \in 1 .. n - 1 : left[i] = s[i]
  <2>1. \A i \in 1 .. n - 1 : s[i] \in S
    BY <1>1, <1>2
  <2>2. 1 \in Int /\ n - 1 \in Int
    BY <1>1
  <2>3. /\ left \in Seq(S) /\ Len(left) = IF 1 <= n - 1 THEN (n - 1) - 1 + 1 ELSE 0
        /\ \A i \in 1 .. (n - 1) - 1 + 1 : left[i] = s[1 + i - 1]
    BY <2>1, <2>2, SubSeqProperties
  <2> HIDE DEF left
  <2> QED
    BY <1>1, <2>3
<1>4. /\ right \in Seq(S) /\ Len(right) = Len(s) - n
      /\ \A i \in 1 .. Len(s) - n : right[i] = s[n + i]
  <2>1. \A i \in n + 1 .. Len(s) : s[i] \in S
    BY <1>1, <1>2
  <2>2. n + 1 \in Int /\ Len(s) \in Int
    BY <1>1
  <2>3. /\ right \in Seq(S)
        /\ Len(right) = IF n + 1 <= Len(s) THEN Len(s) - (n + 1) + 1 ELSE 0
        /\ \A i \in 1 .. Len(s) - (n + 1) + 1 : right[i] = s[(n + 1) + i - 1]
    BY <2>1, <2>2, SubSeqProperties
  <2> HIDE DEF right
  <2>4. ASSUME NEW i \in 1 .. Len(s) - n
        PROVE  i \in 1 .. Len(s) - (n + 1) + 1 /\ (n + 1) + i - 1 = n + i
    BY <1>1
  <2>5. \A i \in 1 .. Len(s) - n : right[i] = s[n + i]
    BY <2>3, <2>4
  <2>6. Len(right) = Len(s) - n
    BY <1>1, <2>3
  <2> QED
    BY <2>3, <2>5, <2>6
<1> DEFINE rest == left \o right
<1>5. RemoveAt(s, n) = rest
  BY DEF RemoveAt
<1> HIDE DEF left, right
<1>6. /\ rest \in Seq(S) /\ Len(rest) = Len(left) + Len(right)
      /\ \A i \in 1 .. Len(left) + Len(right) :
           rest[i] = IF i <= Len(left) THEN left[i] ELSE right[i - Len(left)]
  BY <1>3, <1>4, ConcatProperties
<1> HIDE DEF rest
<1>7. DOMAIN rest = 1 .. Len(s) - 1
  BY <1>1, <1>3, <1>4, <1>6, LenProperties
<1>8. ASSUME NEW k \in DOMAIN s \ {n}
      PROVE  \E m \in DOMAIN rest : rest[m] = s[k]
  <2>1. CASE k < n
    <3>1. k \in DOMAIN rest /\ k \in 1 .. n - 1 /\ k \in 1 .. Len(left) + Len(right)
      BY <1>1, <1>3, <1>4, <1>7, <2>1
    <3>2. rest[k] = left[k]
      BY <1>1, <1>3, <1>6, <3>1, <2>1
    <3> QED
      BY <1>3, <3>1, <3>2
  <2>2. CASE k > n
    <3>0. k \in Int /\ n \in Int /\ k <= Len(s) /\ 1 <= n
      BY <1>1
    <3>1. /\ k - 1 \in DOMAIN rest /\ k - n \in 1 .. Len(s) - n
          /\ k - 1 \in 1 .. Len(left) + Len(right)
          /\ ~(k - 1 <= Len(left)) /\ (k - 1) - Len(left) = k - n /\ n + (k - n) = k
      <4>1. Len(left) = n - 1 /\ Len(right) = Len(s) - n
        BY <1>3, <1>4
      <4>2. k - 1 \in 1 .. Len(s) - 1 /\ k - n \in 1 .. Len(s) - n
        BY <1>1, <2>2, <3>0
      <4>3. Len(left) + Len(right) = Len(s) - 1
        BY <1>1, <3>0, <4>1
      <4>4. ~(k - 1 <= n - 1) /\ (k - 1) - (n - 1) = k - n /\ n + (k - n) = k
        BY <2>2, <3>0
      <4> QED
        BY <1>7, <4>1, <4>2, <4>3, <4>4
    <3>2. rest[k - 1] = right[k - n]
      BY <1>6, <3>1
    <3> QED
      BY <1>4, <3>1, <3>2
  <2> QED
    BY <1>1, <2>1, <2>2
<1> QED
  BY <1>5, <1>6, <1>8

\* Terminals are as finite as the panels, so their starts can be counted.
LEMMA TerminalsFinite ==
  ASSUME NEW S, NEW ps \in Seq(S)
  PROVE  IsFiniteSet(Terminals(ps))
<1>1. Len(ps) \in Nat /\ DOMAIN ps = 1 .. Len(ps) /\ ps \in [1 .. Len(ps) -> S]
  BY LenProperties
<1>2. IsFiniteSet(DOMAIN ps)
  BY <1>1, FS_Interval
<1>3. ToSet(ps) = {ps[i] : i \in DOMAIN ps}
  BY DEF ToSet
<1>4. ps \in Surjection(DOMAIN ps, ToSet(ps))
  BY <1>1, <1>3 DEF Surjection
<1>5. IsFiniteSet(ToSet(ps))
  BY <1>2, <1>4, FS_Surjection
<1>6. Terminals(ps) \in SUBSET ToSet(ps)
  BY DEF Terminals
<1> QED
  BY <1>5, <1>6, FS_Subset

LEMMA Arranged ==
  ASSUME made \in Nat, NEW c, NEW ps \in Seq(PanelsOf(c)), Arrange(ps)
  PROVE  made' \in Nat /\ panels' = ps /\ panels' \in Seq(PanelsOf(c))
<1> DEFINE new == Terminals(ps) \ Terminals(panels)
<1>1. new \in SUBSET Terminals(ps) /\ IsFiniteSet(Terminals(ps))
  BY TerminalsFinite
<1>2. IsFiniteSet(new)
  BY <1>1, FS_Subset
<1>3. Cardinality(new) \in Nat
  BY <1>2, FS_CardinalityType
<1>4. made' = made + Cardinality(new) /\ panels' = ps
  BY DEF Arrange
<1> HIDE DEF new
<1> QED
  BY <1>3, <1>4

\* updateConnectionForPanels takes every panel to the connection.
LEMMA MovedIsOf ==
  ASSUME PanelsInv, NEW c
  PROVE  Moved(c) \in Seq(PanelsOf(c))
<1>1. /\ Len(panels) \in Nat /\ DOMAIN panels = 1 .. Len(panels)
      /\ \A n \in DOMAIN panels : panels[n] \in PanelsOf(connID)
  BY LenProperties, ElementOfSeq DEF PanelsInv
<1> DEFINE start(n) == IF panels[n].isAI
                       THEN made + Cardinality({m \in 1 .. n : panels[m].isAI})
                       ELSE panels[n].start
           moved(n) == [panels[n] EXCEPT !.conn = c, !.start = start(n)]
<1>2. ASSUME NEW n \in DOMAIN panels
      PROVE  moved(n) \in PanelsOf(c)
  <2>1. n \in Int /\ IsFiniteSet(1 .. n)
    BY <1>1, FS_Interval
  <2>2. {m \in 1 .. n : panels[m].isAI} \in SUBSET (1 .. n)
    OBVIOUS
  <2>3. IsFiniteSet({m \in 1 .. n : panels[m].isAI})
    BY <2>1, <2>2, FS_Subset
  <2>4. Cardinality({m \in 1 .. n : panels[m].isAI}) \in Nat
    BY <2>3, FS_CardinalityType
  <2>5. start(n) \in Nat
    BY <1>1, <2>4 DEF PanelsInv, PanelsOf
  <2> HIDE DEF start
  <2> QED
    BY <1>1, <2>5 DEF PanelsOf
<1>3. Moved(c) = [n \in 1 .. Len(panels) |-> moved(n)]
  BY <1>1 DEF Moved
<1> HIDE DEF moved
<1>4. Moved(c) \in [1 .. Len(panels) -> PanelsOf(c)]
  BY <1>1, <1>2, <1>3
<1> QED
  BY <1>1, <1>4, SeqDef

\* A render keeps the panels and the requests, or moves the panels and drops the requests.
LEMMA RenderKeeps ==
  ASSUME WindowInv, NEW cs, NEW a, Render(cs, a)
  PROVE  WindowInv'
<1>1. CASE connID' = connID
  BY <1>1 DEF Render, panelVars, KeepRequests, WindowInv, PanelsInv, RequestsInv, HasAI
<1>2. CASE connID' # connID
  <2> DEFINE ps == CASE connID' = None -> <<>>
                     [] connID = None -> <<Panel("terminal", connID')>>
                     [] OTHER -> Moved(connID')
  <2>1. Arrange(ps) /\ DropRequests
    BY <1>2 DEF Render
  <2>2. ps \in Seq(PanelsOf(connID'))
    <3>1. <<>> \in Seq(PanelsOf(connID'))
      BY EmptySeq
    <3>2. Panel("terminal", connID') \in PanelsOf(connID')
      BY DEF Panel, PanelsOf
    <3>3. <<Panel("terminal", connID')>> \in Seq(PanelsOf(connID'))
      BY <3>2
    <3>4. Moved(connID') \in Seq(PanelsOf(connID'))
      BY MovedIsOf DEF WindowInv
    <3> QED
      BY <3>1, <3>3, <3>4
  <2> HIDE DEF ps
  <2>3. PanelsInv'
    BY <2>1, <2>2, Arranged DEF WindowInv, PanelsInv
  <2>4. RequestsInv'
    BY <2>1 DEF DropRequests, RequestsInv
  <2> QED
    BY <2>3, <2>4 DEF WindowInv
<1> QED
  BY <1>1, <1>2

\* Nothing that these actions change is in the invariant.
LEMMA Kept ==
  ASSUME WindowInv, UNCHANGED <<connID, panels, made, requests>>
  PROVE  WindowInv'
BY DEF WindowInv, PanelsInv, RequestsInv, HasAI

-----------------------------------------------------------------------------
(* Panels                                                                  *)

LEMMA OpenPanelKeeps ==
  ASSUME WindowInv, NEW type \in {"terminal", "ai"}, openPanel(type)
  PROVE  WindowInv'
<1> DEFINE ps == IF type = "ai" /\ HasAI(panels) THEN panels
                 ELSE Append(panels, Panel(type, connID))
<1>1. Panel(type, connID) \in PanelsOf(connID)
  BY DEF Panel, PanelsOf
<1>2. panels \in Seq(PanelsOf(connID)) /\ made \in Nat
  BY DEF WindowInv, PanelsInv
<1>3. ps \in Seq(PanelsOf(connID))
  BY <1>1, <1>2
<1>4. HasAI(panels) => HasAI(ps)
  <2>1. ASSUME NEW n \in DOMAIN panels
        PROVE  n \in DOMAIN Append(panels, Panel(type, connID))
               /\ Append(panels, Panel(type, connID))[n] = panels[n]
    BY <1>1, <1>2
  <2> QED
    BY <2>1 DEF HasAI
<1>5. Arrange(ps) /\ UNCHANGED <<connID, requests>>
  BY DEF openPanel, aiVars
<1> HIDE DEF ps
<1>6. PanelsInv' /\ panels' = ps
  BY <1>2, <1>3, <1>5, Arranged DEF PanelsInv
<1>7. RequestsInv'
  BY <1>4, <1>5, <1>6 DEF WindowInv, RequestsInv, HasAI
<1> QED
  BY <1>6, <1>7 DEF WindowInv

LEMMA ClosePanelsKeeps ==
  ASSUME WindowInv, ClosePanels
  PROVE  WindowInv'
<1>0. /\ made \in Nat /\ panels \in Seq(PanelsOf(connID))
      /\ Len(panels) \in Nat /\ DOMAIN panels = 1 .. Len(panels)
      /\ \A k \in DOMAIN panels : panels[k] \in PanelsOf(connID)
  BY LenProperties, ElementOfSeq DEF WindowInv, PanelsInv
<1>1. PICK stay \in SUBSET DOMAIN panels :
        \E place \in [1 .. Cardinality(stay) -> stay] :
          LET ps == [m \in DOMAIN place |-> panels[place[m]]] IN
          /\ Arrange(ps)
          /\ IF HasAI(ps) THEN KeepRequests ELSE DropRequests
  BY DEF ClosePanels
<1>2. PICK place \in [1 .. Cardinality(stay) -> stay] :
          LET ps == [m \in DOMAIN place |-> panels[place[m]]] IN
          /\ Arrange(ps)
          /\ IF HasAI(ps) THEN KeepRequests ELSE DropRequests
  BY <1>1
<1> DEFINE ps == [m \in DOMAIN place |-> panels[place[m]]]
<1>3. Cardinality(stay) \in Nat
  <2>1. IsFiniteSet(DOMAIN panels)
    BY <1>0, FS_Interval
  <2>2. IsFiniteSet(stay)
    BY <2>1, FS_Subset
  <2> QED
    BY <2>2, FS_CardinalityType
<1>4. ps \in [1 .. Cardinality(stay) -> PanelsOf(connID)]
  BY <1>0, <1>2
<1>5. ps \in Seq(PanelsOf(connID))
  BY <1>3, <1>4, SeqDef
<1>6. Arrange(ps) /\ IF HasAI(ps) THEN KeepRequests ELSE DropRequests
  BY <1>2
<1>7. connID' = connID
  BY DEF ClosePanels
<1> HIDE DEF ps
<1>8. PanelsInv' /\ panels' = ps
  BY <1>0, <1>5, <1>6, <1>7, Arranged DEF PanelsInv
<1>9. RequestsInv'
  <2>1. CASE HasAI(ps)
    BY <1>6, <1>7, <1>8, <2>1 DEF KeepRequests, WindowInv, RequestsInv, HasAI
  <2>2. CASE ~HasAI(ps)
    <3>1. requests' = <<>>
      BY <1>6, <2>2 DEF DropRequests
    <3> QED
      BY <3>1, EmptySeq DEF RequestsInv
  <2> QED
    BY <2>1, <2>2
<1> QED
  BY <1>8, <1>9 DEF WindowInv

-----------------------------------------------------------------------------
(* Requests                                                                *)

LEMMA Scheduled ==
  ASSUME WindowInv, HasAI(panels), NEW call \in Tools \cup {None, "button"},
         scheduleOpenTerminal(call), UNCHANGED <<connID, panels, made>>
  PROVE  WindowInv'
<1>1. requests' = Append(requests, [conn |-> connID, call |-> call])
  BY DEF scheduleOpenTerminal
<1>2. [conn |-> connID, call |-> call] \in RequestsOf(connID)
  BY DEF RequestsOf
<1>3. requests' \in Seq(RequestsOf(connID))
  BY <1>1, <1>2 DEF WindowInv, RequestsInv
<1> QED
  BY <1>3 DEF WindowInv, PanelsInv, RequestsInv, HasAI

LEMMA ToolKeeps ==
  ASSUME WindowInv, NEW t \in Tools, executeAITool(t)
  PROVE  WindowInv'
<1>1. HasAI(panels) /\ UNCHANGED <<connID, panels, made>>
  BY DEF executeAITool, panelVars
<1>2. \/ scheduleOpenTerminal(t) \/ UNCHANGED requests \/ ensureTerminal
  BY DEF executeAITool
<1>3. ensureTerminal => UNCHANGED requests \/ scheduleOpenTerminal(None)
  BY DEF ensureTerminal
<1> QED
  BY <1>1, <1>2, <1>3, Scheduled, Kept

LEMMA ButtonKeeps ==
  ASSUME WindowInv, AIButton
  PROVE  WindowInv'
<1>1. HasAI(panels) /\ UNCHANGED <<connID, panels, made>>
  BY DEF AIButton, panelVars
<1>2. scheduleOpenTerminal("button") \/ UNCHANGED requests
  BY DEF AIButton
<1> QED
  BY <1>1, <1>2, Scheduled, Kept

\* Fewer requests need the AI's panel no more than before.
LEMMA FewerRequests ==
  ASSUME WindowInv, requests # <<>>, requests' \in Seq(RequestsOf(connID)),
         UNCHANGED <<connID, panels, made>>
  PROVE  WindowInv'
BY DEF WindowInv, PanelsInv, RequestsInv, HasAI

LEMMA TimeoutKeeps ==
  ASSUME WindowInv, NEW n \in DOMAIN requests, RequestTimeout(n)
  PROVE  WindowInv'
<1>1. requests \in Seq(RequestsOf(connID)) /\ requests # <<>>
  BY EmptySeq DEF WindowInv, RequestsInv
<1>2. RemoveAt(requests, n) \in Seq(RequestsOf(connID))
  BY <1>1, OneRemoved
<1>3. requests' = RemoveAt(requests, n) /\ UNCHANGED <<connID, panels, made>>
  BY DEF RequestTimeout, panelVars
<1> QED
  BY <1>1, <1>2, <1>3, FewerRequests

\* A terminal that opens or closes by an event is one of the tab in front, and no panel
\* of the AI.
LEMMA WireKeeps ==
  ASSUME WindowInv, NEW w \in wires, HearWire(w)
  PROVE  WindowInv'
<1> DEFINE theirs == {n \in DOMAIN panels : panels[n].isAI /\ panels[n].session = w.session}
<1>0. /\ made \in Nat /\ panels \in Seq(PanelsOf(connID))
      /\ Len(panels) \in Nat /\ DOMAIN panels = 1 .. Len(panels)
      /\ \A k \in DOMAIN panels : panels[k] \in PanelsOf(connID)
  BY LenProperties, ElementOfSeq DEF WindowInv, PanelsInv
<1>1. connID' = connID
  BY DEF HearWire
<1>2. ASSUME NEW ps \in Seq(PanelsOf(connID)), Arrange(ps), HasAI(panels) => HasAI(ps),
             KeepRequests
      PROVE  WindowInv'
  <2>1. PanelsInv' /\ panels' = ps
    BY <1>0, <1>1, <1>2, Arranged DEF PanelsInv
  <2>2. RequestsInv'
    BY <1>1, <1>2, <2>1 DEF KeepRequests, WindowInv, RequestsInv, HasAI
  <2> QED
    BY <2>1, <2>2 DEF WindowInv
<1>3. CASE UNCHANGED panelVars /\ KeepRequests
  BY <1>1, <1>3, Kept DEF panelVars, KeepRequests
<1>4. CASE Arrange(Append(panels, AITerminal(connID, made + 1))) /\ KeepRequests
  <2> DEFINE p == AITerminal(connID, made + 1)
  <2>1. p \in PanelsOf(connID)
    BY <1>0 DEF AITerminal, PanelsOf
  <2> HIDE DEF p
  <2>2. Append(panels, p) \in Seq(PanelsOf(connID))
    BY <1>0, <2>1
  <2>3. ASSUME NEW n \in DOMAIN panels
        PROVE  n \in DOMAIN Append(panels, p) /\ Append(panels, p)[n] = panels[n]
    BY <1>0, <2>1
  <2>4. HasAI(panels) => HasAI(Append(panels, p))
    BY <2>3 DEF HasAI
  <2>5. Arrange(Append(panels, p)) /\ KeepRequests
    BY <1>4 DEF p
  <2> QED
    BY <1>2, <2>2, <2>4, <2>5
<1>5. CASE /\ KeepRequests
           /\ Arrange(IF theirs = {} THEN panels
                      ELSE RemoveAt(panels, CHOOSE n \in theirs : TRUE))
  <2>1. CASE theirs = {}
    BY <1>0, <1>2, <1>5, <2>1
  <2>2. CASE theirs # {}
    <3>1. PICK n \in theirs : n = CHOOSE k \in theirs : TRUE
      BY <2>2
    <3>2. n \in DOMAIN panels /\ panels[n].isAI
      OBVIOUS
    <3>3. panels[n].type # "ai"
      BY <1>0, <3>2 DEF PanelsOf
    <3>4. /\ RemoveAt(panels, n) \in Seq(PanelsOf(connID))
          /\ \A k \in DOMAIN panels \ {n} :
               \E m \in DOMAIN RemoveAt(panels, n) : RemoveAt(panels, n)[m] = panels[k]
      BY <1>0, <3>2, OneRemoved
    <3>5. HasAI(panels) => HasAI(RemoveAt(panels, n))
      BY <3>3, <3>4 DEF HasAI
    <3>6. Arrange(RemoveAt(panels, n)) /\ KeepRequests
      BY <1>5, <2>2, <3>1
    <3> QED
      BY <1>2, <3>4, <3>5, <3>6
  <2> QED
    BY <2>1, <2>2
<1>6. CASE /\ UNCHANGED panelVars
           /\ IF HasAI(panels) /\ requests # <<>>
              THEN requests' = Tail(requests) /\ Resolve(<<Head(requests)>>)
              ELSE KeepRequests
  <2>1. CASE HasAI(panels) /\ requests # <<>>
    <3>1. Tail(requests) \in Seq(RequestsOf(connID))
      BY <2>1, HeadTailProperties DEF WindowInv, RequestsInv
    <3> QED
      BY <1>1, <1>6, <2>1, <3>1, FewerRequests DEF panelVars
  <2>2. CASE ~(HasAI(panels) /\ requests # <<>>)
    BY <1>1, <1>6, <2>2, Kept DEF panelVars, KeepRequests
  <2> QED
    BY <2>1, <2>2
<1> HIDE DEF theirs
<1> QED
  BY <1>3, <1>4, <1>5, <1>6 DEF HearWire, theirs

-----------------------------------------------------------------------------
(* The window                                                              *)

LEMMA WindowInvAtFirst == WorkspaceInit => WindowInv
<1> SUFFICES ASSUME WorkspaceInit PROVE WindowInv
  OBVIOUS
<1>1. panels = <<>> /\ requests = <<>> /\ made = 0
  BY DEF WorkspaceInit
<1>2. panels \in Seq(PanelsOf(connID)) /\ requests \in Seq(RequestsOf(connID))
  BY <1>1, EmptySeq
<1> QED
  BY <1>1, <1>2 DEF WindowInv, PanelsInv, RequestsInv

LEMMA ErrandKeeps ==
  ASSUME WindowInv, NEW e \in Errands,
         TabErrand(e) \/ AnswerErrand(e) \/ FetchFails(e) \/ ErrandGoesOn(e)
  PROVE  WindowInv'
<1>1. CASE \/ TabErrand(e) \/ AnswerErrand(e) \/ Disconnected(e) \/ Reconnected(e)
           \/ CallLost(e) \/ Fetch(e)
  BY <1>1, Kept DEF TabErrand, AnswerErrand, Disconnected, Reconnected, CallLost, Fetch,
       panelVars, aiVars
<1>2. CASE Fetched(e) \/ FetchFails(e)
  BY <1>2, RenderKeeps DEF Fetched, FetchFails
<1> QED
  BY <1>1, <1>2 DEF ErrandGoesOn

LEMMA NewsKeep ==
  ASSUME WindowInv, NewsGoOn
  PROVE  WindowInv'
<1>1. CASE Announce
  BY <1>1, Kept DEF Announce, panelVars, aiVars
<1>2. CASE HearNews
  <2>1. Render(news, activeID) \/ UNCHANGED <<connID, panels, made, requests>>
    BY <1>2 DEF HearNews, panelVars
  <2> QED
    BY <2>1, RenderKeeps, Kept
<1> QED
  BY <1>1, <1>2 DEF NewsGoOn

LEMMA WindowInvStep == WindowInv /\ [WorkspaceNext]_workspaceVars => WindowInv'
<1> SUFFICES ASSUME WindowInv, [WorkspaceNext]_workspaceVars PROVE WindowInv'
  OBVIOUS
<1>1. ASSUME NEW c \in Conns, SelectTab(c) PROVE WindowInv'
  BY <1>1, RenderKeeps DEF SelectTab
<1>2. ASSUME NEW p \in starts, ShellStarts(p) \/ ShellFails(p) PROVE WindowInv'
  BY <1>2, Kept DEF ShellStarts, ShellFails, aiVars
<1>3. ASSUME NEW t \in Tools, runRemoteCommand(t) \/ SubmitToolResult(t) PROVE WindowInv'
  BY <1>3, Kept DEF runRemoteCommand, SubmitToolResult, panelVars
<1>4. CASE GroupChanges \/ LockKept
  BY <1>4, Kept DEF GroupChanges, LockKept, panelVars, aiVars
<1>5. CASE UNCHANGED workspaceVars
  BY <1>5, Kept DEF workspaceVars, panelVars, aiVars
<1>6. CASE WindowActs
  BY <1>1, <1>2, <1>4, <1>6, ErrandKeeps, OpenPanelKeeps, ClosePanelsKeeps, ButtonKeeps,
     ToolKeeps DEF WindowActs
<1>7. CASE \/ \E e \in Errands : ErrandGoesOn(e)
           \/ NewsGoOn
           \/ \E t \in Tools : runRemoteCommand(t) \/ SubmitToolResult(t)
           \/ \E n \in DOMAIN requests : RequestTimeout(n)
           \/ \E p \in starts : ShellStarts(p)
           \/ \E w \in wires : HearWire(w)
  BY <1>2, <1>3, <1>7, ErrandKeeps, NewsKeep, TimeoutKeeps, WireKeeps
<1> QED
  BY <1>5, <1>6, <1>7 DEF WorkspaceNext

LEMMA WindowInvAlways == WorkspaceSpec => []WindowInv
BY WindowInvAtFirst, WindowInvStep, PTL DEF WorkspaceSpec

\* Every panel is on the connection of the tab in front: a render takes all of them
\* along, and events open none elsewhere.
THEOREM PanelsAreOfTab == WorkspaceSpec => []PanelsFollowTab
<1>1. WindowInv => PanelsFollowTab
  BY LenProperties, ElementOfSeq DEF WindowInv, PanelsInv, PanelsOf, PanelsFollowTab
<1> QED
  BY <1>1, WindowInvAlways, PTL

\* A request for a terminal is of the tab in front and has a panel that waits for it.
THEOREM RequestsAreOfTab == WorkspaceSpec => []RequestsOfTab
<1>1. WindowInv => RequestsOfTab
  <2> SUFFICES ASSUME WindowInv, requests # <<>>
               PROVE  HasAI(panels) /\ \A n \in DOMAIN requests : requests[n].conn = connID
    BY DEF RequestsOfTab
  <2>1. requests \in Seq(RequestsOf(connID)) /\ HasAI(panels)
    BY DEF WindowInv, RequestsInv
  <2>2. \A n \in DOMAIN requests : requests[n] \in RequestsOf(connID)
    BY <2>1, LenProperties, ElementOfSeq
  <2> QED
    BY <2>1, <2>2 DEF RequestsOf
<1> QED
  BY <1>1, WindowInvAlways, PTL

-----------------------------------------------------------------------------
(* The panels that poll                                                    *)

\* Details are asked for one at a time, of the guardian that is selected in the tab in
\* front, or of one that is not selected any more.
Fields == {"kind", "conn", "item", "index", "on", "was", "answer", "seen"}
Details(k) == calls[k].kind = "details"
DetailsInv ==
  /\ DOMAIN calls = Calls /\ \A k \in Calls : DOMAIN calls[k] = Fields
  /\ name # None => panel = "guard"
  /\ \A k \in Calls : Details(k) =>
       /\ detailLoading
       /\ \A j \in Calls : Details(j) => j = k
       /\ name # None => calls[k].conn = connID /\ calls[k].item = name
  /\ DetailsOfSelection

LEMMA NoCallIs == DOMAIN NoCall = Fields /\ NoCall.kind # "details"
BY PolledAssumption DEF NoCall, Fields

\* A call that is not for details takes the place of another one.
LEMMA OtherCall ==
  ASSUME DetailsInv, NEW k \in Calls, NEW c, DOMAIN c = Fields, c.kind # "details",
         calls' = [calls EXCEPT ![k] = c],
         \/ UNCHANGED <<connID, panel, detailVars>>
         \/ UNCHANGED <<panel, detailLoading>> /\ name' = None
  PROVE  DetailsInv'
<1>1. \A j \in Calls : Details(j)' => j # k /\ Details(j) /\ calls'[j] = calls[j]
  BY DEF DetailsInv, Details
<1>2. DOMAIN calls' = Calls /\ \A j \in Calls : DOMAIN calls'[j] = Fields
  BY DEF DetailsInv
<1> QED
  BY <1>1, <1>2 DEF DetailsInv, DetailsOfSelection, detailVars, Details

\* A call goes on.
LEMMA SameCall ==
  ASSUME DetailsInv, NEW k \in Calls, NEW c, DOMAIN c = Fields,
         c.kind = calls[k].kind, c.conn = calls[k].conn, c.item = calls[k].item,
         calls' = [calls EXCEPT ![k] = c], UNCHANGED <<connID, panel, detailVars>>
  PROVE  DetailsInv'
<1>1. \A j \in Calls : /\ calls'[j].kind = calls[j].kind /\ calls'[j].conn = calls[j].conn
                       /\ calls'[j].item = calls[j].item /\ DOMAIN calls'[j] = Fields
  BY DEF DetailsInv
<1>2. DOMAIN calls' = Calls
  BY DEF DetailsInv
<1> QED
  BY <1>1, <1>2 DEF DetailsInv, DetailsOfSelection, detailVars, Details

\* The record of a call keeps its fields.
LEMMA CallShape ==
  ASSUME DetailsInv, NEW k \in Calls, NEW x, NEW y
  PROVE  LET c == [calls[k] EXCEPT !.answer = x]
             d == [calls[k] EXCEPT !.answer = x, !.seen = y] IN
         /\ DOMAIN c = Fields /\ DOMAIN d = Fields
         /\ c.kind = calls[k].kind /\ c.conn = calls[k].conn /\ c.item = calls[k].item
         /\ d.kind = calls[k].kind /\ d.conn = calls[k].conn /\ d.item = calls[k].item
BY DEF DetailsInv, Fields

LEMMA AskIs ==
  ASSUME NEW k \in Calls, NEW kind, NEW item, NEW index, NEW answer,
         Ask(k, kind, item, index, answer)
  PROVE  \E c : /\ calls' = [calls EXCEPT ![k] = c]
                /\ DOMAIN c = Fields /\ c.kind = kind /\ c.conn = connID /\ c.item = item
<1> DEFINE c == [NoCall EXCEPT !.kind = kind, !.conn = connID, !.item = item, !.index = index,
                    !.on = kind = "toggle" /\ getToggleTarget, !.was = name = item,
                    !.answer = answer]
<1>1. DOMAIN c = Fields /\ c.kind = kind /\ c.conn = connID /\ c.item = item
  BY DEF NoCall, Fields
<1>2. calls' = [calls EXCEPT ![k] = c]
  BY DEF Ask
<1> HIDE DEF c
<1> QED
  BY <1>1, <1>2

LEMMA LoadIs ==
  ASSUME NEW c
  PROVE  LET d == [NoCall EXCEPT !.kind = "load", !.conn = c] IN
         DOMAIN d = Fields /\ d.kind # "details"
BY DEF NoCall, Fields

LEMMA DetailsAtFirst == PolledInit => DetailsInv
<1> SUFFICES ASSUME PolledInit PROVE DetailsInv
  OBVIOUS
<1>1. PICK k \in Calls : calls = [j \in Calls |-> IF j # k THEN NoCall
                           ELSE [NoCall EXCEPT !.kind = "load", !.conn = connID]]
  BY DEF PolledInit
<1> DEFINE d == [NoCall EXCEPT !.kind = "load", !.conn = connID]
<1>2. DOMAIN d = Fields /\ d.kind # "details"
  BY LoadIs
<1> HIDE DEF d
<1>3. calls = [j \in Calls |-> IF j # k THEN NoCall ELSE d]
  BY <1>1 DEF d
<1>4. \A j \in Calls : ~Details(j) /\ DOMAIN calls[j] = Fields
  BY <1>2, <1>3, NoCallIs DEF Details
<1>5. DOMAIN calls = Calls /\ name = None
  BY <1>3 DEF PolledInit
<1> QED
  BY <1>4, <1>5 DEF DetailsInv, DetailsOfSelection

LEMMA LoadsKeep ==
  ASSUME DetailsInv, NEW k \in Calls, load(k) \/ \E c \in Conns : SwitchTab(k, c)
  PROVE  DetailsInv'
<1>1. ASSUME NEW c, Call(k, "load", c)
      PROVE  \E d : DOMAIN d = Fields /\ d.kind # "details" /\ calls' = [calls EXCEPT ![k] = d]
  <2> DEFINE d == [NoCall EXCEPT !.kind = "load", !.conn = c]
  <2>1. DOMAIN d = Fields /\ d.kind # "details"
    BY LoadIs
  <2>2. calls' = [calls EXCEPT ![k] = d]
    BY <1>1 DEF Call
  <2> HIDE DEF d
  <2> QED
    BY <2>1, <2>2
<1>2. CASE load(k)
  <2>1. (\E c : Call(k, "load", c)) /\ UNCHANGED <<connID, panel, detailVars>>
    BY <1>2 DEF load
  <2> QED
    BY <1>1, <2>1, OtherCall
<1>3. ASSUME NEW c \in Conns, SwitchTab(k, c)
      PROVE  DetailsInv'
  <2>1. Call(k, "load", c) /\ UNCHANGED <<panel, detailLoading>>
    BY <1>3 DEF SwitchTab
  <2>2. name' = None
    BY <1>3 DEF SwitchTab, DetailsInv
  <2> QED
    BY <1>1, <2>1, <2>2, OtherCall
<1> QED
  BY <1>2, <1>3

LEMMA AnswersKeep ==
  ASSUME DetailsInv, NEW k \in Calls, LoadDone(k) \/ ChangeDone(k)
  PROVE  DetailsInv'
<1>1. \/ UNCHANGED <<name, details>>
      \/ name' = None
  BY DEF LoadDone, ChangeDone
<1>2. UNCHANGED <<connID, panel, detailLoading, detailFailed>>
  BY DEF LoadDone, ChangeDone
<1>3. Hangup(k) => DetailsInv'
  BY <1>1, <1>2, NoCallIs, OtherCall DEF Hangup, detailVars
<1>4. CASE LoadDone(k)
  BY <1>3, <1>4 DEF LoadDone
<1>5. CASE ChangeDone(k)
  <2> DEFINE d == [NoCall EXCEPT !.kind = "load", !.conn = calls[k].conn]
  <2>1. DOMAIN d = Fields /\ d.kind # "details"
    BY LoadIs
  <2>2. Hangup(k) \/ calls' = [calls EXCEPT ![k] = d]
    BY <1>5 DEF ChangeDone
  <2> HIDE DEF d
  <2> QED
    BY <1>1, <1>2, <1>3, <2>1, <2>2, OtherCall DEF detailVars
<1> QED
  BY <1>4, <1>5

LEMMA QuestionsKeep ==
  ASSUME DetailsInv, NEW k \in Calls, Question(k) \/ Change(k) \/ AnswerQuestion(k)
  PROVE  DetailsInv'
<1>1. UNCHANGED <<connID, panel, detailVars>>
  BY DEF Question, Change, AnswerQuestion
<1>2. ASSUME NEW kind, NEW item, NEW index, NEW answer, Ask(k, kind, item, index, answer),
             kind # "details"
      PROVE  DetailsInv'
  BY <1>1, <1>2, AskIs, OtherCall
<1>3. CASE Question(k) \/ Change(k)
  <2>1. \E kind, item, index, answer : Ask(k, kind, item, index, answer) /\ kind # "details"
    BY <1>3 DEF Question, Change
  <2> QED
    BY <1>2, <2>1
<1>4. CASE AnswerQuestion(k)
  <2>1. Hangup(k) => DetailsInv'
    BY <1>1, NoCallIs, OtherCall DEF Hangup
  <2> DEFINE c == [calls[k] EXCEPT !.answer = None]
  <2>2. Hangup(k) \/ calls' = [calls EXCEPT ![k] = c]
    BY <1>4 DEF AnswerQuestion
  <2>3. /\ DOMAIN c = Fields /\ c.kind = calls[k].kind
        /\ c.conn = calls[k].conn /\ c.item = calls[k].item
    BY CallShape
  <2> HIDE DEF c
  <2> QED
    BY <1>1, <2>1, <2>2, <2>3, SameCall
<1> QED
  BY <1>3, <1>4

LEMMA ServersKeep ==
  ASSUME DetailsInv, NEW k \in Calls, Reach(k) \/ Miss(k)
  PROVE  DetailsInv'
<1>1. UNCHANGED <<connID, panel, detailVars>>
  BY DEF Reach, Miss
<1>2. \E x, y : \/ calls' = [calls EXCEPT ![k].answer = x, ![k].seen = y]
                \/ calls' = [calls EXCEPT ![k].answer = x]
  BY DEF Reach, Miss
<1>3. PICK x, y : \/ calls' = [calls EXCEPT ![k].answer = x, ![k].seen = y]
                  \/ calls' = [calls EXCEPT ![k].answer = x]
  BY <1>2
<1> DEFINE c == [calls[k] EXCEPT !.answer = x]
           d == [calls[k] EXCEPT !.answer = x, !.seen = y]
<1>4. /\ DOMAIN c = Fields /\ c.kind = calls[k].kind
      /\ c.conn = calls[k].conn /\ c.item = calls[k].item
      /\ DOMAIN d = Fields /\ d.kind = calls[k].kind
      /\ d.conn = calls[k].conn /\ d.item = calls[k].item
  BY CallShape
<1>5. calls' = [calls EXCEPT ![k] = c] \/ calls' = [calls EXCEPT ![k] = d]
  BY <1>3 DEF DetailsInv
<1> HIDE DEF c, d
<1> QED
  BY <1>1, <1>4, <1>5, SameCall

\* The button waits until the details before have come.
LEMMA AskingKeeps ==
  ASSUME DetailsInv, NEW k \in Calls, loadDetails(k)
  PROVE  DetailsInv'
<1>1. PICK i \in Shown : Ask(k, "details", i, 0, None) /\ name' = i
  BY DEF loadDetails
<1>2. PICK c : /\ calls' = [calls EXCEPT ![k] = c] /\ DOMAIN c = Fields
               /\ c.kind = "details" /\ c.conn = connID /\ c.item = i
  BY <1>1, AskIs
<1>3. "details" \in PolledOffers
  BY DEF loadDetails, Press
<1>4. panel = "guard" /\ ~detailLoading
  BY <1>3 DEF PolledOffers, GuardOffers, MonitorOffers, FirewallOffers, Idle
<1>5. \A j \in Calls : ~Details(j)
  BY <1>4 DEF DetailsInv
<1>6. \A j \in Calls : calls'[j] = IF j = k THEN c ELSE calls[j]
  BY <1>2 DEF DetailsInv
<1>7. detailLoading' = TRUE /\ UNCHANGED <<connID, panel>>
  BY DEF loadDetails
<1>8. DOMAIN calls' = Calls /\ \A j \in Calls : DOMAIN calls'[j] = Fields
  BY <1>2, <1>6 DEF DetailsInv
<1>9. \A j \in Calls : Details(j)' => j = k
  BY <1>5, <1>6 DEF Details
<1> QED
  BY <1>1, <1>2, <1>4, <1>6, <1>7, <1>8, <1>9 DEF DetailsInv, DetailsOfSelection

LEMMA DetailsComeKeep ==
  ASSUME DetailsInv, NEW k \in Calls, DetailsDone(k)
  PROVE  DetailsInv'
<1>1. Details(k) /\ Hangup(k) /\ UNCHANGED <<connID, panel, name>> /\ detailLoading' = FALSE
  BY DEF DetailsDone, Hears, Details
<1>2. \A j \in Calls : calls'[j] = IF j = k THEN NoCall ELSE calls[j]
  BY <1>1 DEF Hangup, DetailsInv
<1>3. \A j \in Calls : ~Details(j)'
  BY <1>1, <1>2, NoCallIs DEF DetailsInv, Details
<1>4. DOMAIN calls' = Calls /\ \A j \in Calls : DOMAIN calls'[j] = Fields
  BY <1>1, <1>2, NoCallIs DEF DetailsInv, Hangup
<1>5. DetailsOfSelection'
  BY <1>1 DEF DetailsDone, DetailsInv, DetailsOfSelection
<1> QED
  BY <1>1, <1>3, <1>4, <1>5 DEF DetailsInv

LEMMA DetailsInvStep == DetailsInv /\ [PolledNext]_polledVars => DetailsInv'
<1> SUFFICES ASSUME DetailsInv, [PolledNext]_polledVars PROVE DetailsInv'
  OBVIOUS
<1>1. CASE (\E c \in Conns : Elsewhere(c)) \/ UNCHANGED polledVars
  BY <1>1 DEF Elsewhere, polledVars, DetailsInv, DetailsOfSelection, detailVars, Details
<1> QED
  BY <1>1, LoadsKeep, AnswersKeep, QuestionsKeep, ServersKeep, AskingKeeps, DetailsComeKeep
     DEF PolledNext

\* The details shown are those of the selection, unless the last call for them failed.
THEOREM DetailsAreOfSelection == PolledSpec => []DetailsOfSelection
<1>1. DetailsInv => DetailsOfSelection
  BY DEF DetailsInv
<1> QED
  BY <1>1, DetailsAtFirst, DetailsInvStep, PTL DEF PolledSpec

-----------------------------------------------------------------------------
(* The home window                                                         *)

FlowFields == {"what", "step", "id", "key", "live", "snap", "pref"}
CloudFlows == {"link", "unlink", "pull"}

\* The form is busy for a flow that answers, or asks in a dialog that is open.
FormBusy ==
  "form" \in busy => \E f \in Flows :
    /\ flows[f].live /\ flows[f].what \in {"form", "test"}
    /\ flows[f].step = "choice" => f \in dialogs
CloudBusy ==
  "cloud" \in busy => \E f \in Flows : flows[f].live /\ flows[f].what \in CloudFlows
Open == \A f \in dialogs : flows[f].step \in {"confirm", "choice"}

\* What BusyIsAnswered says is kept because a dialog is left only by its flow, or with
\* the page, which takes the form along.
FlowsInv ==
  /\ DOMAIN flows = Flows /\ \A f \in Flows : DOMAIN flows[f] = FlowFields
  /\ dialogs \subseteq Flows
  /\ FormBusy /\ CloudBusy /\ Open

LEMMA NoFlowIs ==
  /\ DOMAIN NoFlow = FlowFields /\ NoFlow.what = "none" /\ NoFlow.step = "none"
  /\ ~NoFlow.live
BY DEF NoFlow, FlowFields

\* A flow goes on under its name, and leaves its dialog if it has left its question.
LEMMA FlowMoves ==
  ASSUME FlowsInv, NEW f \in Flows, NEW g, DOMAIN g = FlowFields,
         g.what = flows[f].what, g.live = flows[f].live,
         flows' = [flows EXCEPT ![f] = g], busy' = busy,
         \/ f \notin dialogs /\ dialogs' = dialogs /\ g.step # "choice"
         \/ dialogs' = dialogs \ {f} /\ g.step # "choice"
         \/ /\ f \notin dialogs /\ g.step = "choice"
            /\ dialogs' = IF g.live THEN dialogs \cup {f} ELSE dialogs
  PROVE  FlowsInv'
<1>1. \A j \in Flows : flows'[j] = IF j = f THEN g ELSE flows[j]
  BY DEF FlowsInv
<1>2. DOMAIN flows' = Flows /\ \A j \in Flows : DOMAIN flows'[j] = FlowFields
  BY <1>1 DEF FlowsInv
<1>3. dialogs' \subseteq Flows /\ \A j \in Flows : j # f /\ j \in dialogs => j \in dialogs'
  BY DEF FlowsInv
<1>4. Open'
  BY <1>1, <1>3 DEF FlowsInv, Open
<1>5. FormBusy'
  <2> SUFFICES ASSUME "form" \in busy'
               PROVE  \E j \in Flows : /\ flows'[j].live /\ flows'[j].what \in {"form", "test"}
                                       /\ flows'[j].step = "choice" => j \in dialogs'
    BY DEF FormBusy
  <2>1. PICK j \in Flows : /\ flows[j].live /\ flows[j].what \in {"form", "test"}
                           /\ flows[j].step = "choice" => j \in dialogs
    BY DEF FlowsInv, FormBusy
  <2>2. CASE j # f
    BY <1>1, <1>3, <2>1, <2>2
  <2>3. CASE j = f
    BY <1>1, <2>1, <2>3
  <2> QED
    BY <2>2, <2>3
<1>6. CloudBusy'
  BY <1>1 DEF FlowsInv, CloudBusy
<1> QED
  BY <1>2, <1>3, <1>4, <1>5, <1>6 DEF FlowsInv

\* A flow begins in the place of none.
LEMMA FlowStarts ==
  ASSUME FlowsInv, NEW f \in Flows, NEW g, Begins(f, g), DOMAIN g = FlowFields,
         g.step # "choice", g.live,
         \/ dialogs' = dialogs
         \/ dialogs' = dialogs \cup {f} /\ g.step = "confirm",
         \/ busy' = busy
         \/ busy' = busy \cup {"form"} /\ g.what \in {"form", "test"}
         \/ busy' = busy \cup {"cloud"} /\ g.what \in CloudFlows
  PROVE  FlowsInv'
<1>1. \A j \in Flows : flows'[j] = IF j = f THEN g ELSE flows[j]
  BY DEF FlowsInv, Begins
<1>2. flows[f] = NoFlow /\ f \notin dialogs
  BY NoFlowIs DEF Begins, FlowsInv, Open
<1>3. DOMAIN flows' = Flows /\ \A j \in Flows : DOMAIN flows'[j] = FlowFields
  BY <1>1 DEF FlowsInv, Begins
<1>4. dialogs' \subseteq Flows /\ dialogs \subseteq dialogs'
  BY DEF FlowsInv
<1>5. Open'
  BY <1>1, <1>2 DEF FlowsInv, Open
<1>6. FormBusy'
  BY <1>1, <1>2, <1>4, NoFlowIs DEF FlowsInv, FormBusy
<1>7. CloudBusy'
  BY <1>1, <1>2, NoFlowIs DEF FlowsInv, CloudBusy
<1> QED
  BY <1>3, <1>4, <1>5, <1>6, <1>7 DEF FlowsInv

\* A flow that ends leaves its dialog, and what it kept busy.
LEMMA FlowEnds ==
  ASSUME FlowsInv, NEW f \in Flows, Ended(f),
         dialogs' = dialogs \ {f} \/ (dialogs' = dialogs /\ f \notin dialogs)
  PROVE  FlowsInv'
<1>1. \A j \in Flows : flows'[j] = IF j = f THEN NoFlow ELSE flows[j]
  BY DEF FlowsInv, Ended
<1>2. DOMAIN flows' = Flows /\ \A j \in Flows : DOMAIN flows'[j] = FlowFields
  BY <1>1, NoFlowIs DEF FlowsInv, Ended
<1>3. dialogs' = dialogs \ {f}
  OBVIOUS
<1>4. busy' \subseteq busy
  BY DEF Ended
<1>5. flows[f].live /\ flows[f].what \in {"form", "test"} => "form" \notin busy'
  BY DEF Ended
<1>6. flows[f].live /\ flows[f].what \in CloudFlows => "cloud" \notin busy'
  BY DEF Ended, CloudFlows
<1>7. FormBusy'
  BY <1>1, <1>3, <1>4, <1>5 DEF FlowsInv, FormBusy
<1>8. CloudBusy'
  BY <1>1, <1>4, <1>6 DEF FlowsInv, CloudBusy
<1>9. Open' /\ dialogs' \subseteq Flows
  BY <1>1, <1>3 DEF FlowsInv, Open
<1> QED
  BY <1>2, <1>7, <1>8, <1>9 DEF FlowsInv

LEMMA FlowsKept ==
  ASSUME FlowsInv, UNCHANGED <<flows, busy, dialogs>>
  PROVE  FlowsInv'
BY DEF FlowsInv, FormBusy, CloudBusy, Open

LEMMA GoesIs ==
  ASSUME FlowsInv, NEW f \in Flows, NEW step, Goes(f, step)
  PROVE  \E g : /\ flows' = [flows EXCEPT ![f] = g] /\ DOMAIN g = FlowFields
                /\ g.what = flows[f].what /\ g.live = flows[f].live /\ g.step = step
<1> DEFINE g == [flows[f] EXCEPT !.step = step]
<1>1. /\ DOMAIN g = FlowFields /\ g.what = flows[f].what /\ g.live = flows[f].live
      /\ g.step = step
  BY DEF FlowsInv, FlowFields
<1>2. flows' = [flows EXCEPT ![f] = g]
  BY DEF Goes, FlowsInv
<1> HIDE DEF g
<1> QED
  BY <1>1, <1>2

\* A flow that no dialog is open for goes on to a place that has none.
LEMMA GoesOn ==
  ASSUME FlowsInv, NEW f \in Flows, NEW step, Goes(f, step), step # "choice",
         flows[f].step \notin {"confirm", "choice"}, UNCHANGED <<busy, dialogs>>
  PROVE  FlowsInv'
<1>1. f \notin dialogs
  BY DEF FlowsInv, Open
<1> QED
  BY <1>1, GoesIs, FlowMoves

LEMMA EndsHere ==
  ASSUME FlowsInv, NEW f \in Flows, Ended(f),
         flows[f].step \notin {"confirm", "choice"}, UNCHANGED dialogs
  PROVE  FlowsInv'
BY FlowEnds DEF FlowsInv, Open

-----------------------------------------------------------------------------

LEMMA FlowsAtFirst == HomeInit => FlowsInv
<1> SUFFICES ASSUME HomeInit PROVE FlowsInv
  OBVIOUS
<1>1. PICK f \in Flows :
        flows = [g \in Flows |-> IF g = f THEN Flow("refresh", "reload") ELSE NoFlow]
  BY DEF HomeInit
<1>2. DOMAIN Flow("refresh", "reload") = FlowFields
  BY DEF Flow, NoFlow, FlowFields
<1>3. DOMAIN flows = Flows /\ \A g \in Flows : DOMAIN flows[g] = FlowFields
  BY <1>1, <1>2, NoFlowIs
<1> QED
  BY <1>3 DEF HomeInit, FlowsInv, FormBusy, CloudBusy, Open

LEMMA FlowIs ==
  ASSUME NEW what, NEW step
  PROVE  LET g == Flow(what, step) IN
         /\ DOMAIN g = FlowFields /\ g.what = what /\ g.step = step /\ g.live
BY DEF Flow, NoFlow, FlowFields

\* What a click on a row waits for.
LEMMA RowsBegin ==
  ASSUME FlowsInv, NEW f \in Flows,
         NEW what \in {"quick", "connect", "save", "disconnect", "delete", "close"},
         NEW i \in Ids, RowClick(f, what, i)
  PROVE  FlowsInv'
<1> DEFINE step == IF what \in DOMAIN PanelSteps THEN PanelSteps[what] ELSE SidebarSteps[what]
           g == [Flow(what, step) EXCEPT !.id = i, !.key = shown[i].key]
<1>1. step # "choice"
  BY DEF PanelSteps, SidebarSteps
<1>2. /\ Begins(f, g) /\ busy' = busy
      /\ dialogs' = IF step = "confirm" THEN dialogs \cup {f} ELSE dialogs
  BY DEF RowClick, Dialog
<1> HIDE DEF step
<1>3. DOMAIN g = FlowFields /\ g.step = step /\ g.live
  BY DEF Flow, NoFlow, FlowFields
<1> HIDE DEF g
<1> QED
  BY <1>1, <1>2, <1>3, FlowStarts

LEMMA OthersBegin ==
  ASSUME FlowsInv, NEW f \in Flows,
         \/ FormClick(f) \/ SettingClick(f) \/ ImportClick(f) \/ RefreshClick(f)
         \/ CloudSectionClick(f) \/ CloudPageClick(f)
  PROVE  FlowsInv'
<1>1. CASE FormClick(f)
  <2>1. CASE Begins(f, Flow("test", "call"))
    BY <1>1, <2>1, FlowIs, FlowStarts DEF FormClick
  <2>2. ASSUME NEW k, Begins(f, [Flow("form", "groups") EXCEPT !.key = k])
        PROVE  FlowsInv'
    <3> DEFINE g == [Flow("form", "groups") EXCEPT !.key = k]
    <3>1. DOMAIN g = FlowFields /\ g.what = "form" /\ g.step = "groups" /\ g.live
      BY DEF Flow, NoFlow, FlowFields
    <3>2. Begins(f, g)
      BY <2>2
    <3> HIDE DEF g
    <3> QED
      BY <1>1, <3>1, <3>2, FlowStarts DEF FormClick
  <2> QED
    BY <1>1, <2>1, <2>2 DEF FormClick
<1>2. ASSUME NEW what, NEW step, NEW b, Begins(f, [Flow(what, step) EXCEPT !.pref = b]),
             step # "choice", busy' = busy,
             dialogs' = dialogs \/ (dialogs' = dialogs \cup {f} /\ step = "confirm")
      PROVE  FlowsInv'
  <2> DEFINE g == [Flow(what, step) EXCEPT !.pref = b]
  <2>1. DOMAIN g = FlowFields /\ g.what = what /\ g.step = step /\ g.live
    BY DEF Flow, NoFlow, FlowFields
  <2>2. Begins(f, g)
    BY <1>2
  <2> HIDE DEF g
  <2> QED
    BY <1>2, <2>1, <2>2, FlowStarts
<1>3. CASE SettingClick(f)
  <2>1. PICK b \in BOOLEAN : Begins(f, [Flow("setting", "call") EXCEPT !.pref = b])
    BY <1>3 DEF SettingClick
  <2>2. UNCHANGED <<busy, dialogs>>
    BY <1>3 DEF SettingClick, pageVars
  <2> QED
    BY <1>2, <2>1, <2>2
<1>4. CASE ImportClick(f)
  BY <1>2, <1>4 DEF ImportClick, Dialog
<1>5. CASE RefreshClick(f)
  BY <1>5, FlowIs, FlowStarts DEF RefreshClick, pageVars
<1>6. CASE CloudSectionClick(f)
  <2>1. PICK what \in CloudOffers :
          /\ Begins(f, Flow(what, IF what = "unlink" THEN "link" ELSE "call"))
          /\ busy' = IF what = "cloud" THEN busy ELSE busy \cup {"cloud"}
    BY <1>6 DEF CloudSectionClick, CloudSectionOffers
  <2>2. what = "cloud" \/ what \in CloudFlows
    BY DEF CloudOffers, CloudFlows
  <2>3. dialogs' = dialogs
    BY <1>6 DEF CloudSectionClick
  <2> QED
    BY <2>1, <2>2, <2>3, FlowIs, FlowStarts
<1>7. CASE CloudPageClick(f)
  <2>1. PICK what : Begins(f, Flow(what, IF what = "link" THEN "call" ELSE "link"))
    BY <1>7 DEF CloudPageClick
  <2> QED
    BY <1>7, <2>1, FlowIs, FlowStarts DEF CloudPageClick, pageVars
<1> QED
  BY <1>1, <1>3, <1>4, <1>5, <1>6, <1>7

\* An answer takes the dialog away and the flow on.
LEMMA AnswersGoOn ==
  ASSUME FlowsInv, NEW f \in Flows, Answers(f)
  PROVE  FlowsInv'
<1>1. dialogs' = dialogs \ {f}
  BY DEF Answers
<1>2. CASE Goes(f, "call") /\ UNCHANGED busy
  BY <1>1, <1>2, GoesIs, FlowMoves
<1>3. CASE Goes(f, "create") /\ UNCHANGED busy
  BY <1>1, <1>3, GoesIs, FlowMoves
<1>4. CASE Ended(f)
  BY <1>1, <1>4, FlowEnds
<1> QED
  BY <1>2, <1>3, <1>4 DEF Answers

LEMMA FlowsGoOn ==
  ASSUME FlowsInv, NEW f \in Flows, FlowGoesOn(f) \/ ConnectFails(f)
  PROVE  FlowsInv'
<1>1. CASE GroupsAnswered(f)
  <2>1. f \notin dialogs /\ busy' = busy
    BY <1>1 DEF GroupsAnswered, FlowsInv, Open
  <2>2. CASE Goes(f, "create") /\ UNCHANGED dialogs
    BY <1>1, <2>1, <2>2, GoesOn DEF GroupsAnswered
  <2>3. CASE /\ Goes(f, "choice")
             /\ dialogs' = IF flows[f].live THEN dialogs \cup {f} ELSE dialogs
    BY <2>1, <2>3, GoesIs, FlowMoves
  <2> QED
    BY <1>1, <2>2, <2>3 DEF GroupsAnswered
<1>2. CASE Creates(f)
  <2>1. PICK i \in Ids : flows' = [flows EXCEPT ![f].step = "connecting", ![f].id = i]
    BY <1>2 DEF Creates
  <2> DEFINE g == [flows[f] EXCEPT !.step = "connecting", !.id = i]
  <2>2. /\ DOMAIN g = FlowFields /\ g.what = flows[f].what /\ g.live = flows[f].live
        /\ g.step = "connecting"
    BY DEF FlowsInv, FlowFields
  <2>3. flows' = [flows EXCEPT ![f] = g]
    BY <2>1 DEF FlowsInv
  <2> HIDE DEF g
  <2>4. f \notin dialogs /\ UNCHANGED <<busy, dialogs>>
    BY <1>2 DEF Creates, FlowsInv, Open, pageVars
  <2> QED
    BY <2>2, <2>3, <2>4, FlowMoves
<1>3. CASE Connects(f)
  BY <1>3, GoesOn DEF Connects, pageVars
<1>4. CASE ConnectFails(f)
  BY <1>4, EndsHere DEF ConnectFails
<1>5. CASE Called(f)
  <2>1. \/ Goes(f, "hung") \/ Goes(f, "reload")
        \/ Ended(f)
    BY <1>5 DEF Called
  <2>2. flows[f].step = "call" /\ UNCHANGED dialogs /\ (UNCHANGED busy \/ Ended(f))
    BY <1>5 DEF Called
  <2> QED
    BY <2>1, <2>2, GoesOn, EndsHere
<1>6. CASE CallFails(f)
  BY <1>6, EndsHere DEF CallFails
<1>7. CASE ReloadReads(f)
  <2> DEFINE g == [flows[f] EXCEPT !.step = "got", !.snap = Snapshot, !.pref = prefs]
  <2>2. /\ DOMAIN g = FlowFields /\ g.what = flows[f].what /\ g.live = flows[f].live
        /\ g.step = "got"
    BY DEF FlowsInv, FlowFields
  <2>3. flows' = [flows EXCEPT ![f] = g]
    BY <1>7 DEF ReloadReads, FlowsInv
  <2> HIDE DEF g
  <2>4. f \notin dialogs /\ UNCHANGED <<busy, dialogs>>
    BY <1>7 DEF ReloadReads, FlowsInv, Open, pageVars
  <2> QED
    BY <2>2, <2>3, <2>4, FlowMoves
<1>8. CASE Reloaded(f)
  BY <1>8, GoesOn, EndsHere DEF Reloaded
<1>9. CASE OpensOrLinks(f)
  BY <1>9, EndsHere DEF OpensOrLinks
<1> QED
  BY <1>1, <1>2, <1>3, <1>4, <1>5, <1>6, <1>7, <1>8, <1>9, AnswersGoOn DEF FlowGoesOn

\* The page that is left takes its busy flags along.
LEMMA PageLeft ==
  ASSUME FlowsInv, changeView
  PROVE  FlowsInv'
<1>1. busy' = {} /\ dialogs' = {}
  BY DEF changeView
<1>2. /\ DOMAIN flows' = Flows
      /\ \A f \in Flows : DOMAIN flows'[f] = FlowFields
  BY DEF changeView, FlowsInv
<1> QED
  BY <1>1, <1>2 DEF FlowsInv, FormBusy, CloudBusy, Open

LEMMA FlowsInvStep == FlowsInv /\ [HomeNext]_homeVars => FlowsInv'
<1> SUFFICES ASSUME FlowsInv, [HomeNext]_homeVars PROVE FlowsInv'
  OBVIOUS
<1>1. CASE \/ Updates \/ BlockedElsewhere \/ UNCHANGED homeVars
           \/ \E i \in Ids : ClosedElsewhere(i)
  BY <1>1, FlowsKept
     DEF Updates, Broadcast, ConnectionsUpdated, ClosedElsewhere, BlockedElsewhere, homeVars,
         pageVars
<1>2. ASSUME NEW f \in Flows, FlowBegins(f) PROVE FlowsInv'
  BY <1>2, RowsBegin, OthersBegin DEF FlowBegins
<1> QED
  BY <1>1, <1>2, FlowsGoOn, PageLeft DEF HomeNext

\* Nothing stays disabled for nobody, whatever page or dialog was left in between.
THEOREM BusyHasAnswer == HomeSpec => []BusyIsAnswered
<1>1. FlowsInv => BusyIsAnswered
  BY DEF FlowsInv, FormBusy, CloudBusy, Open, CloudFlows, BusyIsAnswered
<1> QED
  BY <1>1, FlowsAtFirst, FlowsInvStep, PTL DEF HomeSpec

-----------------------------------------------------------------------------
(* The storage                                                             *)

\* The records of a StorageManager.
Records == [Ids -> Entries \cup {Missing}]

-----------------------------------------------------------------------------
(* The keys that are marked as saved                                       *)

\* A key is marked as saved by a record that is there and has the mark.
LEMMA KeyOfRecord ==
  ASSUME NEW es
  PROVE  \A k : k \in SavedKeys(es) <=>
           \E i \in Ids : es[i] # Missing /\ es[i].saved /\ es[i].key = k
BY DEF SavedKeys, Stored

\* They are keys.
LEMMA SavedKeysAreKeys ==
  ASSUME NEW es \in Records
  PROVE  SavedKeys(es) \subseteq Keys
<1> SUFFICES ASSUME NEW k \in SavedKeys(es) PROVE k \in Keys
  OBVIOUS
<1>1. PICK i \in Ids : es[i] # Missing /\ es[i].key = k
  BY KeyOfRecord
<1>2. es[i] \in Entries
  BY <1>1 DEF Records
<1> QED
  BY <1>1, <1>2 DEF Entries

\* A record that loses its mark or goes adds no key to them.
LEMMA FewerAreSaved ==
  ASSUME NEW es \in Records, NEW i \in Ids, NEW e,
         e = Missing \/ e.saved = FALSE
  PROVE  SavedKeys([es EXCEPT ![i] = e]) \subseteq SavedKeys(es)
<1> DEFINE es2 == [es EXCEPT ![i] = e]
<1> HIDE DEF es2
<1> SUFFICES ASSUME NEW k \in SavedKeys(es2) PROVE k \in SavedKeys(es)
  BY DEF es2
<1>1. PICK j \in Ids : es2[j] # Missing /\ es2[j].saved /\ es2[j].key = k
  BY KeyOfRecord
<1>2. j # i /\ es2[j] = es[j]
  BY <1>1 DEF Records, es2
<1> QED
  BY <1>1, <1>2, KeyOfRecord

\* Nor does one that had no mark take any away.
LEMMA SameAreSaved ==
  ASSUME NEW es \in Records, NEW i \in Ids, NEW e,
         e = Missing \/ e.saved = FALSE,
         es[i] = Missing \/ es[i].saved = FALSE
  PROVE  SavedKeys([es EXCEPT ![i] = e]) = SavedKeys(es)
<1> DEFINE es2 == [es EXCEPT ![i] = e]
<1> HIDE DEF es2
<1>1. \A j \in Ids \ {i} : es2[j] = es[j]
  BY DEF Records, es2
<1>2. SavedKeys(es) \subseteq SavedKeys(es2)
  <2> SUFFICES ASSUME NEW k \in SavedKeys(es) PROVE k \in SavedKeys(es2)
    OBVIOUS
  <2>1. PICK j \in Ids : es[j] # Missing /\ es[j].saved /\ es[j].key = k
    BY KeyOfRecord
  <2> QED
    BY <1>1, <2>1, KeyOfRecord
<1> QED
  BY <1>2, FewerAreSaved DEF es2

-----------------------------------------------------------------------------
(* The shape of the state                                                  *)

LEMMA SaveTyped ==
  ASSUME StorageTypeOK, NEW es \in Records, SavePermanent(es)
  PROVE  StorageTypeOK'
BY SavedKeysAreKeys DEF SavePermanent, StorageTypeOK, Records

LEMMA TypedStep == StorageTypeOK /\ [StorageNext]_storageVars => StorageTypeOK'
<1> SUFFICES ASSUME StorageTypeOK, [StorageNext]_storageVars PROVE StorageTypeOK'
  OBVIOUS
<1>t. entries \in Records
  BY DEF StorageTypeOK, Records
<1>1. ASSUME NEW i \in Ids, NEW k \in Keys, AddConnection(i, k) PROVE StorageTypeOK'
  BY <1>1 DEF AddConnection, StorageTypeOK, Unsaved, Entries
<1>2. ASSUME NEW i \in Ids, NEW k \in Keys, UpdateConnection(i, k) PROVE StorageTypeOK'
  <2>1. [entries EXCEPT ![i].key = k] \in Records
    BY <1>2, <1>t DEF UpdateConnection, Fresh, Records, Entries
  <2> QED
    BY <1>2, <2>1, SaveTyped DEF UpdateConnection, StorageTypeOK, Records
<1>3. ASSUME NEW i \in Ids, MarkAsSaved(i) PROVE StorageTypeOK'
  <2>1. [entries EXCEPT ![i].saved = TRUE] \in Records
    BY <1>3, <1>t DEF MarkAsSaved, Fresh, Records, Entries
  <2> QED
    BY <1>3, <2>1, SaveTyped DEF MarkAsSaved
<1>4. ASSUME NEW i \in Ids, MarkAsUnsaved(i) PROVE StorageTypeOK'
  BY <1>4 DEF MarkAsUnsaved, Fresh, StorageTypeOK, Entries
<1>5. ASSUME NEW i \in Ids, DeleteConnection(i) PROVE StorageTypeOK'
  <2>1. entries[i] \in Entries
    BY <1>5 DEF DeleteConnection, Fresh, StorageTypeOK
  <2>2. entries[i].key \in Keys
    BY <2>1 DEF Entries
  <2> QED
    BY <1>5, <2>2 DEF DeleteConnection, StorageTypeOK
<1>6. ASSUME NEW i \in Ids, DeleteFromCache(i) PROVE StorageTypeOK'
  BY <1>6 DEF DeleteFromCache, StorageTypeOK
<1>7. ASSUME NEW k \in Keys, SyncImportConnection(k) PROVE StorageTypeOK'
  <2>1. PICK i \in Ids : SavePermanent([entries EXCEPT ![i] = [key |-> k, saved |-> TRUE]])
    BY <1>7 DEF SyncImportConnection
  <2>2. [entries EXCEPT ![i] = [key |-> k, saved |-> TRUE]] \in Records
    BY <1>t DEF Records, Entries
  <2> QED
    BY <2>1, <2>2, SaveTyped
<1>8. CASE StartAgain
  BY <1>8 DEF StartAgain, StorageTypeOK
<1>9. CASE UNCHANGED storageVars
  BY <1>9 DEF storageVars, StorageTypeOK
<1> QED
  BY <1>1, <1>2, <1>3, <1>4, <1>5, <1>6, <1>7, <1>8, <1>9 DEF StorageNext

\* The state of the storage keeps its shape.
THEOREM StorageTyped == StorageSpec => []StorageTypeOK
<1>1. StorageInit => StorageTypeOK
  BY DEF StorageInit, StorageTypeOK
<1> QED
  BY <1>1, TypedStep, PTL DEF StorageSpec

-----------------------------------------------------------------------------
(* The refinement                                                          *)

LEMMA SaveIsSave ==
  ASSUME NEW es \in Records, SavePermanent(es)
  PROVE  Promise!RecordsNext
<1>1. SavedKeys(es) \in SUBSET Keys
  BY SavedKeysAreKeys
<1>2. SavedKeys(entries)' = SavedKeys(es)
  BY DEF SavePermanent, SavedKeys, Stored
<1>3. Promise!Save(SavedKeys(es))
  BY <1>2 DEF SavePermanent, Promise!Save
<1> QED
  BY <1>1, <1>3 DEF Promise!RecordsNext

LEMMA SameIsStutter ==
  ASSUME SavedKeys(entries)' = SavedKeys(entries), UNCHANGED <<file, excused>>
  PROVE  UNCHANGED Promise!recordVars
BY DEF Promise!recordVars

LEMMA StepMapsToStep ==
  StorageTypeOK /\ [StorageNext]_storageVars => [Promise!RecordsNext]_(Promise!recordVars)
<1> SUFFICES ASSUME StorageTypeOK, [StorageNext]_storageVars
             PROVE  Promise!RecordsNext \/ UNCHANGED Promise!recordVars
  OBVIOUS
<1>t. entries \in Records
  BY DEF StorageTypeOK, Records
<1>k. \A es : entries' = es => SavedKeys(entries)' = SavedKeys(es)
  BY DEF SavedKeys, Stored
<1>1. ASSUME NEW i \in Ids, NEW k \in Keys, AddConnection(i, k)
      PROVE  UNCHANGED Promise!recordVars
  <2>1. SavedKeys([entries EXCEPT ![i] = Unsaved(k)]) = SavedKeys(entries)
    BY <1>1, <1>t, SameAreSaved DEF AddConnection, Fresh, Unsaved
  <2> QED
    BY <1>1, <1>k, <2>1, SameIsStutter DEF AddConnection
<1>2. ASSUME NEW i \in Ids, NEW k \in Keys, UpdateConnection(i, k)
      PROVE  Promise!RecordsNext \/ UNCHANGED Promise!recordVars
  <2>d. DEFINE es == [entries EXCEPT ![i].key = k]
  <2>1. es \in Records
    BY <1>2, <1>t DEF UpdateConnection, Fresh, Records, Entries
  <2>2. CASE entries[i].saved
    BY <1>2, <2>1, <2>2, SaveIsSave DEF UpdateConnection
  <2>3. CASE ~entries[i].saved
    <3>1. entries[i] \in Entries
      BY <1>2, <1>t DEF UpdateConnection, Fresh, Records
    <3>2. [entries[i] EXCEPT !.key = k].saved = FALSE /\ entries[i].saved = FALSE
      BY <3>1, <2>3 DEF Entries
    <3>3. es = [entries EXCEPT ![i] = [entries[i] EXCEPT !.key = k]]
      BY <1>t DEF Records
    <3>4. SavedKeys(es) = SavedKeys(entries)
      BY <3>2, <3>3, <1>t, SameAreSaved
    <3> QED
      BY <1>2, <1>k, <2>3, <3>4, SameIsStutter DEF UpdateConnection
  <2> QED
    BY <2>2, <2>3
<1>3. ASSUME NEW i \in Ids, MarkAsSaved(i) PROVE Promise!RecordsNext
  <2>1. [entries EXCEPT ![i].saved = TRUE] \in Records
    BY <1>3, <1>t DEF MarkAsSaved, Fresh, Records, Entries
  <2> QED
    BY <1>3, <2>1, SaveIsSave DEF MarkAsSaved
<1>4. ASSUME NEW i \in Ids, MarkAsUnsaved(i) PROVE Promise!RecordsNext
  <2>1. [entries EXCEPT ![i].saved = FALSE] = [entries EXCEPT ![i] = [entries[i] EXCEPT !.saved = FALSE]]
    BY <1>t DEF Records
  <2>2. entries[i] \in Entries
    BY <1>4, <1>t DEF MarkAsUnsaved, Fresh, Records
  <2>3. SavedKeys([entries EXCEPT ![i].saved = FALSE]) \subseteq SavedKeys(entries)
    BY <2>1, <2>2, <1>t, FewerAreSaved DEF Entries
  <2>4. Promise!Hide
    BY <1>4, <1>k, <2>3 DEF MarkAsUnsaved, Promise!Hide
  <2> QED
    BY <2>4 DEF Promise!RecordsNext
<1>5. ASSUME NEW i \in Ids, DeleteConnection(i)
      PROVE  Promise!RecordsNext \/ UNCHANGED Promise!recordVars
  <2>1. entries[i] \in Entries
    BY <1>5, <1>t DEF DeleteConnection, Fresh, Records
  <2>2. CASE entries[i].saved
    <3>1. SavedKeys(entries)' \subseteq SavedKeys(entries)
      BY <1>5, <1>t, <1>k, FewerAreSaved DEF DeleteConnection
    <3>2. Promise!Forget(entries[i].key)
      BY <1>5, <2>2, <3>1 DEF DeleteConnection, Promise!Forget
    <3> QED
      BY <2>1, <3>2 DEF Promise!RecordsNext, Entries
  <2>3. CASE ~entries[i].saved
    <3>1. SavedKeys(entries)' = SavedKeys(entries)
      BY <1>5, <1>t, <1>k, <2>1, <2>3, SameAreSaved DEF DeleteConnection, Entries
    <3> QED
      BY <1>5, <2>3, <3>1, SameIsStutter DEF DeleteConnection
  <2> QED
    BY <2>2, <2>3
<1>6. ASSUME NEW i \in Ids, DeleteFromCache(i) PROVE UNCHANGED Promise!recordVars
  <2>1. entries[i] \in Entries
    BY <1>6, <1>t DEF DeleteFromCache, Fresh, Records
  <2>2. SavedKeys(entries)' = SavedKeys(entries)
    BY <1>6, <1>t, <1>k, <2>1, SameAreSaved DEF DeleteFromCache, Entries
  <2> QED
    BY <1>6, <2>2, SameIsStutter DEF DeleteFromCache
<1>7. ASSUME NEW k \in Keys, SyncImportConnection(k) PROVE Promise!RecordsNext
  <2>1. PICK i \in Ids : SavePermanent([entries EXCEPT ![i] = [key |-> k, saved |-> TRUE]])
    BY <1>7 DEF SyncImportConnection
  <2>2. [entries EXCEPT ![i] = [key |-> k, saved |-> TRUE]] \in Records
    BY <1>t DEF Records, Entries
  <2> QED
    BY <2>1, <2>2, SaveIsSave
<1>8. ASSUME StartAgain PROVE Promise!RecordsNext
  <2>1. SavedKeys(entries)' = file'
    BY <1>8, <1>k DEF StartAgain, LoadFromPermanent
  <2> QED
    BY <1>8, <2>1 DEF StartAgain, Promise!Begin, Promise!RecordsNext
<1>9. CASE UNCHANGED storageVars
  BY <1>9, <1>k, SameIsStutter DEF storageVars
<1> QED
  BY <1>1, <1>2, <1>3, <1>4, <1>5, <1>6, <1>7, <1>8, <1>9 DEF StorageNext

\* The storage keeps what Records promises: no operation loses a saved connection of the
\* file but a deletion, and a start brings back what the file has.
THEOREM StorageImplementsRecords == StorageSpec => KeepsRecords
<1>1. StorageInit => Promise!RecordsInit
  BY DEF StorageInit, LoadFromPermanent, Promise!RecordsInit
<1> QED
  BY <1>1, StepMapsToStep, StorageTyped, PTL
    DEF StorageSpec, KeepsRecords, Promise!RecordsSpec

-----------------------------------------------------------------------------
(* What Records promises                                                   *)

LEMMA ShownStaysKept ==
  Promise!ShownIsKept /\ [Promise!RecordsNext]_(Promise!recordVars) => Promise!ShownIsKept'
<1> SUFFICES ASSUME Promise!ShownIsKept, [Promise!RecordsNext]_(Promise!recordVars)
             PROVE  Promise!ShownIsKept'
  OBVIOUS
<1>1. ASSUME NEW K \in SUBSET Keys, Promise!Save(K) PROVE Promise!ShownIsKept'
  BY <1>1 DEF Promise!Save, Promise!ShownIsKept
<1>2. ASSUME NEW k \in Keys, Promise!Forget(k) PROVE Promise!ShownIsKept'
  BY <1>2 DEF Promise!Forget, Promise!ShownIsKept
<1>3. CASE Promise!Hide
  BY <1>3 DEF Promise!Hide, Promise!ShownIsKept
<1>4. CASE Promise!Begin
  BY <1>4 DEF Promise!Begin, Promise!ShownIsKept
<1>5. CASE UNCHANGED Promise!recordVars
  BY <1>5 DEF Promise!recordVars, Promise!ShownIsKept
<1> QED
  BY <1>1, <1>2, <1>3, <1>4, <1>5 DEF Promise!RecordsNext

\* What is marked as saved is in the permanent file, unless a deletion took its key or a
\* write failed since the start: it is what ShownIsKept says of the records.
THEOREM MarkedIsKept == StorageSpec => []SavedAreKept
<1>1. Promise!RecordsInit => Promise!ShownIsKept
  BY DEF Promise!RecordsInit, Promise!ShownIsKept
<1>2. Promise!RecordsSpec => []Promise!ShownIsKept
  BY <1>1, ShownStaysKept, PTL DEF Promise!RecordsSpec
<1>3. Promise!ShownIsKept <=> SavedAreKept
  BY DEF Promise!ShownIsKept, SavedAreKept
<1> QED
  BY <1>2, <1>3, StorageImplementsRecords, PTL DEF KeepsRecords
=============================================================================

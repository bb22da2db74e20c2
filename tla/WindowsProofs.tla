---------------------------- MODULE WindowsProofs ---------------------------
(***************************************************************************)
(* Safety of the native windows for every number of groups, windows and    *)
(* threads: references that are true, a home window that comes back and a  *)
(* final place that is saved.                                              *)
(***************************************************************************)
EXTENDS Windows, FiniteSetTheorems, TLAPS

Ops == {Nil, "open", "tick", "close", "hide", "shut", "clear"}
Steps == {Nil, "look", "make", "keep", "place", "marshal", "write", "remove", "save", "drop", "group", "hide"}
Places == Spots \cup {Nil}
HomeStates == {"shown", "hidden", "closed"}
Window == [of : GroupIDs, place : Places, open : BOOLEAN, kept : BOOLEAN]

ThreadType ==
  [op : Ops, at : Steps, of : GroupIDs \cup {Home, Nil}, window : Nat, place : Places,
   data : [GroupIDs -> Places] \cup {Nil}]

\* Which steps are of which operation; a step that saves has what it saves.
WellPlaced(r) ==
  /\ r.op = Nil <=> r.at = Nil
  /\ r.op = "open" <=> r.at \in {"look", "make", "keep"}
  /\ r.op = "close" => r.at \in {"save", "place", "marshal", "write", "drop", "group"}
  /\ r.at \in {"save", "drop", "group"} => r.op = "close"
  /\ r.op \in {"open", "close"} => r.of \in GroupIDs
  /\ r.at = "write" => r.data \in [GroupIDs -> Places]

WindowsTyped ==
  /\ windows \in [GroupIDs -> Nat] /\ \A g \in GroupIDs : windows[g] # 0 => windows[g] \in Made
  /\ \E n \in 0 .. Opens : native \in [1 .. n -> Window]
  /\ tickers \in [GroupIDs -> Nat]
  /\ threads \in [Threads -> ThreadType]
  /\ positions \in [GroupIDs -> Places] /\ file \in [GroupIDs -> Places]
  /\ final \in [GroupIDs -> Places]
  /\ home \in HomeStates /\ due \in BOOLEAN /\ overlapped \in BOOLEAN
  /\ crossed \subseteq GroupIDs
  /\ \A t \in Threads : WellPlaced(threads[t]) /\ (Stage(t, "keep") => threads[t].window \in Made)

-----------------------------------------------------------------------------
\* A handler that still has the reference to drop.
Closing(t, g) == Runs(t, "close", g) /\ ~Stage(t, "group")

\* A reference is to a window that is there, or goes with a handler.
Referred ==
  \A g \in GroupIDs : windows[g] # 0 =>
    /\ native[windows[g]].of = g /\ native[windows[g]].kept
    /\ native[windows[g]].open \/ \E t \in Threads : Closing(t, g)

\* A window that is made is kept by the call that made it.
Keeping(t, w) == Stage(t, "keep") /\ threads[t].window = w

Kept ==
  /\ \A t \in Threads : Stage(t, "keep") =>
       /\ native[threads[t].window].of = threads[t].of
       /\ native[threads[t].window].open /\ ~native[threads[t].window].kept
  /\ \A t, u \in Threads : Stage(t, "keep") /\ Stage(u, "keep") /\ threads[t].window = threads[u].window => t = u
  /\ \A w \in Made : native[w].open /\ ~native[w].kept => \E t \in Threads : Keeping(t, w)

\* A group with one open at a time has one window at a time.
Alone(g) ==
  /\ \A t, u \in Threads : Runs(t, "open", g) /\ Runs(u, "open", g) => t = u
  /\ \A t \in Threads : Runs(t, "open", g) /\ ~Stage(t, "look") => windows[g] = 0
  /\ \A w \in Made : native[w].open /\ native[w].kept /\ native[w].of = g => windows[g] = w
  /\ \A t \in Threads : Closing(t, g) => windows[g] # 0 /\ ~native[windows[g]].open
  /\ \A t, u \in Threads : Closing(t, g) /\ Closing(u, g) => t = u

RefInv == Referred /\ Kept /\ \A g \in GroupIDs \ crossed : Alone(g)

-----------------------------------------------------------------------------
\* Once the last window is closed a handler has yet to come that shows the home window, or
\* it is not hidden.
HomeInv ==
  due => /\ Open = {}
         /\ AutoShowHome => home # "hidden" \/ \E t \in Threads : threads[t].op = "close"

-----------------------------------------------------------------------------
\* The final place of a group is on its way to the file, or there to stay.
Found(g) ==
  \E t \in Threads : Runs(t, "close", g) /\ Stage(t, "save") /\ native[windows[g]].place = final[g]
Carried(g) ==
  \E t \in Threads : Runs(t, "close", g) /\ Stage(t, "place") /\ threads[t].place = final[g]
Written(g) ==
  /\ positions[g] = final[g]
  /\ \/ file[g] = final[g]
     \/ \E t \in Threads : Runs(t, "close", g) /\ threads[t].at \in {"marshal", "write"}
  /\ \A u \in Threads : /\ Stage(u, "write") => threads[u].data[g] = final[g]
                        /\ threads[u].of = g => threads[u].at \notin {"save", "place"}

OneSaver == \A t, u \in Threads : Saves(t) /\ Saves(u) => t = u

\* No saves overlapped, and no opens of one group.
Calm == RememberPosition /\ crossed = {} /\ ~overlapped

Settled(g) ==
  final[g] # Nil => /\ \A w \in Open : native[w].of # g
                    /\ Found(g) \/ Carried(g) \/ Written(g)

FinalInv == Calm => OneSaver /\ \A g \in GroupIDs : Settled(g)

-----------------------------------------------------------------------------
\* Windows are numbered in the order in which they were made.
LEMMA NativeOf ==
  ASSUME WindowsTyped
  PROVE  \E n \in Nat : /\ n = Cardinality(Made) /\ Made = 1 .. n /\ n <= Opens
                        /\ native \in [1 .. n -> Window]
  <1>1. PICK n \in 0 .. Opens : native \in [1 .. n -> Window]
    BY DEF WindowsTyped
  <1>2. n \in Nat /\ n <= Opens /\ Made = 1 .. n
    BY <1>1, WindowsAssumption DEF Made
  <1>3. Cardinality(1 .. n) = n
    BY <1>2, FS_Interval
  <1>4. QED
    BY <1>1, <1>2, <1>3

\* The parts of the type invariant that the proofs keep asking for.
LEMMA TypesOf ==
  ASSUME WindowsTyped
  PROVE  /\ threads \in [Threads -> ThreadType]
         /\ \A t \in Threads : threads[t] \in ThreadType /\ WellPlaced(threads[t])
         /\ windows \in [GroupIDs -> Nat] /\ tickers \in [GroupIDs -> Nat]
         /\ positions \in [GroupIDs -> Places] /\ file \in [GroupIDs -> Places]
         /\ final \in [GroupIDs -> Places]
         /\ \A w \in Made : native[w] \in Window
         /\ \A g \in GroupIDs : windows[g] # 0 => windows[g] \in Made
         /\ \A t \in Threads : Stage(t, "keep") => threads[t].window \in Made
         /\ Rest \in ThreadType /\ WellPlaced(Rest)
  <1>1. Rest \in ThreadType
    BY DEF Rest, ThreadType, Ops, Steps, Places
  <1>2. WellPlaced(Rest)
    BY WindowsAssumption DEF Rest, WellPlaced
  <1>3. \A w \in Made : native[w] \in Window
    BY NativeOf
  <1>4. QED
    BY <1>1, <1>2, <1>3 DEF WindowsTyped

\* At first no window is made and every thread rests.
LEMMA WindowsTypedInit == WindowsInit => WindowsTyped
  <1> SUFFICES ASSUME WindowsInit PROVE WindowsTyped
    OBVIOUS
  <1>1. Rest \in ThreadType /\ WellPlaced(Rest)
    <2>1. Rest \in ThreadType
      BY DEF Rest, ThreadType, Ops, Steps, Places
    <2>2. WellPlaced(Rest)
      BY WindowsAssumption DEF Rest, WellPlaced
    <2>3. QED
      BY <2>1, <2>2
  <1>2. native \in [1 .. 0 -> Window] /\ 0 \in 0 .. Opens
    BY WindowsAssumption DEF WindowsInit
  <1>3. threads \in [Threads -> ThreadType] /\ \A t \in Threads : WellPlaced(threads[t])
    BY <1>1 DEF WindowsInit
  <1>4. QED
    BY <1>1, <1>2, <1>3, WindowsAssumption
    DEF WindowsInit, WindowsTyped, Places, HomeStates, NoPlaces, Stage, Rest

\* One thread moves on.
LEMMA ThreadMoves ==
  ASSUME WindowsTyped, NEW t \in Threads, NEW r \in ThreadType, WellPlaced(r),
         threads' = [threads EXCEPT ![t] = r]
  PROVE  /\ threads' \in [Threads -> ThreadType]
         /\ \A u \in Threads : WellPlaced(threads'[u])
         /\ threads'[t] = r /\ \A u \in Threads : u # t => threads'[u] = threads[u]
  BY TypesOf

\* The record that each step gives its thread.
LEMMA OpenSSHWindowMoves ==
  ASSUME WindowsTyped, NEW t \in Threads, NEW g \in GroupIDs, OpenSSHWindow(t, g)
  PROVE  LET r == [Rest EXCEPT !.op = "open", !.of = g, !.at = "look"]
         IN  /\ r \in ThreadType /\ WellPlaced(r)
             /\ threads' = [threads EXCEPT ![t] = r]
  <1> DEFINE r == [Rest EXCEPT !.op = "open", !.of = g, !.at = "look"]
  <1>1. threads' = [threads EXCEPT ![t] = r]
    BY TypesOf DEF OpenSSHWindow, ThreadBegins
  <1>2. r \in ThreadType
    BY TypesOf DEF OpenSSHWindow, ThreadType, WellPlaced, Stage, Rest, Ops, Steps, Places
  <1>3. WellPlaced(r)
    BY TypesOf, WindowsAssumption DEF OpenSSHWindow, ThreadType, WellPlaced, Stage, Rest
  <1>4. QED
    BY <1>1, <1>2, <1>3

LEMMA LookMoves ==
  ASSUME WindowsTyped, NEW t \in Threads, Look(t)
  PROVE  LET r == IF windows[threads[t].of] # 0 THEN Rest ELSE [threads[t] EXCEPT !.at = "make"]
         IN  /\ r \in ThreadType /\ WellPlaced(r)
             /\ threads' = [threads EXCEPT ![t] = r]
  <1> DEFINE r == IF windows[threads[t].of] # 0 THEN Rest ELSE [threads[t] EXCEPT !.at = "make"]
  <1>1. threads' = [threads EXCEPT ![t] = r]
    BY TypesOf DEF Look, ThreadEnds, GoTo
  <1>2. r \in ThreadType
    BY TypesOf DEF Look, ThreadType, WellPlaced, Stage, Rest, Ops, Steps, Places
  <1>3. WellPlaced(r)
    BY TypesOf, WindowsAssumption DEF Look, ThreadType, WellPlaced, Stage, Rest
  <1>4. QED
    BY <1>1, <1>2, <1>3

LEMMA MakeMoves ==
  ASSUME WindowsTyped, NEW t \in Threads, NEW p \in Spots, Make(t, p)
  PROVE  LET r == [threads[t] EXCEPT !.at = "keep", !.window = Cardinality(Made) + 1]
         IN  /\ r \in ThreadType /\ WellPlaced(r)
             /\ threads' = [threads EXCEPT ![t] = r]
  <1> DEFINE r == [threads[t] EXCEPT !.at = "keep", !.window = Cardinality(Made) + 1]
  <1>1. threads' = [threads EXCEPT ![t] = r]
    BY TypesOf DEF Make
  <1>2. r \in ThreadType
    <2>1. Cardinality(Made) + 1 \in Nat
      BY NativeOf
    <2>2. QED
      BY <2>1, TypesOf DEF Make, ThreadType, WellPlaced, Stage, Rest, Ops, Steps, Places
  <1>3. WellPlaced(r)
    BY TypesOf, WindowsAssumption DEF Make, ThreadType, WellPlaced, Stage, Rest
  <1>4. QED
    BY <1>1, <1>2, <1>3

LEMMA KeepReferenceMoves ==
  ASSUME WindowsTyped, NEW t \in Threads, KeepReference(t)
  PROVE  LET r == Rest
         IN  /\ r \in ThreadType /\ WellPlaced(r)
             /\ threads' = [threads EXCEPT ![t] = r]
  <1> DEFINE r == Rest
  <1>1. threads' = [threads EXCEPT ![t] = r]
    BY TypesOf DEF KeepReference, ThreadEnds
  <1>2. r \in ThreadType
    BY TypesOf DEF KeepReference, ThreadType, WellPlaced, Stage, Rest, Ops, Steps, Places
  <1>3. WellPlaced(r)
    BY TypesOf, WindowsAssumption DEF KeepReference, ThreadType, WellPlaced, Stage, Rest
  <1>4. QED
    BY <1>1, <1>2, <1>3

LEMMA SaveFinalMoves ==
  ASSUME WindowsTyped, NEW t \in Threads, SaveFinal(t)
  PROVE  LET r == IF RememberPosition /\ windows[threads[t].of] # 0
                    /\ native[windows[threads[t].of]].place # Nil
                    THEN [threads[t] EXCEPT !.at = "place", !.place = native[windows[threads[t].of]].place]
                    ELSE [threads[t] EXCEPT !.at = "drop"]
         IN  /\ r \in ThreadType /\ WellPlaced(r)
             /\ threads' = [threads EXCEPT ![t] = r]
  <1> DEFINE r == IF RememberPosition /\ windows[threads[t].of] # 0
                    /\ native[windows[threads[t].of]].place # Nil
          THEN [threads[t] EXCEPT !.at = "place", !.place = native[windows[threads[t].of]].place]
          ELSE [threads[t] EXCEPT !.at = "drop"]
  <1>1. threads' = [threads EXCEPT ![t] = r]
    BY TypesOf DEF SaveFinal, GoTo
  <1>2. r \in ThreadType
    BY TypesOf DEF SaveFinal, ThreadType, WellPlaced, Window, Stage, Rest, Ops, Steps, Places
  <1>3. WellPlaced(r)
    BY TypesOf, WindowsAssumption DEF SaveFinal, ThreadType, Window, WellPlaced, Stage, Rest
  <1>4. QED
    BY <1>1, <1>2, <1>3

\* A save of the home window's place.
MainThread(op, saved) ==
  IF op = "shut" /\ ~saved THEN Rest
  ELSE [Rest EXCEPT !.op = op, !.of = Home, !.at = IF saved THEN "place" ELSE "hide"]

LEMMA SaveMainMoves ==
  ASSUME WindowsTyped, NEW t \in Threads, NEW op \in {"tick", "hide", "shut"},
         NEW saved \in BOOLEAN, SaveMain(t, op, saved)
  PROVE  LET r == MainThread(op, saved)
         IN  /\ r \in ThreadType /\ WellPlaced(r)
             /\ threads' = [threads EXCEPT ![t] = r]
  <1> DEFINE r == MainThread(op, saved)
  <1>1. threads' = [threads EXCEPT ![t] = r]
    BY TypesOf DEF SaveMain, MainThread
  <1>2. r \in ThreadType
    BY TypesOf DEF SaveMain, MainThread, ThreadType, WellPlaced, Stage, Rest, Ops, Steps, Places
  <1>3. WellPlaced(r)
    BY TypesOf, WindowsAssumption DEF SaveMain, MainThread, ThreadType, WellPlaced, Stage, Rest
  <1>4. QED
    BY <1>1, <1>2, <1>3

LEMMA RememberMoves ==
  ASSUME WindowsTyped, NEW t \in Threads, Remember(t)
  PROVE  LET r == [threads[t] EXCEPT !.at = "marshal"]
         IN  /\ r \in ThreadType /\ WellPlaced(r)
             /\ threads' = [threads EXCEPT ![t] = r]
  <1> DEFINE r == [threads[t] EXCEPT !.at = "marshal"]
  <1>1. threads' = [threads EXCEPT ![t] = r]
    BY TypesOf DEF Remember, GoTo
  <1>2. r \in ThreadType
    BY TypesOf DEF Remember, ThreadType, WellPlaced, Stage, Rest, Ops, Steps, Places
  <1>3. WellPlaced(r)
    BY TypesOf, WindowsAssumption DEF Remember, ThreadType, WellPlaced, Stage, Rest
  <1>4. QED
    BY <1>1, <1>2, <1>3

LEMMA MarshalMoves ==
  ASSUME WindowsTyped, NEW t \in Threads, Marshal(t)
  PROVE  LET r == [threads[t] EXCEPT !.at = "write", !.data = positions]
         IN  /\ r \in ThreadType /\ WellPlaced(r)
             /\ threads' = [threads EXCEPT ![t] = r]
  <1> DEFINE r == [threads[t] EXCEPT !.at = "write", !.data = positions]
  <1>1. threads' = [threads EXCEPT ![t] = r]
    BY TypesOf DEF Marshal
  <1>2. r \in ThreadType
    BY TypesOf DEF Marshal, ThreadType, WellPlaced, Stage, Rest, Ops, Steps, Places
  <1>3. WellPlaced(r)
    BY TypesOf, WindowsAssumption DEF Marshal, ThreadType, WellPlaced, Stage, Rest
  <1>4. QED
    BY <1>1, <1>2, <1>3

LEMMA SaveEndsMoves ==
  ASSUME WindowsTyped, NEW t \in Threads, SaveEnds(t)
  PROVE  LET r == IF threads[t].op = "close" THEN [threads[t] EXCEPT !.at = "drop"]
                    ELSE IF threads[t].op = "hide" THEN [threads[t] EXCEPT !.at = "hide"] ELSE Rest
         IN  /\ r \in ThreadType /\ WellPlaced(r)
             /\ threads' = [threads EXCEPT ![t] = r]
  <1> DEFINE r == IF threads[t].op = "close" THEN [threads[t] EXCEPT !.at = "drop"]
          ELSE IF threads[t].op = "hide" THEN [threads[t] EXCEPT !.at = "hide"] ELSE Rest
  <1>1. threads' = [threads EXCEPT ![t] = r]
    BY TypesOf DEF SaveEnds, GoTo, ThreadEnds
  <1>2. r \in ThreadType
    BY TypesOf DEF SaveEnds, ThreadType, WellPlaced, Stage, Rest, Ops, Steps, Places
  <1>3. WellPlaced(r)
    BY TypesOf, WindowsAssumption DEF SaveEnds, ThreadType, WellPlaced, Stage, Rest
  <1>4. QED
    BY <1>1, <1>2, <1>3

LEMMA ClearPositionsMoves ==
  ASSUME WindowsTyped, NEW t \in Threads, ClearPositions(t)
  PROVE  LET r == [Rest EXCEPT !.op = "clear", !.of = Nil, !.at = "remove"]
         IN  /\ r \in ThreadType /\ WellPlaced(r)
             /\ threads' = [threads EXCEPT ![t] = r]
  <1> DEFINE r == [Rest EXCEPT !.op = "clear", !.of = Nil, !.at = "remove"]
  <1>1. threads' = [threads EXCEPT ![t] = r]
    BY TypesOf DEF ClearPositions, ThreadBegins
  <1>2. r \in ThreadType
    BY TypesOf DEF ClearPositions, ThreadType, WellPlaced, Stage, Rest, Ops, Steps, Places
  <1>3. WellPlaced(r)
    BY TypesOf, WindowsAssumption DEF ClearPositions, ThreadType, WellPlaced, Stage, Rest
  <1>4. QED
    BY <1>1, <1>2, <1>3

LEMMA RemoveFileMoves ==
  ASSUME WindowsTyped, NEW t \in Threads, RemoveFile(t)
  PROVE  LET r == Rest
         IN  /\ r \in ThreadType /\ WellPlaced(r)
             /\ threads' = [threads EXCEPT ![t] = r]
  <1> DEFINE r == Rest
  <1>1. threads' = [threads EXCEPT ![t] = r]
    BY TypesOf DEF RemoveFile, ThreadEnds
  <1>2. r \in ThreadType
    BY TypesOf DEF RemoveFile, ThreadType, WellPlaced, Stage, Rest, Ops, Steps, Places
  <1>3. WellPlaced(r)
    BY TypesOf, WindowsAssumption DEF RemoveFile, ThreadType, WellPlaced, Stage, Rest
  <1>4. QED
    BY <1>1, <1>2, <1>3

LEMMA CloseMoves ==
  ASSUME WindowsTyped, NEW t \in Threads, NEW w \in Made, Close(t, w)
  PROVE  LET r == [Rest EXCEPT !.op = "close", !.of = native[w].of, !.at = "save"]
         IN  /\ r \in ThreadType /\ WellPlaced(r)
             /\ threads' = [threads EXCEPT ![t] = r]
  <1> DEFINE r == [Rest EXCEPT !.op = "close", !.of = native[w].of, !.at = "save"]
  <1>1. threads' = [threads EXCEPT ![t] = r]
    BY TypesOf DEF Close, ThreadBegins
  <1>2. r \in ThreadType
    BY TypesOf DEF Close, ThreadType, WellPlaced, Window, Stage, Rest, Ops, Steps, Places
  <1>3. WellPlaced(r)
    BY TypesOf, WindowsAssumption DEF Close, ThreadType, Window, WellPlaced, Stage, Rest
  <1>4. QED
    BY <1>1, <1>2, <1>3

LEMMA DropReferenceMoves ==
  ASSUME WindowsTyped, NEW t \in Threads, DropReference(t)
  PROVE  LET r == [threads[t] EXCEPT !.at = "group"]
         IN  /\ r \in ThreadType /\ WellPlaced(r)
             /\ threads' = [threads EXCEPT ![t] = r]
  <1> DEFINE r == [threads[t] EXCEPT !.at = "group"]
  <1>1. threads' = [threads EXCEPT ![t] = r]
    BY TypesOf DEF DropReference, GoTo
  <1>2. r \in ThreadType
    BY TypesOf DEF DropReference, ThreadType, WellPlaced, Stage, Rest, Ops, Steps, Places
  <1>3. WellPlaced(r)
    BY TypesOf, WindowsAssumption DEF DropReference, ThreadType, WellPlaced, Stage, Rest
  <1>4. QED
    BY <1>1, <1>2, <1>3

LEMMA GroupClosedMoves ==
  ASSUME WindowsTyped, NEW t \in Threads, GroupClosed(t)
  PROVE  LET r == Rest
         IN  /\ r \in ThreadType /\ WellPlaced(r)
             /\ threads' = [threads EXCEPT ![t] = r]
  <1> DEFINE r == Rest
  <1>1. threads' = [threads EXCEPT ![t] = r]
    BY TypesOf DEF GroupClosed, ThreadEnds
  <1>2. r \in ThreadType
    BY TypesOf DEF GroupClosed, ThreadType, WellPlaced, Stage, Rest, Ops, Steps, Places
  <1>3. WellPlaced(r)
    BY TypesOf, WindowsAssumption DEF GroupClosed, ThreadType, WellPlaced, Stage, Rest
  <1>4. QED
    BY <1>1, <1>2, <1>3

LEMMA HideHomeMoves ==
  ASSUME WindowsTyped, NEW t \in Threads, HideHome(t)
  PROVE  LET r == Rest
         IN  /\ r \in ThreadType /\ WellPlaced(r)
             /\ threads' = [threads EXCEPT ![t] = r]
  <1> DEFINE r == Rest
  <1>1. threads' = [threads EXCEPT ![t] = r]
    BY TypesOf DEF HideHome, ThreadEnds
  <1>2. r \in ThreadType
    BY TypesOf DEF HideHome, ThreadType, WellPlaced, Stage, Rest, Ops, Steps, Places
  <1>3. WellPlaced(r)
    BY TypesOf, WindowsAssumption DEF HideHome, ThreadType, WellPlaced, Stage, Rest
  <1>4. QED
    BY <1>1, <1>2, <1>3

\* A window that is made is the next one, and leaves the others alone.
LEMMA MakeNative ==
  ASSUME WindowsTyped, NEW t \in Threads, NEW p \in Spots, Make(t, p)
  PROVE  LET w == Cardinality(Made) + 1
             r == [of |-> threads[t].of, place |-> p, open |-> TRUE, kept |-> FALSE]
         IN  /\ w \notin Made /\ w \in Nat /\ w # 0 /\ Made' = Made \cup {w}
             /\ native'[w] = r /\ \A v \in Made : native'[v] = native[v]
             /\ \E n \in 0 .. Opens : native' \in [1 .. n -> Window]
             /\ threads[t].of \in GroupIDs
  <1> DEFINE w == Cardinality(Made) + 1
             r == [of |-> threads[t].of, place |-> p, open |-> TRUE, kept |-> FALSE]
  <1>1. PICK n \in Nat : n = Cardinality(Made) /\ Made = 1 .. n /\ native \in [1 .. n -> Window]
    BY NativeOf
  <1>2. w = n + 1 /\ w \in 0 .. Opens
    BY <1>1 DEF Make
  <1>3. native' = [v \in 1 .. w |-> IF v = w THEN r ELSE native[v]]
    BY DEF Make
  <1>4. threads[t].of \in GroupIDs /\ r \in Window
    BY TypesOf DEF Make, Stage, WellPlaced, Window, Places
  <1> HIDE DEF r, w
  <1>5. native' \in [1 .. w -> Window]
    <2>1. \A v \in 1 .. w : v # w => v \in 1 .. n
      <3>1. n \in Nat /\ w = n + 1
        BY <1>1, <1>2
      <3>2. QED
        BY <3>1
    <2>2. \A v \in 1 .. w : (IF v = w THEN r ELSE native[v]) \in Window
      BY <1>1, <1>4, <2>1
    <2>3. QED
      BY <1>3, <2>2
  <1>6. Made' = 1 .. w
    BY <1>3 DEF Made
  <1>7. w \notin Made /\ w \in Nat /\ w # 0 /\ 1 .. w = Made \cup {w} /\ w \in 1 .. w
    <2>1. 1 .. (n + 1) = (1 .. n) \cup {n + 1} /\ n + 1 \notin 1 .. n /\ n + 1 \in 1 .. (n + 1)
      BY <1>1
    <2>2. n \in Nat /\ w = n + 1 /\ Made = 1 .. n
      BY <1>1, <1>2
    <2>3. n + 1 \in Nat /\ n + 1 # 0
      BY <2>2
    <2>4. QED
      BY <2>1, <2>2, <2>3, Zenon
  <1>8. native'[w] = r /\ \A v \in Made : native'[v] = native[v]
    BY <1>3, <1>7
  <1>9. QED
    BY <1>2, <1>4, <1>5, <1>6, <1>7, <1>8 DEF r, w

\* One window changes.
LEMMA NativeMoves ==
  ASSUME WindowsTyped, NEW w \in Made, NEW r \in Window, native' = [native EXCEPT ![w] = r]
  PROVE  /\ Made' = Made /\ native'[w] = r /\ \A v \in Made : v # w => native'[v] = native[v]
         /\ \E n \in 0 .. Opens : native' \in [1 .. n -> Window]
  <1>1. PICK n \in 0 .. Opens : native \in [1 .. n -> Window]
    BY DEF WindowsTyped
  <1>2. Made = 1 .. n /\ native' \in [1 .. n -> Window]
    BY <1>1 DEF Made
  <1>3. QED
    BY <1>1, <1>2 DEF Made

\* The window that a step of KeepReference, Close or Move changes, and its record then.
LEMMA KeepNative ==
  ASSUME WindowsTyped, NEW t \in Threads, KeepReference(t)
  PROVE  LET w == threads[t].window
             r == [native[w] EXCEPT !.kept = TRUE]
         IN  /\ w \in Made /\ w \in Nat /\ w # 0 /\ r \in Window /\ Made' = Made
             /\ native'[w] = r /\ \A v \in Made : v # w => native'[v] = native[v]
             /\ \E n \in 0 .. Opens : native' \in [1 .. n -> Window]
             /\ threads[t].of \in GroupIDs
  <1> DEFINE w == threads[t].window
             r == [native[w] EXCEPT !.kept = TRUE]
  <1>1. w \in Made /\ threads[t].of \in GroupIDs
    BY TypesOf DEF KeepReference, Stage, WellPlaced
  <1>2. r \in Window
    BY <1>1, TypesOf DEF Window
  <1>3. native' = [native EXCEPT ![w] = r]
    BY DEF KeepReference
  <1>4. w \in Nat /\ w # 0
    BY <1>1, NativeOf
  <1> HIDE DEF r, w
  <1>5. /\ Made' = Made /\ native'[w] = r /\ \A v \in Made : v # w => native'[v] = native[v]
        /\ \E n \in 0 .. Opens : native' \in [1 .. n -> Window]
    BY <1>1, <1>2, <1>3, NativeMoves
  <1>6. QED
    BY <1>1, <1>2, <1>4, <1>5, Zenon DEF r, w

LEMMA CloseNative ==
  ASSUME WindowsTyped, NEW t \in Threads, NEW w \in Made, Close(t, w)
  PROVE  LET r == [native[w] EXCEPT !.open = FALSE]
         IN  /\ r \in Window /\ Made' = Made /\ native[w].open /\ native[w].kept
             /\ native'[w] = r /\ \A v \in Made : v # w => native'[v] = native[v]
             /\ \E n \in 0 .. Opens : native' \in [1 .. n -> Window]
             /\ native[w].of \in GroupIDs
  <1> DEFINE r == [native[w] EXCEPT !.open = FALSE]
  <1>1. r \in Window /\ native[w].of \in GroupIDs
    BY TypesOf DEF Window
  <1>2. native' = [native EXCEPT ![w] = r] /\ native[w].open /\ native[w].kept
    BY DEF Close, Open
  <1> HIDE DEF r
  <1>3. QED
    BY <1>1, <1>2, NativeMoves DEF r

LEMMA MoveNative ==
  ASSUME WindowsTyped, NEW w \in Made, NEW p \in Places, Move(w, p)
  PROVE  LET r == [native[w] EXCEPT !.place = p]
         IN  /\ r \in Window /\ Made' = Made /\ native[w].open
             /\ native'[w] = r /\ \A v \in Made : v # w => native'[v] = native[v]
             /\ \E n \in 0 .. Opens : native' \in [1 .. n -> Window]
  <1> DEFINE r == [native[w] EXCEPT !.place = p]
  <1>1. r \in Window
    BY TypesOf DEF Window, Places
  <1>2. native' = [native EXCEPT ![w] = r] /\ native[w].open
    BY DEF Move, Open
  <1> HIDE DEF r
  <1>3. QED
    BY <1>1, <1>2, NativeMoves DEF r

\* A turn of a ticker ends the ticker, or begins to save the place of the window.
LEMMA TickMoves ==
  ASSUME WindowsTyped, NEW t \in Threads, NEW g \in GroupIDs, Tick(t, g)
  PROVE  /\ tickers' \in [GroupIDs -> Nat]
         /\ \/ UNCHANGED <<threads, overlapped>>
            \/ /\ RememberPosition /\ SaveBegins(t) /\ windows[g] # 0 /\ native[windows[g]].open
               /\ threads[t] = Rest
               /\ LET r == [Rest EXCEPT !.op = "tick", !.of = g, !.at = "place",
                                        !.place = native[windows[g]].place]
                  IN  r \in ThreadType /\ WellPlaced(r) /\ threads' = [threads EXCEPT ![t] = r]
  <1>1. CASE windows[g] = 0
    <2>1. Cardinality({u \in Threads : Runs(u, "tick", g)}) \in Nat
      BY WindowsAssumption, FS_Subset, FS_CardinalityType
    <2>2. tickers' = [tickers EXCEPT ![g] = @ - 1] /\ UNCHANGED <<threads, overlapped>>
      BY <1>1 DEF Tick
    <2>3. tickers[g] - 1 \in Nat
      BY <2>1, TypesOf DEF Tick
    <2>4. QED
      BY <2>2, <2>3, TypesOf
  <1>2. CASE windows[g] # 0
    <2> DEFINE r == [Rest EXCEPT !.op = "tick", !.of = g, !.at = "place", !.place = native[windows[g]].place]
    <2>1. /\ RememberPosition /\ SaveBegins(t) /\ native[windows[g]].open /\ threads[t] = Rest
          /\ threads' = [threads EXCEPT ![t] = r] /\ UNCHANGED tickers
      BY <1>2 DEF Tick
    <2>2. native[windows[g]] \in Window
      BY <1>2, TypesOf
    <2>3. r \in ThreadType
      BY <2>2, TypesOf DEF Window, ThreadType, Rest, Ops, Steps, Places
    <2>4. WellPlaced(r)
      BY WindowsAssumption DEF WellPlaced, Rest
    <2>5. QED
      BY <1>2, <2>1, <2>3, <2>4, TypesOf
  <1>3. QED
    BY <1>1, <1>2

-----------------------------------------------------------------------------
\* A step of a thread that makes or changes no window keeps the types.
LEMMA TypedKept ==
  ASSUME WindowsTyped, NEW t \in Threads, NEW r \in ThreadType, WellPlaced(r),
         threads' = [threads EXCEPT ![t] = r], UNCHANGED <<native, tickers>>,
         windows' = windows \/ (\E g \in GroupIDs : windows' = [windows EXCEPT ![g] = 0]),
         r.at = "keep" => threads[t].at = "keep" /\ r.window = threads[t].window,
         positions' \in [GroupIDs -> Places], file' \in [GroupIDs -> Places], final' \in [GroupIDs -> Places],
         home' \in HomeStates, due' \in BOOLEAN, overlapped' \in BOOLEAN, crossed' \subseteq GroupIDs
  PROVE  WindowsTyped'
  <1>1. /\ threads' \in [Threads -> ThreadType] /\ \A u \in Threads : WellPlaced(threads'[u])
        /\ threads'[t] = r /\ \A u \in Threads : u # t => threads'[u] = threads[u]
    BY ThreadMoves
  <1>2. Made' = Made /\ \E n \in 0 .. Opens : native' \in [1 .. n -> Window]
    BY DEF Made, WindowsTyped
  <1>3. windows' \in [GroupIDs -> Nat] /\ \A g \in GroupIDs : windows'[g] # 0 => windows'[g] \in Made
    BY TypesOf
  <1>4. \A u \in Threads : threads'[u].at = "keep" => threads'[u].window \in Made
    BY <1>1, TypesOf DEF Stage
  <1>5. tickers' \in [GroupIDs -> Nat]
    BY TypesOf
  <1>6. QED
    BY <1>1, <1>2, <1>3, <1>4, <1>5 DEF WindowsTyped, Stage

\* The type invariant is inductive.
LEMMA WindowsTypedStep ==
  ASSUME WindowsTyped, [WindowsNext]_windowsVars
  PROVE  WindowsTyped'
  <1> USE DEF refVars, placeVars
  <1>1. ASSUME NEW t \in Threads, NEW g \in GroupIDs, OpenSSHWindow(t, g) PROVE WindowsTyped'
    <2> DEFINE r == [Rest EXCEPT !.op = "open", !.of = g, !.at = "look"]
    <2>1. r \in ThreadType /\ WellPlaced(r) /\ threads' = [threads EXCEPT ![t] = r]
      BY <1>1, OpenSSHWindowMoves
    <2>2. /\ r.at = "keep" => threads[t].at = "keep" /\ r.window = threads[t].window
          /\ UNCHANGED <<native, tickers>>
          /\ windows' = windows \/ (\E h \in GroupIDs : windows' = [windows EXCEPT ![h] = 0])
      BY <1>1, TypesOf, WindowsAssumption DEF OpenSSHWindow, Rest, ThreadType, Stage, WellPlaced
    <2>3. /\ positions' \in [GroupIDs -> Places] /\ file' \in [GroupIDs -> Places]
          /\ final' \in [GroupIDs -> Places] /\ home' \in HomeStates /\ due' \in BOOLEAN
          /\ overlapped' \in BOOLEAN /\ crossed' \subseteq GroupIDs
      BY <1>1, TypesOf
      DEF OpenSSHWindow, WindowsTyped, Places, SaveBegins, Stage, WellPlaced, Remembered,
          ThreadType
    <2>4. QED
      <3> HIDE DEF r
      <3>1. QED
        BY <2>1, <2>2, <2>3, TypedKept
  <1>2. ASSUME NEW t \in Threads, Look(t) PROVE WindowsTyped'
    <2> DEFINE r == IF windows[threads[t].of] # 0 THEN Rest ELSE [threads[t] EXCEPT !.at = "make"]
    <2>1. r \in ThreadType /\ WellPlaced(r) /\ threads' = [threads EXCEPT ![t] = r]
      BY <1>2, LookMoves
    <2>2. /\ r.at = "keep" => threads[t].at = "keep" /\ r.window = threads[t].window
          /\ UNCHANGED <<native, tickers>>
          /\ windows' = windows \/ (\E h \in GroupIDs : windows' = [windows EXCEPT ![h] = 0])
      BY <1>2, TypesOf, WindowsAssumption DEF Look, Rest, ThreadType, Stage, WellPlaced
    <2>3. /\ positions' \in [GroupIDs -> Places] /\ file' \in [GroupIDs -> Places]
          /\ final' \in [GroupIDs -> Places] /\ home' \in HomeStates /\ due' \in BOOLEAN
          /\ overlapped' \in BOOLEAN /\ crossed' \subseteq GroupIDs
      BY <1>2, TypesOf
      DEF Look, WindowsTyped, Places, SaveBegins, Stage, WellPlaced, Remembered, ThreadType
    <2>4. QED
      <3> HIDE DEF r
      <3>1. QED
        BY <2>1, <2>2, <2>3, TypedKept
  <1>3. ASSUME NEW t \in Threads, SaveFinal(t) PROVE WindowsTyped'
    <2> DEFINE r == IF RememberPosition /\ windows[threads[t].of] # 0
                    /\ native[windows[threads[t].of]].place # Nil
          THEN [threads[t] EXCEPT !.at = "place", !.place = native[windows[threads[t].of]].place]
          ELSE [threads[t] EXCEPT !.at = "drop"]
    <2>1. r \in ThreadType /\ WellPlaced(r) /\ threads' = [threads EXCEPT ![t] = r]
      BY <1>3, SaveFinalMoves
    <2>2. /\ r.at = "keep" => threads[t].at = "keep" /\ r.window = threads[t].window
          /\ UNCHANGED <<native, tickers>>
          /\ windows' = windows \/ (\E h \in GroupIDs : windows' = [windows EXCEPT ![h] = 0])
      BY <1>3, TypesOf, WindowsAssumption DEF SaveFinal, Rest, ThreadType, Stage, WellPlaced
    <2>3. /\ positions' \in [GroupIDs -> Places] /\ file' \in [GroupIDs -> Places]
          /\ final' \in [GroupIDs -> Places] /\ home' \in HomeStates /\ due' \in BOOLEAN
          /\ overlapped' \in BOOLEAN /\ crossed' \subseteq GroupIDs
      BY <1>3, TypesOf
      DEF SaveFinal, WindowsTyped, Places, SaveBegins, Stage, WellPlaced, Remembered, ThreadType
    <2>4. QED
      <3> HIDE DEF r
      <3>1. QED
        BY <2>1, <2>2, <2>3, TypedKept
  <1>4. ASSUME NEW t \in Threads, NEW op \in {"tick", "hide", "shut"},
         NEW saved \in BOOLEAN, SaveMain(t, op, saved)
        PROVE  WindowsTyped'
    <2> DEFINE r == MainThread(op, saved)
    <2>1. r \in ThreadType /\ WellPlaced(r) /\ threads' = [threads EXCEPT ![t] = r]
      BY <1>4, SaveMainMoves
    <2>2. /\ r.at = "keep" => threads[t].at = "keep" /\ r.window = threads[t].window
          /\ UNCHANGED <<native, tickers>>
          /\ windows' = windows \/ (\E h \in GroupIDs : windows' = [windows EXCEPT ![h] = 0])
      BY <1>4, TypesOf, WindowsAssumption DEF SaveMain, MainThread, Rest, ThreadType, Stage, WellPlaced
    <2>3. /\ positions' \in [GroupIDs -> Places] /\ file' \in [GroupIDs -> Places]
          /\ final' \in [GroupIDs -> Places] /\ home' \in HomeStates /\ due' \in BOOLEAN
          /\ overlapped' \in BOOLEAN /\ crossed' \subseteq GroupIDs
      BY <1>4, TypesOf
      DEF SaveMain, WindowsTyped, HomeStates, Places, SaveBegins, Stage, WellPlaced, Remembered,
          ThreadType
    <2>4. QED
      <3> HIDE DEF r
      <3>1. QED
        BY <2>1, <2>2, <2>3, TypedKept
  <1>5. ASSUME NEW t \in Threads, Remember(t) PROVE WindowsTyped'
    <2> DEFINE r == [threads[t] EXCEPT !.at = "marshal"]
    <2>1. r \in ThreadType /\ WellPlaced(r) /\ threads' = [threads EXCEPT ![t] = r]
      BY <1>5, RememberMoves
    <2>2. /\ r.at = "keep" => threads[t].at = "keep" /\ r.window = threads[t].window
          /\ UNCHANGED <<native, tickers>>
          /\ windows' = windows \/ (\E h \in GroupIDs : windows' = [windows EXCEPT ![h] = 0])
      BY <1>5, TypesOf, WindowsAssumption DEF Remember, Rest, ThreadType, Stage, WellPlaced
    <2>3. /\ positions' \in [GroupIDs -> Places] /\ file' \in [GroupIDs -> Places]
          /\ final' \in [GroupIDs -> Places] /\ home' \in HomeStates /\ due' \in BOOLEAN
          /\ overlapped' \in BOOLEAN /\ crossed' \subseteq GroupIDs
      BY <1>5, TypesOf
      DEF Remember, WindowsTyped, Places, SaveBegins, Stage, WellPlaced, Remembered, ThreadType
    <2>4. QED
      <3> HIDE DEF r
      <3>1. QED
        BY <2>1, <2>2, <2>3, TypedKept
  <1>6. ASSUME NEW t \in Threads, Marshal(t) PROVE WindowsTyped'
    <2> DEFINE r == [threads[t] EXCEPT !.at = "write", !.data = positions]
    <2>1. r \in ThreadType /\ WellPlaced(r) /\ threads' = [threads EXCEPT ![t] = r]
      BY <1>6, MarshalMoves
    <2>2. /\ r.at = "keep" => threads[t].at = "keep" /\ r.window = threads[t].window
          /\ UNCHANGED <<native, tickers>>
          /\ windows' = windows \/ (\E h \in GroupIDs : windows' = [windows EXCEPT ![h] = 0])
      BY <1>6, TypesOf, WindowsAssumption DEF Marshal, Rest, ThreadType, Stage, WellPlaced
    <2>3. /\ positions' \in [GroupIDs -> Places] /\ file' \in [GroupIDs -> Places]
          /\ final' \in [GroupIDs -> Places] /\ home' \in HomeStates /\ due' \in BOOLEAN
          /\ overlapped' \in BOOLEAN /\ crossed' \subseteq GroupIDs
      BY <1>6, TypesOf
      DEF Marshal, WindowsTyped, Places, SaveBegins, Stage, WellPlaced, Remembered, ThreadType
    <2>4. QED
      <3> HIDE DEF r
      <3>1. QED
        BY <2>1, <2>2, <2>3, TypedKept
  <1>7. ASSUME NEW t \in Threads, Write(t) \/ WriteFails(t) PROVE WindowsTyped'
    <2> DEFINE r == IF threads[t].op = "close" THEN [threads[t] EXCEPT !.at = "drop"]
          ELSE IF threads[t].op = "hide" THEN [threads[t] EXCEPT !.at = "hide"] ELSE Rest
    <2>1. r \in ThreadType /\ WellPlaced(r) /\ threads' = [threads EXCEPT ![t] = r]
      BY <1>7, SaveEndsMoves DEF Write, WriteFails
    <2>2. /\ r.at = "keep" => threads[t].at = "keep" /\ r.window = threads[t].window
          /\ UNCHANGED <<native, tickers>>
          /\ windows' = windows \/ (\E h \in GroupIDs : windows' = [windows EXCEPT ![h] = 0])
      BY <1>7, TypesOf, WindowsAssumption
      DEF Write, WriteFails, SaveEnds, Rest, ThreadType, Stage, WellPlaced
    <2>3. /\ positions' \in [GroupIDs -> Places] /\ file' \in [GroupIDs -> Places]
          /\ final' \in [GroupIDs -> Places] /\ home' \in HomeStates /\ due' \in BOOLEAN
          /\ overlapped' \in BOOLEAN /\ crossed' \subseteq GroupIDs
      BY <1>7, TypesOf
      DEF Write, WriteFails, SaveEnds, WindowsTyped, NoPlaces, Places, SaveBegins, Stage,
          WellPlaced, Remembered, ThreadType
    <2>4. QED
      <3> HIDE DEF r
      <3>1. QED
        BY <2>1, <2>2, <2>3, TypedKept
  <1>8. ASSUME NEW t \in Threads, ClearPositions(t) PROVE WindowsTyped'
    <2> DEFINE r == [Rest EXCEPT !.op = "clear", !.of = Nil, !.at = "remove"]
    <2>1. r \in ThreadType /\ WellPlaced(r) /\ threads' = [threads EXCEPT ![t] = r]
      BY <1>8, ClearPositionsMoves
    <2>2. /\ r.at = "keep" => threads[t].at = "keep" /\ r.window = threads[t].window
          /\ UNCHANGED <<native, tickers>>
          /\ windows' = windows \/ (\E h \in GroupIDs : windows' = [windows EXCEPT ![h] = 0])
      BY <1>8, TypesOf, WindowsAssumption DEF ClearPositions, Rest, ThreadType, Stage, WellPlaced
    <2>3. /\ positions' \in [GroupIDs -> Places] /\ file' \in [GroupIDs -> Places]
          /\ final' \in [GroupIDs -> Places] /\ home' \in HomeStates /\ due' \in BOOLEAN
          /\ overlapped' \in BOOLEAN /\ crossed' \subseteq GroupIDs
      BY <1>8, TypesOf
      DEF ClearPositions, WindowsTyped, NoPlaces, Places, SaveBegins, Stage, WellPlaced,
          Remembered,
          ThreadType
    <2>4. QED
      <3> HIDE DEF r
      <3>1. QED
        BY <2>1, <2>2, <2>3, TypedKept
  <1>9. ASSUME NEW t \in Threads, RemoveFile(t) PROVE WindowsTyped'
    <2> DEFINE r == Rest
    <2>1. r \in ThreadType /\ WellPlaced(r) /\ threads' = [threads EXCEPT ![t] = r]
      BY <1>9, RemoveFileMoves
    <2>2. /\ r.at = "keep" => threads[t].at = "keep" /\ r.window = threads[t].window
          /\ UNCHANGED <<native, tickers>>
          /\ windows' = windows \/ (\E h \in GroupIDs : windows' = [windows EXCEPT ![h] = 0])
      BY <1>9, TypesOf, WindowsAssumption DEF RemoveFile, Rest, ThreadType, Stage, WellPlaced
    <2>3. /\ positions' \in [GroupIDs -> Places] /\ file' \in [GroupIDs -> Places]
          /\ final' \in [GroupIDs -> Places] /\ home' \in HomeStates /\ due' \in BOOLEAN
          /\ overlapped' \in BOOLEAN /\ crossed' \subseteq GroupIDs
      BY <1>9, TypesOf
      DEF RemoveFile, WindowsTyped, NoPlaces, Places, SaveBegins, Stage, WellPlaced, Remembered,
          ThreadType
    <2>4. QED
      <3> HIDE DEF r
      <3>1. QED
        BY <2>1, <2>2, <2>3, TypedKept
  <1>10. ASSUME NEW t \in Threads, DropReference(t) PROVE WindowsTyped'
    <2> DEFINE r == [threads[t] EXCEPT !.at = "group"]
    <2>1. r \in ThreadType /\ WellPlaced(r) /\ threads' = [threads EXCEPT ![t] = r]
      BY <1>10, DropReferenceMoves
    <2>2. /\ r.at = "keep" => threads[t].at = "keep" /\ r.window = threads[t].window
          /\ UNCHANGED <<native, tickers>>
          /\ windows' = windows \/ (\E h \in GroupIDs : windows' = [windows EXCEPT ![h] = 0])
      BY <1>10, TypesOf, WindowsAssumption DEF DropReference, Rest, ThreadType, Stage, WellPlaced
    <2>3. /\ positions' \in [GroupIDs -> Places] /\ file' \in [GroupIDs -> Places]
          /\ final' \in [GroupIDs -> Places] /\ home' \in HomeStates /\ due' \in BOOLEAN
          /\ overlapped' \in BOOLEAN /\ crossed' \subseteq GroupIDs
      BY <1>10, TypesOf
      DEF DropReference, WindowsTyped, Places, SaveBegins, Stage, WellPlaced, Remembered,
          ThreadType
    <2>4. QED
      <3> HIDE DEF r
      <3>1. QED
        BY <2>1, <2>2, <2>3, TypedKept
  <1>11. ASSUME NEW t \in Threads, GroupClosed(t) PROVE WindowsTyped'
    <2> DEFINE r == Rest
    <2>1. r \in ThreadType /\ WellPlaced(r) /\ threads' = [threads EXCEPT ![t] = r]
      BY <1>11, GroupClosedMoves
    <2>2. /\ r.at = "keep" => threads[t].at = "keep" /\ r.window = threads[t].window
          /\ UNCHANGED <<native, tickers>>
          /\ windows' = windows \/ (\E h \in GroupIDs : windows' = [windows EXCEPT ![h] = 0])
      BY <1>11, TypesOf, WindowsAssumption DEF GroupClosed, Rest, ThreadType, Stage, WellPlaced
    <2>3. /\ positions' \in [GroupIDs -> Places] /\ file' \in [GroupIDs -> Places]
          /\ final' \in [GroupIDs -> Places] /\ home' \in HomeStates /\ due' \in BOOLEAN
          /\ overlapped' \in BOOLEAN /\ crossed' \subseteq GroupIDs
      BY <1>11, TypesOf
      DEF GroupClosed, Shown, WindowsTyped, HomeStates, Places, SaveBegins, Stage, WellPlaced,
          Remembered, ThreadType
    <2>4. QED
      <3> HIDE DEF r
      <3>1. QED
        BY <2>1, <2>2, <2>3, TypedKept
  <1>12. ASSUME NEW t \in Threads, HideHome(t) PROVE WindowsTyped'
    <2> DEFINE r == Rest
    <2>1. r \in ThreadType /\ WellPlaced(r) /\ threads' = [threads EXCEPT ![t] = r]
      BY <1>12, HideHomeMoves
    <2>2. /\ r.at = "keep" => threads[t].at = "keep" /\ r.window = threads[t].window
          /\ UNCHANGED <<native, tickers>>
          /\ windows' = windows \/ (\E h \in GroupIDs : windows' = [windows EXCEPT ![h] = 0])
      BY <1>12, TypesOf, WindowsAssumption DEF HideHome, Rest, ThreadType, Stage, WellPlaced
    <2>3. /\ positions' \in [GroupIDs -> Places] /\ file' \in [GroupIDs -> Places]
          /\ final' \in [GroupIDs -> Places] /\ home' \in HomeStates /\ due' \in BOOLEAN
          /\ overlapped' \in BOOLEAN /\ crossed' \subseteq GroupIDs
      BY <1>12, TypesOf
      DEF HideHome, WindowsTyped, HomeStates, Places, SaveBegins, Stage, WellPlaced, Remembered,
          ThreadType
    <2>4. QED
      <3> HIDE DEF r
      <3>1. QED
        BY <2>1, <2>2, <2>3, TypedKept
  <1>13. ASSUME NEW t \in Threads, NEW g \in GroupIDs, Tick(t, g) PROVE WindowsTyped'
    <2>1. UNCHANGED <<windows, native, crossed, positions, file, home, due, final>>
      BY <1>13 DEF Tick
    <2>2. tickers' \in [GroupIDs -> Nat] /\ overlapped' \in BOOLEAN
      BY <1>13, TickMoves DEF SaveBegins, WindowsTyped
    <2>3. /\ threads' \in [Threads -> ThreadType] /\ \A u \in Threads : WellPlaced(threads'[u])
          /\ \A u \in Threads : threads'[u].at = "keep" => threads'[u] = threads[u]
      <3>1. CASE UNCHANGED threads
        BY <3>1, TypesOf
      <3>2. CASE ~UNCHANGED threads
        <4> DEFINE r == [Rest EXCEPT !.op = "tick", !.of = g, !.at = "place",
                                     !.place = native[windows[g]].place]
        <4>1. r \in ThreadType /\ WellPlaced(r) /\ threads' = [threads EXCEPT ![t] = r]
          BY <1>13, <3>2, TickMoves
        <4>2. r.at = "place"
          BY DEF Rest
        <4> HIDE DEF r
        <4>3. QED
          BY <4>1, <4>2, ThreadMoves
      <3>3. QED
        BY <3>1, <3>2
    <2>4. QED
      BY <2>1, <2>2, <2>3 DEF WindowsTyped, Made, Stage
  <1>14. ASSUME NEW t \in Threads, NEW p \in Spots, Make(t, p) PROVE WindowsTyped'
    <2> DEFINE w == Cardinality(Made) + 1
               r == [threads[t] EXCEPT !.at = "keep", !.window = w]
    <2>1. /\ w \in Made' /\ Made \subseteq Made' /\ threads[t].of \in GroupIDs
          /\ \E n \in 0 .. Opens : native' \in [1 .. n -> Window]
      BY <1>14, MakeNative
    <2>2. r \in ThreadType /\ WellPlaced(r) /\ threads' = [threads EXCEPT ![t] = r]
      BY <1>14, MakeMoves
    <2>3. r.window = w
      BY TypesOf DEF ThreadType
    <2>4. /\ UNCHANGED <<windows, tickers, crossed, positions, file, overlapped, home>> /\ due' = FALSE
          /\ final' = [final EXCEPT ![threads[t].of] = Nil]
      BY <1>14 DEF Make
    <2> HIDE DEF r, w
    <2>5. final' \in [GroupIDs -> Places]
      BY <2>4, TypesOf DEF Places
    <2>6. /\ threads' \in [Threads -> ThreadType] /\ \A u \in Threads : WellPlaced(threads'[u])
          /\ threads'[t] = r /\ \A u \in Threads : u # t => threads'[u] = threads[u]
      BY <2>2, ThreadMoves
    <2>7. \A u \in Threads : threads'[u].at = "keep" => threads'[u].window \in Made'
      BY <2>1, <2>3, <2>6, TypesOf DEF Stage
    <2>8. windows' \in [GroupIDs -> Nat] /\ \A g \in GroupIDs : windows'[g] # 0 => windows'[g] \in Made'
      BY <2>1, <2>4, TypesOf
    <2>9. QED
      BY <2>1, <2>4, <2>5, <2>6, <2>7, <2>8 DEF WindowsTyped, Stage
  <1>15. ASSUME NEW t \in Threads, KeepReference(t) PROVE WindowsTyped'
    <2> DEFINE w == threads[t].window
    <2>1. /\ w \in Made /\ w \in Nat /\ Made' = Made /\ threads[t].of \in GroupIDs
          /\ \E n \in 0 .. Opens : native' \in [1 .. n -> Window]
      BY <1>15, KeepNative
    <2>2. Rest \in ThreadType /\ WellPlaced(Rest) /\ threads' = [threads EXCEPT ![t] = Rest]
      BY <1>15, KeepReferenceMoves
    <2>3. /\ UNCHANGED <<crossed, positions, file, overlapped, home, due, final>>
          /\ windows' = [windows EXCEPT ![threads[t].of] = w]
          /\ tickers' = [tickers EXCEPT ![threads[t].of] = @ + 1]
      BY <1>15 DEF KeepReference
    <2> HIDE DEF w
    <2>4. windows' \in [GroupIDs -> Nat] /\ \A g \in GroupIDs : windows'[g] # 0 => windows'[g] \in Made'
      BY <2>1, <2>3, TypesOf
    <2>5. tickers' \in [GroupIDs -> Nat]
      BY <2>1, <2>3, TypesOf
    <2>6. /\ threads' \in [Threads -> ThreadType] /\ \A u \in Threads : WellPlaced(threads'[u])
          /\ threads'[t] = Rest /\ \A u \in Threads : u # t => threads'[u] = threads[u]
      BY <2>2, ThreadMoves
    <2>7. \A u \in Threads : threads'[u].at = "keep" => threads'[u].window \in Made'
      <3>1. Rest.at # "keep"
        BY WindowsAssumption DEF Rest
      <3>2. QED
        BY <2>1, <2>6, <3>1, TypesOf DEF Stage
    <2>8. QED
      BY <2>1, <2>3, <2>4, <2>5, <2>6, <2>7 DEF WindowsTyped, Stage
  <1>16. ASSUME NEW t \in Threads, NEW w \in Made, Close(t, w) PROVE WindowsTyped'
    <2> DEFINE r == [Rest EXCEPT !.op = "close", !.of = native[w].of, !.at = "save"]
    <2>1. /\ Made' = Made /\ native[w].of \in GroupIDs
          /\ \E n \in 0 .. Opens : native' \in [1 .. n -> Window]
      BY <1>16, CloseNative
    <2>2. r \in ThreadType /\ WellPlaced(r) /\ threads' = [threads EXCEPT ![t] = r] /\ r.at = "save"
      BY <1>16, CloseMoves DEF Rest
    <2>3. /\ UNCHANGED <<windows, tickers, crossed, positions, file, overlapped, home>>
          /\ due' = (due \/ Open = {w}) /\ final' = [final EXCEPT ![native[w].of] = native[w].place]
      BY <1>16 DEF Close
    <2> HIDE DEF r
    <2>4. final' \in [GroupIDs -> Places]
      BY <2>3, TypesOf DEF Window
    <2>5. /\ threads' \in [Threads -> ThreadType] /\ \A u \in Threads : WellPlaced(threads'[u])
          /\ threads'[t] = r /\ \A u \in Threads : u # t => threads'[u] = threads[u]
      BY <2>2, ThreadMoves
    <2>6. \A u \in Threads : threads'[u].at = "keep" => threads'[u].window \in Made'
      BY <2>1, <2>2, <2>5, TypesOf DEF Stage
    <2>7. QED
      BY <2>1, <2>3, <2>4, <2>5, <2>6 DEF WindowsTyped, Stage
  <1>17. ASSUME NEW w \in Made, NEW p \in Places, Move(w, p) PROVE WindowsTyped'
    <2>1. Made' = Made /\ \E n \in 0 .. Opens : native' \in [1 .. n -> Window]
      BY <1>17, MoveNative
    <2>2. UNCHANGED <<windows, tickers, crossed, positions, file, overlapped, threads, home, due, final>>
      BY <1>17 DEF Move
    <2>3. QED
      BY <2>1, <2>2 DEF WindowsTyped, Stage
  <1>18. ASSUME ShowHome \/ UNCHANGED windowsVars PROVE WindowsTyped'
    BY <1>18 DEF ShowHome, WindowsTyped, HomeStates, Made, Stage, windowsVars
  <1>19. QED
    BY <1>1, <1>2, <1>3, <1>4, <1>5, <1>6, <1>7, <1>8, <1>9, <1>10, <1>11, <1>12, <1>13, <1>14,
       <1>15, <1>16, <1>17, <1>18
    DEF WindowsNext, Opening, Saving, Closes, Places

-----------------------------------------------------------------------------
\* A step of a thread that neither opens nor begins or ends a close leaves the references be.
LEMMA RefKept ==
  ASSUME WindowsTyped, RefInv, NEW t \in Threads, UNCHANGED <<windows, crossed>>,
         \A u \in Threads : u # t => threads'[u] = threads[u],
         threads[t].op # "open", threads'[t].op # "open",
         ~Stage(t, "keep"), ~Stage(t, "keep")',
         \A g \in GroupIDs : Closing(t, g)' <=> Closing(t, g),
         Made' = Made,
         \A w \in Made : /\ native'[w].of = native[w].of /\ native'[w].open = native[w].open
                         /\ native'[w].kept = native[w].kept
  PROVE  RefInv'
  <1>1. \A u \in Threads, g \in GroupIDs : /\ Closing(u, g)' <=> Closing(u, g)
                                           /\ Runs(u, "open", g)' <=> Runs(u, "open", g)
    BY DEF Closing, Runs, Stage
  <1>2. \A u \in Threads : (Stage(u, "keep")' <=> Stage(u, "keep")) /\ (Stage(u, "keep") => threads'[u] = threads[u])
    BY DEF Stage
  <1>3. \A u \in Threads, g \in GroupIDs : Runs(u, "open", g) => threads'[u] = threads[u]
    BY DEF Runs
  <1>4. Referred'
    BY <1>1, TypesOf DEF RefInv, Referred
  <1>5. Kept'
    BY <1>2, TypesOf DEF RefInv, Kept, Keeping
  <1>6. ASSUME NEW g \in GroupIDs \ crossed' PROVE Alone(g)'
    BY <1>1, <1>3, <1>6, TypesOf DEF RefInv, Alone, Stage
  <1>7. QED
    BY <1>4, <1>5, <1>6 DEF RefInv

\* The steps that make no window and drop no reference.
LEMMA RefQuiet ==
  ASSUME WindowsTyped, RefInv, WindowsNext
  PROVE  \/ RefInv'
         \/ \E t \in Threads : \/ \E g \in GroupIDs : OpenSSHWindow(t, g)
                               \/ \E p \in Spots : Make(t, p)
                               \/ \E w \in Made : Close(t, w)
                               \/ Look(t) \/ KeepReference(t) \/ DropReference(t)
  <1>1. ASSUME NEW t \in Threads, SaveFinal(t) PROVE RefInv'
    <2> DEFINE r == IF RememberPosition /\ windows[threads[t].of] # 0
                    /\ native[windows[threads[t].of]].place # Nil
          THEN [threads[t] EXCEPT !.at = "place", !.place = native[windows[threads[t].of]].place]
          ELSE [threads[t] EXCEPT !.at = "drop"]
    <2>1. r \in ThreadType /\ WellPlaced(r) /\ threads' = [threads EXCEPT ![t] = r]
      BY <1>1, SaveFinalMoves
    <2>2. /\ threads[t].op # "open" /\ r.op # "open" /\ threads[t].at # "keep" /\ r.at # "keep"
          /\ \A g \in GroupIDs : (r.op = "close" /\ r.of = g /\ r.at # "group") <=> Closing(t, g)
      BY <1>1, TypesOf, WindowsAssumption
      DEF SaveFinal, Rest, ThreadType, Stage, WellPlaced, Closing, Runs
    <2>3. UNCHANGED <<windows, crossed, native>>
      BY <1>1 DEF SaveFinal, refVars
    <2> HIDE DEF r
    <2>4. threads'[t] = r /\ \A u \in Threads : u # t => threads'[u] = threads[u]
      BY <2>1, ThreadMoves
    <2>5. QED
      BY <2>2, <2>3, <2>4, RefKept DEF Stage, Closing, Runs, Made
  <1>2. ASSUME NEW t \in Threads, NEW op \in {"tick", "hide", "shut"},
         NEW saved \in BOOLEAN, SaveMain(t, op, saved)
        PROVE  RefInv'
    <2> DEFINE r == MainThread(op, saved)
    <2>1. r \in ThreadType /\ WellPlaced(r) /\ threads' = [threads EXCEPT ![t] = r]
      BY <1>2, SaveMainMoves
    <2>2. /\ threads[t].op # "open" /\ r.op # "open" /\ threads[t].at # "keep" /\ r.at # "keep"
          /\ \A g \in GroupIDs : (r.op = "close" /\ r.of = g /\ r.at # "group") <=> Closing(t, g)
      BY <1>2, TypesOf, WindowsAssumption
      DEF SaveMain, MainThread, Rest, ThreadType, Stage, WellPlaced, Closing, Runs
    <2>3. UNCHANGED <<windows, crossed, native>>
      BY <1>2 DEF SaveMain, refVars
    <2> HIDE DEF r
    <2>4. threads'[t] = r /\ \A u \in Threads : u # t => threads'[u] = threads[u]
      BY <2>1, ThreadMoves
    <2>5. QED
      BY <2>2, <2>3, <2>4, RefKept DEF Stage, Closing, Runs, Made
  <1>3. ASSUME NEW t \in Threads, Remember(t) PROVE RefInv'
    <2> DEFINE r == [threads[t] EXCEPT !.at = "marshal"]
    <2>1. r \in ThreadType /\ WellPlaced(r) /\ threads' = [threads EXCEPT ![t] = r]
      BY <1>3, RememberMoves
    <2>2. /\ threads[t].op # "open" /\ r.op # "open" /\ threads[t].at # "keep" /\ r.at # "keep"
          /\ \A g \in GroupIDs : (r.op = "close" /\ r.of = g /\ r.at # "group") <=> Closing(t, g)
      BY <1>3, TypesOf, WindowsAssumption
      DEF Remember, Rest, ThreadType, Stage, WellPlaced, Closing, Runs
    <2>3. UNCHANGED <<windows, crossed, native>>
      BY <1>3 DEF Remember, refVars
    <2> HIDE DEF r
    <2>4. threads'[t] = r /\ \A u \in Threads : u # t => threads'[u] = threads[u]
      BY <2>1, ThreadMoves
    <2>5. QED
      BY <2>2, <2>3, <2>4, RefKept DEF Stage, Closing, Runs, Made
  <1>4. ASSUME NEW t \in Threads, Marshal(t) PROVE RefInv'
    <2> DEFINE r == [threads[t] EXCEPT !.at = "write", !.data = positions]
    <2>1. r \in ThreadType /\ WellPlaced(r) /\ threads' = [threads EXCEPT ![t] = r]
      BY <1>4, MarshalMoves
    <2>2. /\ threads[t].op # "open" /\ r.op # "open" /\ threads[t].at # "keep" /\ r.at # "keep"
          /\ \A g \in GroupIDs : (r.op = "close" /\ r.of = g /\ r.at # "group") <=> Closing(t, g)
      BY <1>4, TypesOf, WindowsAssumption
      DEF Marshal, Rest, ThreadType, Stage, WellPlaced, Closing, Runs
    <2>3. UNCHANGED <<windows, crossed, native>>
      BY <1>4 DEF Marshal, refVars
    <2> HIDE DEF r
    <2>4. threads'[t] = r /\ \A u \in Threads : u # t => threads'[u] = threads[u]
      BY <2>1, ThreadMoves
    <2>5. QED
      BY <2>2, <2>3, <2>4, RefKept DEF Stage, Closing, Runs, Made
  <1>5. ASSUME NEW t \in Threads, Write(t) \/ WriteFails(t) PROVE RefInv'
    <2> DEFINE r == IF threads[t].op = "close" THEN [threads[t] EXCEPT !.at = "drop"]
          ELSE IF threads[t].op = "hide" THEN [threads[t] EXCEPT !.at = "hide"] ELSE Rest
    <2>1. r \in ThreadType /\ WellPlaced(r) /\ threads' = [threads EXCEPT ![t] = r]
      BY <1>5, SaveEndsMoves DEF Write, WriteFails
    <2>2. /\ threads[t].op # "open" /\ r.op # "open" /\ threads[t].at # "keep" /\ r.at # "keep"
          /\ \A g \in GroupIDs : (r.op = "close" /\ r.of = g /\ r.at # "group") <=> Closing(t, g)
      BY <1>5, TypesOf, WindowsAssumption
      DEF Write, WriteFails, SaveEnds, Rest, ThreadType, Stage, WellPlaced, Closing, Runs
    <2>3. UNCHANGED <<windows, crossed, native>>
      BY <1>5 DEF Write, WriteFails, SaveEnds, refVars
    <2> HIDE DEF r
    <2>4. threads'[t] = r /\ \A u \in Threads : u # t => threads'[u] = threads[u]
      BY <2>1, ThreadMoves
    <2>5. QED
      BY <2>2, <2>3, <2>4, RefKept DEF Stage, Closing, Runs, Made
  <1>6. ASSUME NEW t \in Threads, ClearPositions(t) PROVE RefInv'
    <2> DEFINE r == [Rest EXCEPT !.op = "clear", !.of = Nil, !.at = "remove"]
    <2>1. r \in ThreadType /\ WellPlaced(r) /\ threads' = [threads EXCEPT ![t] = r]
      BY <1>6, ClearPositionsMoves
    <2>2. /\ threads[t].op # "open" /\ r.op # "open" /\ threads[t].at # "keep" /\ r.at # "keep"
          /\ \A g \in GroupIDs : (r.op = "close" /\ r.of = g /\ r.at # "group") <=> Closing(t, g)
      BY <1>6, TypesOf, WindowsAssumption
      DEF ClearPositions, Rest, ThreadType, Stage, WellPlaced, Closing, Runs, ThreadBegins
    <2>3. UNCHANGED <<windows, crossed, native>>
      BY <1>6 DEF ClearPositions, refVars
    <2> HIDE DEF r
    <2>4. threads'[t] = r /\ \A u \in Threads : u # t => threads'[u] = threads[u]
      BY <2>1, ThreadMoves
    <2>5. QED
      BY <2>2, <2>3, <2>4, RefKept DEF Stage, Closing, Runs, Made
  <1>7. ASSUME NEW t \in Threads, RemoveFile(t) PROVE RefInv'
    <2> DEFINE r == Rest
    <2>1. r \in ThreadType /\ WellPlaced(r) /\ threads' = [threads EXCEPT ![t] = r]
      BY <1>7, RemoveFileMoves
    <2>2. /\ threads[t].op # "open" /\ r.op # "open" /\ threads[t].at # "keep" /\ r.at # "keep"
          /\ \A g \in GroupIDs : (r.op = "close" /\ r.of = g /\ r.at # "group") <=> Closing(t, g)
      BY <1>7, TypesOf, WindowsAssumption
      DEF RemoveFile, Rest, ThreadType, Stage, WellPlaced, Closing, Runs
    <2>3. UNCHANGED <<windows, crossed, native>>
      BY <1>7 DEF RemoveFile, refVars
    <2> HIDE DEF r
    <2>4. threads'[t] = r /\ \A u \in Threads : u # t => threads'[u] = threads[u]
      BY <2>1, ThreadMoves
    <2>5. QED
      BY <2>2, <2>3, <2>4, RefKept DEF Stage, Closing, Runs, Made
  <1>8. ASSUME NEW t \in Threads, GroupClosed(t) PROVE RefInv'
    <2> DEFINE r == Rest
    <2>1. r \in ThreadType /\ WellPlaced(r) /\ threads' = [threads EXCEPT ![t] = r]
      BY <1>8, GroupClosedMoves
    <2>2. /\ threads[t].op # "open" /\ r.op # "open" /\ threads[t].at # "keep" /\ r.at # "keep"
          /\ \A g \in GroupIDs : (r.op = "close" /\ r.of = g /\ r.at # "group") <=> Closing(t, g)
      BY <1>8, TypesOf, WindowsAssumption
      DEF GroupClosed, Rest, ThreadType, Stage, WellPlaced, Closing, Runs
    <2>3. UNCHANGED <<windows, crossed, native>>
      BY <1>8 DEF GroupClosed, refVars
    <2> HIDE DEF r
    <2>4. threads'[t] = r /\ \A u \in Threads : u # t => threads'[u] = threads[u]
      BY <2>1, ThreadMoves
    <2>5. QED
      BY <2>2, <2>3, <2>4, RefKept DEF Stage, Closing, Runs, Made
  <1>9. ASSUME NEW t \in Threads, HideHome(t) PROVE RefInv'
    <2> DEFINE r == Rest
    <2>1. r \in ThreadType /\ WellPlaced(r) /\ threads' = [threads EXCEPT ![t] = r]
      BY <1>9, HideHomeMoves
    <2>2. /\ threads[t].op # "open" /\ r.op # "open" /\ threads[t].at # "keep" /\ r.at # "keep"
          /\ \A g \in GroupIDs : (r.op = "close" /\ r.of = g /\ r.at # "group") <=> Closing(t, g)
      BY <1>9, TypesOf, WindowsAssumption
      DEF HideHome, Rest, ThreadType, Stage, WellPlaced, Closing, Runs
    <2>3. UNCHANGED <<windows, crossed, native>>
      BY <1>9 DEF HideHome, refVars
    <2> HIDE DEF r
    <2>4. threads'[t] = r /\ \A u \in Threads : u # t => threads'[u] = threads[u]
      BY <2>1, ThreadMoves
    <2>5. QED
      BY <2>2, <2>3, <2>4, RefKept DEF Stage, Closing, Runs, Made
  <1>10. ASSUME NEW t \in Threads, NEW g \in GroupIDs, Tick(t, g) PROVE RefInv'
    <2>1. UNCHANGED <<windows, native, crossed>>
      BY <1>10 DEF Tick
    <2>2. CASE UNCHANGED threads
      BY <2>1, <2>2 DEF RefInv, Referred, Kept, Keeping, Alone, Closing, Runs, Stage, Made
    <2>3. CASE ~UNCHANGED threads
      <3> DEFINE r == [Rest EXCEPT !.op = "tick", !.of = g, !.at = "place", !.place = native[windows[g]].place]
      <3>1. r \in ThreadType /\ WellPlaced(r) /\ threads' = [threads EXCEPT ![t] = r] /\ threads[t] = Rest
        BY <1>10, <2>3, TickMoves
      <3>2. r.op = "tick" /\ r.at = "place"
        BY DEF Rest
      <3>3. threads[t].op # "open" /\ threads[t].op # "close" /\ threads[t].at # "keep"
        BY <3>1, WindowsAssumption DEF Rest
      <3> HIDE DEF r
      <3>4. threads'[t] = r /\ \A u \in Threads : u # t => threads'[u] = threads[u]
        BY <3>1, ThreadMoves
      <3>5. QED
        BY <2>1, <3>2, <3>3, <3>4, RefKept DEF Stage, Closing, Runs, Made
    <2>4. QED
      BY <2>2, <2>3
  <1>11. ASSUME NEW w \in Made, NEW p \in Places, Move(w, p) PROVE RefInv'
    <2> DEFINE r == [native[w] EXCEPT !.place = p]
    <2>1. Made' = Made /\ native'[w] = r /\ \A v \in Made : v # w => native'[v] = native[v]
      BY <1>11, MoveNative
    <2>2. r.of = native[w].of /\ r.open = native[w].open /\ r.kept = native[w].kept
      BY TypesOf DEF Window
    <2>3. UNCHANGED <<windows, crossed, threads>>
      BY <1>11 DEF Move
    <2> HIDE DEF r
    <2>4. \A v \in Made : /\ native'[v].of = native[v].of /\ native'[v].open = native[v].open
                          /\ native'[v].kept = native[v].kept
      BY <2>1, <2>2
    <2>5. Referred' /\ Kept'
      BY <2>1, <2>3, <2>4, TypesOf DEF RefInv, Referred, Kept, Keeping, Closing, Runs, Stage
    <2>6. \A g \in GroupIDs \ crossed : Alone(g)'
      BY <2>1, <2>3, <2>4, TypesOf DEF RefInv, Alone, Closing, Runs, Stage
    <2>7. QED
      BY <2>3, <2>5, <2>6 DEF RefInv
  <1>12. ASSUME ShowHome PROVE RefInv'
    BY <1>12
    DEF ShowHome, RefInv, Referred, Kept, Keeping, Alone, Closing, Runs, Stage, Made, refVars
  <1>13. QED
    BY <1>1, <1>2, <1>3, <1>4, <1>5, <1>6, <1>7, <1>8, <1>9, <1>10, <1>11, <1>12
    DEF WindowsNext, Opening, Saving, Closes, Places

\* A second open of a group is noted; a first one has nothing to keep yet.
LEMMA RefOpens ==
  ASSUME WindowsTyped, RefInv, NEW t \in Threads, NEW g \in GroupIDs, OpenSSHWindow(t, g)
  PROVE  RefInv'
  <1> DEFINE r == [Rest EXCEPT !.op = "open", !.of = g, !.at = "look"]
  <1>1. threads' = [threads EXCEPT ![t] = r] /\ r \in ThreadType /\ WellPlaced(r) /\ threads[t] = Rest
    BY OpenSSHWindowMoves DEF OpenSSHWindow, ThreadBegins
  <1>2. r.op = "open" /\ r.of = g /\ r.at = "look"
    BY DEF Rest
  <1>3. threads[t].op = Nil /\ threads[t].at = Nil
    BY <1>1 DEF Rest
  <1>4. UNCHANGED <<windows, native>> /\ crossed' = crossed \cup {h \in {g} : \E u \in Threads : Runs(u, "open", h)}
    BY DEF OpenSSHWindow
  <1> HIDE DEF r
  <1>5. threads'[t] = r /\ \A u \in Threads : u # t => threads'[u] = threads[u]
    BY <1>1, ThreadMoves
  <1>6. \A u \in Threads : (Stage(u, "keep")' <=> Stage(u, "keep")) /\ (Stage(u, "keep") => threads'[u] = threads[u])
    BY <1>2, <1>3, <1>5, WindowsAssumption DEF Stage
  <1>7. \A u \in Threads, h \in GroupIDs : Closing(u, h)' <=> Closing(u, h)
    BY <1>2, <1>3, <1>5, WindowsAssumption DEF Closing, Runs, Stage
  <1>8. Referred'
    BY <1>4, <1>7 DEF RefInv, Referred, Made
  <1>9. Kept'
    BY <1>4, <1>6 DEF RefInv, Kept, Keeping, Made
  <1>10. ASSUME NEW h \in GroupIDs \ crossed' PROVE Alone(h)'
    <2>1. Alone(h) /\ (h = g => \A u \in Threads : ~Runs(u, "open", h))
      BY <1>4, <1>10 DEF RefInv
    <2>2. \A u \in Threads : Runs(u, "open", h)' => u = t \/ (Runs(u, "open", h) /\ threads'[u] = threads[u])
      BY <1>5 DEF Runs
    <2>3. \A u, v \in Threads : Runs(u, "open", h)' /\ Runs(v, "open", h)' => u = v
      BY <1>2, <1>5, <2>1, <2>2 DEF Alone, Runs
    <2>4. \A u \in Threads : Runs(u, "open", h)' /\ ~Stage(u, "look")' => windows[h] = 0
      BY <1>2, <1>5, <2>1, <2>2 DEF Alone, Stage
    <2>5. QED
      BY <1>4, <1>7, <2>1, <2>3, <2>4 DEF Alone, Made
  <1>11. QED
    BY <1>8, <1>9, <1>10 DEF RefInv

\* A call that finds no window goes on to make one.
LEMMA RefLooks ==
  ASSUME WindowsTyped, RefInv, NEW t \in Threads, Look(t)
  PROVE  RefInv'
  <1> DEFINE g == threads[t].of
             r == IF windows[g] # 0 THEN Rest ELSE [threads[t] EXCEPT !.at = "make"]
  <1>1. threads' = [threads EXCEPT ![t] = r] /\ r \in ThreadType /\ WellPlaced(r)
    BY LookMoves
  <1>2. threads[t].at = "look" /\ threads[t].op = "open" /\ UNCHANGED <<windows, native, crossed>>
    BY TypesOf DEF Look, Stage, WellPlaced, refVars
  <1>3. \/ r.op = Nil /\ r.at = Nil
        \/ r.op = "open" /\ r.at = "make" /\ r.of = g /\ windows[g] = 0
    BY <1>2, TypesOf DEF Rest, ThreadType
  <1> HIDE DEF r
  <1>4. threads'[t] = r /\ \A u \in Threads : u # t => threads'[u] = threads[u]
    BY <1>1, ThreadMoves
  <1>5. \A u \in Threads : (Stage(u, "keep")' <=> Stage(u, "keep")) /\ (Stage(u, "keep") => threads'[u] = threads[u])
    BY <1>2, <1>3, <1>4, WindowsAssumption DEF Stage
  <1>6. \A u \in Threads, h \in GroupIDs : Closing(u, h)' <=> Closing(u, h)
    BY <1>2, <1>3, <1>4, WindowsAssumption DEF Closing, Runs, Stage
  <1>7. Referred'
    BY <1>2, <1>6 DEF RefInv, Referred, Made
  <1>8. Kept'
    BY <1>2, <1>5 DEF RefInv, Kept, Keeping, Made
  <1>9. ASSUME NEW h \in GroupIDs \ crossed' PROVE Alone(h)'
    <2>1. Alone(h)
      BY <1>2, <1>9 DEF RefInv
    <2>2. \A u \in Threads : Runs(u, "open", h)' => Runs(u, "open", h)
      BY <1>2, <1>3, <1>4, WindowsAssumption DEF Runs
    <2>3. \A u \in Threads : Runs(u, "open", h)' /\ ~Stage(u, "look")' => windows[h] = 0
      BY <1>2, <1>3, <1>4, <2>1, WindowsAssumption DEF Alone, Runs, Stage
    <2>4. QED
      BY <1>2, <1>6, <2>1, <2>2, <2>3 DEF Alone, Made
  <1>10. QED
    BY <1>7, <1>8, <1>9 DEF RefInv

\* The window that is made is kept by the call that made it.
LEMMA RefMakes ==
  ASSUME WindowsTyped, RefInv, NEW t \in Threads, NEW p \in Spots, Make(t, p)
  PROVE  RefInv'
  <1>0. PICK w : w = Cardinality(Made) + 1
    OBVIOUS
  <1> DEFINE g == threads[t].of
             r == [threads[t] EXCEPT !.at = "keep", !.window = w]
             x == [of |-> g, place |-> p, open |-> TRUE, kept |-> FALSE]
  <1>1. threads' = [threads EXCEPT ![t] = r] /\ r \in ThreadType /\ WellPlaced(r)
    BY <1>0, MakeMoves
  <1>2. threads[t].at = "make" /\ threads[t].op = "open" /\ UNCHANGED <<windows, crossed>>
    BY TypesOf DEF Make, Stage, WellPlaced
  <1>3. r.op = "open" /\ r.at = "keep" /\ r.of = g /\ r.window = w
    BY <1>2, TypesOf DEF ThreadType
  <1>4. /\ w \notin Made /\ w # 0 /\ Made' = Made \cup {w}
        /\ native'[w] = x /\ \A v \in Made : native'[v] = native[v]
    BY <1>0, MakeNative
  <1>5. x.of = g /\ x.open /\ ~x.kept
    OBVIOUS
  <1> HIDE DEF r, x
  <1>6. threads'[t] = r /\ \A u \in Threads : u # t => threads'[u] = threads[u]
    BY <1>1, ThreadMoves
  <1>7. \A u \in Threads, h \in GroupIDs : Closing(u, h)' <=> Closing(u, h)
    BY <1>2, <1>3, <1>6 DEF Closing, Runs, Stage
  <1>8. \A u \in Threads : Stage(u, "keep")' => u = t \/ (Stage(u, "keep") /\ threads'[u] = threads[u])
    BY <1>6 DEF Stage
  <1>9. \A u \in Threads : Stage(u, "keep") => u # t /\ threads'[u] = threads[u] /\ threads[u].window \in Made
    BY <1>2, <1>6, TypesOf DEF Stage
  <1>10. Referred'
    BY <1>2, <1>4, <1>7, TypesOf DEF RefInv, Referred
  <1>11. Kept'
    <2>1. \A u \in Threads : Stage(u, "keep")' =>
            /\ native'[threads'[u].window].of = threads'[u].of
            /\ native'[threads'[u].window].open /\ ~native'[threads'[u].window].kept
      BY <1>3, <1>4, <1>5, <1>6, <1>8, <1>9 DEF RefInv, Kept
    <2>2. \A u, v \in Threads : Stage(u, "keep")' /\ Stage(v, "keep")' /\ threads'[u].window = threads'[v].window => u = v
      BY <1>3, <1>4, <1>6, <1>8, <1>9 DEF RefInv, Kept
    <2>3. ASSUME NEW v \in Made', native'[v].open, ~native'[v].kept
          PROVE  \E u \in Threads : Keeping(u, v)'
      <3>1. CASE v = w
        BY <1>3, <1>6, <3>1 DEF Keeping, Stage
      <3>2. CASE v # w
        BY <1>4, <1>6, <1>9, <2>3, <3>2 DEF RefInv, Kept, Keeping, Stage
      <3>3. QED
        BY <3>1, <3>2
    <2>4. QED
      BY <2>1, <2>2, <2>3 DEF Kept
  <1>12. ASSUME NEW h \in GroupIDs \ crossed' PROVE Alone(h)'
    <2>1. Alone(h)
      BY <1>2, <1>12 DEF RefInv
    <2>2. \A u \in Threads : Runs(u, "open", h)' <=> Runs(u, "open", h)
      BY <1>2, <1>3, <1>6 DEF Runs
    <2>3. \A u \in Threads : Stage(u, "look")' <=> Stage(u, "look")
      BY <1>2, <1>3, <1>6 DEF Stage
    <2>4. \A v \in Made' : native'[v].open /\ native'[v].kept /\ native'[v].of = h => windows[h] = v
      BY <1>4, <1>5, <2>1 DEF Alone
    <2>5. \A u \in Threads : Closing(u, h)' => windows[h] # 0 /\ ~native'[windows[h]].open
      BY <1>4, <1>7, <2>1, TypesOf DEF Alone
    <2>6. QED
      BY <1>2, <1>7, <2>1, <2>2, <2>3, <2>4, <2>5 DEF Alone
  <1>13. QED
    BY <1>10, <1>11, <1>12 DEF RefInv

\* The call that made a window makes it the one of its group.
LEMMA RefKeeps ==
  ASSUME WindowsTyped, RefInv, NEW t \in Threads, KeepReference(t)
  PROVE  RefInv'
  <1>0. PICK w, g : w = threads[t].window /\ g = threads[t].of
    OBVIOUS
  <1> DEFINE x == [native[w] EXCEPT !.kept = TRUE]
  <1>1. threads' = [threads EXCEPT ![t] = Rest] /\ Rest \in ThreadType /\ WellPlaced(Rest)
    BY KeepReferenceMoves
  <1>2. threads[t].at = "keep" /\ threads[t].op = "open" /\ UNCHANGED crossed /\ windows' = [windows EXCEPT ![g] = w]
    BY <1>0, TypesOf DEF KeepReference, Stage, WellPlaced
  <1>3. Rest.op = Nil /\ Rest.at = Nil
    BY DEF Rest
  <1>4. /\ w \in Made /\ w # 0 /\ Made' = Made /\ g \in GroupIDs
        /\ native'[w] = x /\ \A v \in Made : v # w => native'[v] = native[v]
    BY <1>0, KeepNative
  <1>5. native[w].of = g /\ native[w].open /\ ~native[w].kept
    BY <1>0, <1>2 DEF RefInv, Kept, Stage
  <1>6. x.of = g /\ x.open /\ x.kept
    BY <1>4, <1>5, TypesOf DEF Window
  <1> HIDE DEF x
  <1>7. threads'[t] = Rest /\ \A u \in Threads : u # t => threads'[u] = threads[u]
    BY <1>1, ThreadMoves
  <1>8. \A u \in Threads, h \in GroupIDs : Closing(u, h)' <=> Closing(u, h)
    BY <1>2, <1>3, <1>7, WindowsAssumption DEF Closing, Runs, Stage
  <1>9. \A u \in Threads : Stage(u, "keep")' => u # t /\ Stage(u, "keep") /\ threads'[u] = threads[u] /\ threads[u].window # w
    BY <1>0, <1>2, <1>3, <1>7, WindowsAssumption DEF RefInv, Kept, Stage
  <1>10. windows'[g] = w /\ \A h \in GroupIDs : h # g => windows'[h] = windows[h]
    BY <1>2, <1>4, TypesOf
  <1>11. Referred'
    <2>1. ASSUME NEW h \in GroupIDs, windows'[h] # 0
          PROVE  /\ native'[windows'[h]].of = h /\ native'[windows'[h]].kept
                 /\ native'[windows'[h]].open \/ \E u \in Threads : Closing(u, h)'
      <3>1. CASE h = g
        BY <1>4, <1>6, <1>10, <3>1
      <3>2. CASE h # g
        <4>1. windows[h] # 0 /\ windows'[h] = windows[h] /\ windows[h] \in Made /\ native[windows[h]].of = h
          BY <1>10, <2>1, <3>2, TypesOf DEF RefInv, Referred
        <4>2. windows[h] # w
          BY <1>5, <3>2, <4>1
        <4>3. QED
          BY <1>4, <1>8, <4>1, <4>2 DEF RefInv, Referred
      <3>3. QED
        BY <3>1, <3>2
    <2>2. QED
      BY <2>1 DEF Referred
  <1>12. Kept'
    <2>1. \A u \in Threads : Stage(u, "keep")' =>
            /\ native'[threads'[u].window].of = threads'[u].of
            /\ native'[threads'[u].window].open /\ ~native'[threads'[u].window].kept
      BY <1>4, <1>9, TypesOf DEF RefInv, Kept
    <2>2. \A u, v \in Threads : Stage(u, "keep")' /\ Stage(v, "keep")' /\ threads'[u].window = threads'[v].window => u = v
      BY <1>9 DEF RefInv, Kept
    <2>3. ASSUME NEW v \in Made', native'[v].open, ~native'[v].kept
          PROVE  \E u \in Threads : Keeping(u, v)'
      <3>1. v # w /\ v \in Made
        BY <1>4, <1>6, <2>3
      <3>2. PICK u \in Threads : Stage(u, "keep") /\ threads[u].window = v
        BY <1>4, <2>3, <3>1 DEF RefInv, Kept, Keeping
      <3>3. QED
        BY <1>0, <1>7, <3>1, <3>2 DEF Keeping, Stage
    <2>4. QED
      BY <2>1, <2>2, <2>3 DEF Kept
  <1>13. ASSUME NEW h \in GroupIDs \ crossed' PROVE Alone(h)'
    <2>1. Alone(h)
      BY <1>2, <1>13 DEF RefInv
    <2>2. \A u \in Threads : Runs(u, "open", h)' => u # t /\ Runs(u, "open", h) /\ threads'[u] = threads[u]
      BY <1>3, <1>7, WindowsAssumption DEF Runs
    <2>3. CASE h # g
      <3>1. \A v \in Made : native'[v].of = h => v # w /\ native'[v] = native[v]
        BY <1>4, <1>6, <2>3
      <3>2. windows'[h] = windows[h] /\ (windows[h] # 0 => windows[h] \in Made /\ windows[h] # w)
        BY <1>5, <1>10, <2>3, TypesOf DEF RefInv, Referred
      <3>3. QED
        BY <1>4, <1>8, <2>1, <2>2, <3>1, <3>2 DEF Alone, Stage
    <2>4. CASE h = g
      <3>1. windows[g] = 0 /\ Runs(t, "open", g)
        BY <1>0, <1>2, <2>1, <2>4 DEF Alone, Stage, Runs
      <3>2. \A u \in Threads : ~Runs(u, "open", g)'
        BY <2>1, <2>2, <2>4, <3>1 DEF Alone
      <3>3. \A u \in Threads : ~Closing(u, g)'
        BY <1>8, <2>1, <2>4, <3>1 DEF Alone
      <3>4. \A v \in Made : native'[v].open /\ native'[v].kept /\ native'[v].of = g => v = w
        BY <1>4, <2>1, <2>4, <3>1, NativeOf DEF Alone
      <3>5. QED
        BY <1>4, <1>10, <2>4, <3>2, <3>3, <3>4 DEF Alone
    <2>5. QED
      BY <2>3, <2>4
  <1>14. QED
    BY <1>11, <1>12, <1>13 DEF RefInv

\* A window that closes has a handler that will drop its reference.
LEMMA RefCloses ==
  ASSUME WindowsTyped, RefInv, NEW t \in Threads, NEW w \in Made, Close(t, w)
  PROVE  RefInv'
  <1>0. PICK g : g = native[w].of
    OBVIOUS
  <1> DEFINE r == [Rest EXCEPT !.op = "close", !.of = g, !.at = "save"]
             x == [native[w] EXCEPT !.open = FALSE]
  <1>1. threads' = [threads EXCEPT ![t] = r] /\ r \in ThreadType /\ WellPlaced(r) /\ threads[t] = Rest
    BY <1>0, CloseMoves DEF Close, ThreadBegins
  <1>2. UNCHANGED <<windows, crossed>>
    BY DEF Close
  <1>3. r.op = "close" /\ r.of = g /\ r.at = "save" /\ threads[t].op = Nil /\ threads[t].at = Nil
    BY <1>1 DEF Rest
  <1>4. /\ Made' = Made /\ native[w].open /\ native[w].kept /\ g \in GroupIDs
        /\ native'[w] = x /\ \A v \in Made : v # w => native'[v] = native[v]
    BY <1>0, CloseNative
  <1>5. x.of = g /\ ~x.open /\ x.kept
    BY <1>0, <1>4, TypesOf DEF Window
  <1> HIDE DEF r, x
  <1>6. threads'[t] = r /\ \A u \in Threads : u # t => threads'[u] = threads[u]
    BY <1>1, ThreadMoves
  <1>7. \A u \in Threads, h \in GroupIDs : Closing(u, h)' <=> Closing(u, h) \/ (u = t /\ h = g)
    BY <1>3, <1>6, WindowsAssumption DEF Closing, Runs, Stage
  <1>8. \A u \in Threads : (Stage(u, "keep")' <=> Stage(u, "keep")) /\ (Stage(u, "keep") => threads'[u] = threads[u])
    BY <1>3, <1>6, WindowsAssumption DEF Stage
  <1>9. \A u \in Threads, h \in GroupIDs : /\ Runs(u, "open", h)' <=> Runs(u, "open", h)
                                           /\ Runs(u, "open", h) => threads'[u] = threads[u]
    BY <1>3, <1>6, WindowsAssumption DEF Runs
  <1>10. Referred'
    <2>1. ASSUME NEW h \in GroupIDs, windows[h] # 0
          PROVE  /\ native'[windows[h]].of = h /\ native'[windows[h]].kept
                 /\ native'[windows[h]].open \/ \E u \in Threads : Closing(u, h)'
      <3>1. /\ windows[h] \in Made /\ native[windows[h]].of = h /\ native[windows[h]].kept
            /\ native[windows[h]].open \/ \E u \in Threads : Closing(u, h)
        BY <2>1, TypesOf DEF RefInv, Referred
      <3>2. CASE windows[h] = w
        BY <1>0, <1>4, <1>5, <1>7, <3>1, <3>2
      <3>3. CASE windows[h] # w
        BY <1>4, <1>7, <3>1, <3>3
      <3>4. QED
        BY <3>2, <3>3
    <2>2. QED
      BY <1>2, <2>1 DEF Referred
  <1>11. Kept'
    <2>1. \A u \in Threads : Stage(u, "keep") => threads[u].window \in Made /\ threads[u].window # w
      BY <1>4, TypesOf DEF RefInv, Kept
    <2>2. \A v \in Made : native'[v].open => v # w /\ native'[v] = native[v]
      BY <1>4, <1>5
    <2>3. QED
      BY <1>4, <1>8, <2>1, <2>2 DEF RefInv, Kept, Keeping
  <1>12. ASSUME NEW h \in GroupIDs \ crossed' PROVE Alone(h)'
    <2>1. Alone(h)
      BY <1>2, <1>12 DEF RefInv
    <2>2. \A v \in Made : native'[v].open => v # w /\ native'[v] = native[v]
      BY <1>4, <1>5
    <2>3. CASE h # g
      <3>1. windows[h] # 0 => windows[h] \in Made /\ windows[h] # w
        BY <1>0, <2>3, TypesOf DEF RefInv, Referred
      <3>2. QED
        BY <1>2, <1>4, <1>7, <1>9, <2>1, <2>2, <2>3, <3>1 DEF Alone, Stage
    <2>4. CASE h = g
      <3>1. windows[g] = w
        BY <1>0, <1>4, <2>1, <2>4 DEF Alone
      <3>2. w # 0
        BY NativeOf
      <3>3. \A u \in Threads : ~Closing(u, g)
        BY <1>4, <2>1, <2>4, <3>1 DEF Alone
      <3>4. QED
        BY <1>2, <1>4, <1>5, <1>7, <1>9, <2>1, <2>2, <2>4, <3>1, <3>2, <3>3 DEF Alone, Stage
    <2>5. QED
      BY <2>3, <2>4
  <1>13. QED
    BY <1>10, <1>11, <1>12 DEF RefInv

\* The handler drops the reference, to a window that is closed if the group has only one.
LEMMA RefDrops ==
  ASSUME WindowsTyped, RefInv, NEW t \in Threads, DropReference(t)
  PROVE  RefInv'
  <1>0. PICK g : g = threads[t].of
    OBVIOUS
  <1> DEFINE r == [threads[t] EXCEPT !.at = "group"]
  <1>1. threads' = [threads EXCEPT ![t] = r] /\ r \in ThreadType /\ WellPlaced(r)
    BY DropReferenceMoves
  <1>2. /\ threads[t].op = "close" /\ threads[t].at = "drop" /\ g \in GroupIDs
        /\ UNCHANGED <<native, crossed>> /\ windows' = [windows EXCEPT ![g] = 0]
    BY <1>0, TypesOf DEF DropReference, Stage, WellPlaced
  <1>3. r.op = "close" /\ r.of = g /\ r.at = "group"
    BY <1>0, <1>2, TypesOf DEF ThreadType
  <1> HIDE DEF r
  <1>4. threads'[t] = r /\ \A u \in Threads : u # t => threads'[u] = threads[u]
    BY <1>1, ThreadMoves
  <1>5. \A u \in Threads, h \in GroupIDs : Closing(u, h)' <=> Closing(u, h) /\ u # t
    BY <1>3, <1>4 DEF Closing, Runs, Stage
  <1>6. Closing(t, g) /\ \A h \in GroupIDs : Closing(t, h) => h = g
    BY <1>0, <1>2 DEF Closing, Runs, Stage
  <1>7. \A u \in Threads : (Stage(u, "keep")' <=> Stage(u, "keep")) /\ (Stage(u, "keep") => threads'[u] = threads[u])
    BY <1>2, <1>3, <1>4 DEF Stage
  <1>8. \A u \in Threads, h \in GroupIDs : /\ Runs(u, "open", h)' <=> Runs(u, "open", h)
                                           /\ Runs(u, "open", h) => threads'[u] = threads[u]
    BY <1>2, <1>3, <1>4 DEF Runs
  <1>9. windows'[g] = 0 /\ \A h \in GroupIDs : h # g => windows'[h] = windows[h]
    BY <1>2, TypesOf
  <1>10. Referred'
    BY <1>2, <1>5, <1>6, <1>9 DEF RefInv, Referred
  <1>11. Kept'
    BY <1>2, <1>7 DEF RefInv, Kept, Keeping, Made
  <1>12. ASSUME NEW h \in GroupIDs \ crossed' PROVE Alone(h)'
    <2>1. Alone(h)
      BY <1>2, <1>12 DEF RefInv
    <2>2. CASE h # g
      BY <1>2, <1>5, <1>8, <1>9, <2>1, <2>2 DEF Alone, Stage, Made
    <2>3. CASE h = g
      <3>1. \A u \in Threads : ~Closing(u, g)'
        BY <1>5, <1>6, <2>1, <2>3 DEF Alone
      <3>2. \A v \in Made : ~(native[v].open /\ native[v].kept /\ native[v].of = g)
        BY <1>6, <2>1, <2>3 DEF Alone
      <3>3. QED
        BY <1>2, <1>8, <1>9, <2>1, <2>3, <3>1, <3>2 DEF Alone, Stage, Made
    <2>4. QED
      BY <2>2, <2>3
  <1>13. QED
    BY <1>10, <1>11, <1>12 DEF RefInv

\* Every step keeps references and windows in agreement.
LEMMA RefStep ==
  ASSUME WindowsTyped, RefInv, [WindowsNext]_windowsVars
  PROVE  RefInv'
  <1>1. CASE WindowsNext
    BY <1>1, RefQuiet, RefOpens, RefMakes, RefCloses, RefLooks, RefKeeps, RefDrops
  <1>2. CASE UNCHANGED windowsVars
    BY <1>2
    DEF RefInv, Referred, Kept, Keeping, Alone, Closing, Runs, Stage, Made, windowsVars, refVars
  <1>3. QED
    BY <1>1, <1>2

\* At first there is nothing to refer to.
LEMMA RefInit == WindowsInit => RefInv
  <1> SUFFICES ASSUME WindowsInit PROVE RefInv
    OBVIOUS
  <1>1. \A t \in Threads : threads[t].op = Nil /\ threads[t].at = Nil
    BY DEF WindowsInit, Rest
  <1>2. Made = {} /\ \A g \in GroupIDs : windows[g] = 0
    BY DEF WindowsInit, Made
  <1>3. QED
    BY <1>1, <1>2, WindowsAssumption DEF RefInv, Referred, Kept, Alone, Closing, Runs, Stage

\* For every number of groups, windows and threads: a group's reference is to a window that is
\* open or whose handler will drop it, and an open window is that of its group, unless two
\* opens of the group overlapped.
THEOREM ReferencesTrue == WindowsSpec => []ReferencesAreTrue
  <1>1. WindowsTyped /\ RefInv => ReferencesAreTrue
    <2> SUFFICES ASSUME WindowsTyped, RefInv PROVE ReferencesAreTrue
      OBVIOUS
    <2>1. \A w \in Made : native[w].of \in GroupIDs
      BY TypesOf DEF Window
    <2>2. QED
      BY <2>1 DEF ReferencesAreTrue, RefInv, Referred, Alone, Closing, Open
  <1>2. QED
    BY <1>1, WindowsTypedInit, WindowsTypedStep, RefInit, RefStep, PTL DEF WindowsSpec

-----------------------------------------------------------------------------
\* A step after which no window is open that was not, and home is hidden only if it was: what
\* was due is done or still waits for a handler.
LEMMA HomeKept ==
  ASSUME HomeInv, due' = due, home # "hidden" => home' # "hidden", Made' = Made,
         \A w \in Made : native'[w].open => native[w].open,
         \A u \in Threads : threads[u].op = "close" => threads'[u].op = "close"
  PROVE  HomeInv'
  BY DEF HomeInv, Open

\* The last handler to come finds no window of any group and shows the home window.
LEMMA HomeShows ==
  ASSUME WindowsTyped, RefInv, HomeInv, NEW t \in Threads, GroupClosed(t)
  PROVE  HomeInv'
  <1>1. /\ threads' = [threads EXCEPT ![t] = Rest] /\ UNCHANGED <<due, native, windows>>
        /\ home' = IF AutoShowHome /\ \A g \in GroupIDs : windows[g] = 0 THEN Shown ELSE home
        /\ threads[t].at = "group"
    BY DEF GroupClosed, ThreadEnds, refVars, Stage
  <1>2. \A u \in Threads : u # t => threads'[u] = threads[u]
    BY <1>1, TypesOf
  <1>3. ASSUME due, AutoShowHome, home' = "hidden"
        PROVE  \E u \in Threads : threads'[u].op = "close"
    <2>1. PICK g \in GroupIDs : windows[g] # 0
      BY <1>1, <1>3 DEF Shown
    <2>2. ~native[windows[g]].open
      BY <1>3, <2>1, TypesOf DEF HomeInv, Open
    <2>3. PICK u \in Threads : Closing(u, g)
      BY <2>1, <2>2 DEF RefInv, Referred
    <2>4. u # t /\ threads[u].op = "close"
      BY <1>1, <2>3 DEF Closing, Runs, Stage
    <2>5. QED
      BY <1>2, <2>4
  <1>4. QED
    BY <1>1, <1>3 DEF HomeInv, Open, Made

\* Every step keeps the home window there or owed by a handler.
LEMMA HomeStep ==
  ASSUME WindowsTyped, RefInv, HomeInv, WindowsNext
  PROVE  HomeInv'
  <1>1. ASSUME NEW t \in Threads, NEW g \in GroupIDs, OpenSSHWindow(t, g) PROVE HomeInv'
    <2> DEFINE r == [Rest EXCEPT !.op = "open", !.of = g, !.at = "look"]
    <2>1. r \in ThreadType /\ WellPlaced(r) /\ threads' = [threads EXCEPT ![t] = r]
      BY <1>1, OpenSSHWindowMoves
    <2>2. threads[t].op = "close" => r.op = "close"
      BY <1>1, TypesOf, WindowsAssumption
      DEF OpenSSHWindow, Rest, ThreadType, Stage, WellPlaced, ThreadBegins
    <2>3. UNCHANGED <<due, home, native>>
      BY <1>1 DEF OpenSSHWindow, refVars
    <2> HIDE DEF r
    <2>4. threads'[t] = r /\ \A u \in Threads : u # t => threads'[u] = threads[u]
      BY <2>1, ThreadMoves
    <2>5. QED
      BY <2>2, <2>3, <2>4, HomeKept DEF Made
  <1>2. ASSUME NEW t \in Threads, Look(t) PROVE HomeInv'
    <2> DEFINE r == IF windows[threads[t].of] # 0 THEN Rest ELSE [threads[t] EXCEPT !.at = "make"]
    <2>1. r \in ThreadType /\ WellPlaced(r) /\ threads' = [threads EXCEPT ![t] = r]
      BY <1>2, LookMoves
    <2>2. threads[t].op = "close" => r.op = "close"
      BY <1>2, TypesOf, WindowsAssumption
      DEF Look, Rest, ThreadType, Stage, WellPlaced
    <2>3. UNCHANGED <<due, home, native>>
      BY <1>2 DEF Look, refVars
    <2> HIDE DEF r
    <2>4. threads'[t] = r /\ \A u \in Threads : u # t => threads'[u] = threads[u]
      BY <2>1, ThreadMoves
    <2>5. QED
      BY <2>2, <2>3, <2>4, HomeKept DEF Made
  <1>3. ASSUME NEW t \in Threads, SaveFinal(t) PROVE HomeInv'
    <2> DEFINE r == IF RememberPosition /\ windows[threads[t].of] # 0
                    /\ native[windows[threads[t].of]].place # Nil
          THEN [threads[t] EXCEPT !.at = "place", !.place = native[windows[threads[t].of]].place]
          ELSE [threads[t] EXCEPT !.at = "drop"]
    <2>1. r \in ThreadType /\ WellPlaced(r) /\ threads' = [threads EXCEPT ![t] = r]
      BY <1>3, SaveFinalMoves
    <2>2. threads[t].op = "close" => r.op = "close"
      BY <1>3, TypesOf, WindowsAssumption
      DEF SaveFinal, Rest, ThreadType, Stage, WellPlaced
    <2>3. UNCHANGED <<due, home, native>>
      BY <1>3 DEF SaveFinal, refVars
    <2> HIDE DEF r
    <2>4. threads'[t] = r /\ \A u \in Threads : u # t => threads'[u] = threads[u]
      BY <2>1, ThreadMoves
    <2>5. QED
      BY <2>2, <2>3, <2>4, HomeKept DEF Made
  <1>4. ASSUME NEW t \in Threads, NEW op \in {"tick", "hide", "shut"},
         NEW saved \in BOOLEAN, SaveMain(t, op, saved)
        PROVE  HomeInv'
    <2> DEFINE r == MainThread(op, saved)
    <2>1. r \in ThreadType /\ WellPlaced(r) /\ threads' = [threads EXCEPT ![t] = r]
      BY <1>4, SaveMainMoves
    <2>2. threads[t].op = "close" => r.op = "close"
      BY <1>4, TypesOf, WindowsAssumption
      DEF SaveMain, MainThread, Rest, ThreadType, Stage, WellPlaced
    <2>3. UNCHANGED <<due, native>> /\ (home # "hidden" => home' # "hidden")
      BY <1>4 DEF SaveMain, refVars
    <2> HIDE DEF r
    <2>4. threads'[t] = r /\ \A u \in Threads : u # t => threads'[u] = threads[u]
      BY <2>1, ThreadMoves
    <2>5. QED
      BY <2>2, <2>3, <2>4, HomeKept DEF Made
  <1>5. ASSUME NEW t \in Threads, Remember(t) PROVE HomeInv'
    <2> DEFINE r == [threads[t] EXCEPT !.at = "marshal"]
    <2>1. r \in ThreadType /\ WellPlaced(r) /\ threads' = [threads EXCEPT ![t] = r]
      BY <1>5, RememberMoves
    <2>2. threads[t].op = "close" => r.op = "close"
      BY <1>5, TypesOf, WindowsAssumption
      DEF Remember, Rest, ThreadType, Stage, WellPlaced
    <2>3. UNCHANGED <<due, home, native>>
      BY <1>5 DEF Remember, refVars
    <2> HIDE DEF r
    <2>4. threads'[t] = r /\ \A u \in Threads : u # t => threads'[u] = threads[u]
      BY <2>1, ThreadMoves
    <2>5. QED
      BY <2>2, <2>3, <2>4, HomeKept DEF Made
  <1>6. ASSUME NEW t \in Threads, Marshal(t) PROVE HomeInv'
    <2> DEFINE r == [threads[t] EXCEPT !.at = "write", !.data = positions]
    <2>1. r \in ThreadType /\ WellPlaced(r) /\ threads' = [threads EXCEPT ![t] = r]
      BY <1>6, MarshalMoves
    <2>2. threads[t].op = "close" => r.op = "close"
      BY <1>6, TypesOf, WindowsAssumption
      DEF Marshal, Rest, ThreadType, Stage, WellPlaced
    <2>3. UNCHANGED <<due, home, native>>
      BY <1>6 DEF Marshal, refVars
    <2> HIDE DEF r
    <2>4. threads'[t] = r /\ \A u \in Threads : u # t => threads'[u] = threads[u]
      BY <2>1, ThreadMoves
    <2>5. QED
      BY <2>2, <2>3, <2>4, HomeKept DEF Made
  <1>7. ASSUME NEW t \in Threads, Write(t) \/ WriteFails(t) PROVE HomeInv'
    <2> DEFINE r == IF threads[t].op = "close" THEN [threads[t] EXCEPT !.at = "drop"]
          ELSE IF threads[t].op = "hide" THEN [threads[t] EXCEPT !.at = "hide"] ELSE Rest
    <2>1. r \in ThreadType /\ WellPlaced(r) /\ threads' = [threads EXCEPT ![t] = r]
      BY <1>7, SaveEndsMoves DEF Write, WriteFails
    <2>2. threads[t].op = "close" => r.op = "close"
      BY <1>7, TypesOf, WindowsAssumption
      DEF Write, WriteFails, SaveEnds, Rest, ThreadType, Stage, WellPlaced
    <2>3. UNCHANGED <<due, home, native>>
      BY <1>7 DEF Write, WriteFails, SaveEnds, refVars
    <2> HIDE DEF r
    <2>4. threads'[t] = r /\ \A u \in Threads : u # t => threads'[u] = threads[u]
      BY <2>1, ThreadMoves
    <2>5. QED
      BY <2>2, <2>3, <2>4, HomeKept DEF Made
  <1>8. ASSUME NEW t \in Threads, ClearPositions(t) PROVE HomeInv'
    <2> DEFINE r == [Rest EXCEPT !.op = "clear", !.of = Nil, !.at = "remove"]
    <2>1. r \in ThreadType /\ WellPlaced(r) /\ threads' = [threads EXCEPT ![t] = r]
      BY <1>8, ClearPositionsMoves
    <2>2. threads[t].op = "close" => r.op = "close"
      BY <1>8, TypesOf, WindowsAssumption
      DEF ClearPositions, Rest, ThreadType, Stage, WellPlaced, ThreadBegins
    <2>3. UNCHANGED <<due, home, native>>
      BY <1>8 DEF ClearPositions, refVars
    <2> HIDE DEF r
    <2>4. threads'[t] = r /\ \A u \in Threads : u # t => threads'[u] = threads[u]
      BY <2>1, ThreadMoves
    <2>5. QED
      BY <2>2, <2>3, <2>4, HomeKept DEF Made
  <1>9. ASSUME NEW t \in Threads, RemoveFile(t) PROVE HomeInv'
    <2> DEFINE r == Rest
    <2>1. r \in ThreadType /\ WellPlaced(r) /\ threads' = [threads EXCEPT ![t] = r]
      BY <1>9, RemoveFileMoves
    <2>2. threads[t].op = "close" => r.op = "close"
      BY <1>9, TypesOf, WindowsAssumption
      DEF RemoveFile, Rest, ThreadType, Stage, WellPlaced
    <2>3. UNCHANGED <<due, home, native>>
      BY <1>9 DEF RemoveFile, refVars
    <2> HIDE DEF r
    <2>4. threads'[t] = r /\ \A u \in Threads : u # t => threads'[u] = threads[u]
      BY <2>1, ThreadMoves
    <2>5. QED
      BY <2>2, <2>3, <2>4, HomeKept DEF Made
  <1>10. ASSUME NEW t \in Threads, DropReference(t) PROVE HomeInv'
    <2> DEFINE r == [threads[t] EXCEPT !.at = "group"]
    <2>1. r \in ThreadType /\ WellPlaced(r) /\ threads' = [threads EXCEPT ![t] = r]
      BY <1>10, DropReferenceMoves
    <2>2. threads[t].op = "close" => r.op = "close"
      BY <1>10, TypesOf, WindowsAssumption
      DEF DropReference, Rest, ThreadType, Stage, WellPlaced
    <2>3. UNCHANGED <<due, home, native>>
      BY <1>10 DEF DropReference, refVars
    <2> HIDE DEF r
    <2>4. threads'[t] = r /\ \A u \in Threads : u # t => threads'[u] = threads[u]
      BY <2>1, ThreadMoves
    <2>5. QED
      BY <2>2, <2>3, <2>4, HomeKept DEF Made
  <1>11. ASSUME NEW t \in Threads, NEW g \in GroupIDs, Tick(t, g) PROVE HomeInv'
    <2>1. UNCHANGED <<native, home, due>>
      BY <1>11 DEF Tick
    <2>2. CASE UNCHANGED threads
      BY <2>1, <2>2, HomeKept DEF Made
    <2>3. CASE ~UNCHANGED threads
      <3> DEFINE r == [Rest EXCEPT !.op = "tick", !.of = g, !.at = "place", !.place = native[windows[g]].place]
      <3>1. r \in ThreadType /\ WellPlaced(r) /\ threads' = [threads EXCEPT ![t] = r] /\ threads[t] = Rest
        BY <1>11, <2>3, TickMoves
      <3>2. threads[t].op # "close"
        BY <3>1, WindowsAssumption DEF Rest
      <3> HIDE DEF r
      <3>3. \A u \in Threads : u # t => threads'[u] = threads[u]
        BY <3>1, ThreadMoves
      <3>4. QED
        BY <2>1, <3>2, <3>3, HomeKept DEF Made
    <2>4. QED
      BY <2>2, <2>3
  <1>12. ASSUME NEW w \in Made, NEW p \in Places, Move(w, p) PROVE HomeInv'
    <2>1. UNCHANGED <<threads, home, due>> /\ Made' = Made
      BY <1>12, MoveNative DEF Move
    <2>2. \A v \in Made : native'[v].open => native[v].open
      BY <1>12, MoveNative
    <2>3. QED
      BY <2>1, <2>2, HomeKept
  <1>13. ASSUME NEW t \in Threads, KeepReference(t) PROVE HomeInv'
    <2>1. UNCHANGED <<home, due>> /\ Made' = Made
      BY <1>13, KeepNative DEF KeepReference
    <2>2. \A v \in Made : native'[v].open => native[v].open
      BY <1>13, TypesOf, KeepNative DEF Window
    <2>3. threads[t].op = "open" /\ \A u \in Threads : u # t => threads'[u] = threads[u]
      BY <1>13, TypesOf, KeepReferenceMoves DEF KeepReference, Stage, WellPlaced
    <2>4. QED
      BY <2>1, <2>2, <2>3, HomeKept
  <1>14. ASSUME NEW t \in Threads, HideHome(t) \/ (\E p \in Spots : Make(t, p)) PROVE HomeInv'
    BY <1>14 DEF HideHome, Make, HomeInv
  <1>15. ASSUME NEW t \in Threads, NEW w \in Made, Close(t, w) PROVE HomeInv'
    <2> DEFINE r == [Rest EXCEPT !.op = "close", !.of = native[w].of, !.at = "save"]
    <2>1. threads' = [threads EXCEPT ![t] = r] /\ r \in ThreadType /\ WellPlaced(r)
      BY <1>15, CloseMoves
    <2>2. r.op = "close"
      BY DEF Rest
    <2> HIDE DEF r
    <2>3. threads'[t].op = "close"
      BY <2>1, <2>2, ThreadMoves
    <2>4. due' = (due \/ Open = {w}) /\ w \in Open
      BY <1>15 DEF Close
    <2>5. Open' = Open \ {w}
      <3> DEFINE x == [native[w] EXCEPT !.open = FALSE]
      <3>1. ~x.open
        BY TypesOf DEF Window
      <3>2. Made' = Made /\ native'[w] = x /\ \A v \in Made : v # w => native'[v] = native[v]
        BY <1>15, CloseNative
      <3> HIDE DEF x
      <3>3. QED
        BY <3>1, <3>2 DEF Open
    <2>6. QED
      BY <2>3, <2>4, <2>5 DEF HomeInv
  <1>16. ASSUME ShowHome PROVE HomeInv'
    BY <1>16, HomeKept DEF ShowHome, refVars, Made
  <1>17. QED
    BY <1>1, <1>2, <1>3, <1>4, <1>5, <1>6, <1>7, <1>8, <1>9, <1>10, <1>11, <1>12, <1>13, <1>14,
       <1>15, <1>16, HomeShows
    DEF WindowsNext, Opening, Saving, Closes, Places

\* For every number of groups, windows and threads: when the handlers of the closed windows are
\* done and none was opened since, the home window is there if it is to be shown, unless it
\* was closed itself.
THEOREM HomeIsBack == WindowsSpec => []HomeComesBack
  <1>1. WindowsInit => HomeInv
    BY DEF WindowsInit, HomeInv
  <1>2. WindowsTyped /\ RefInv /\ HomeInv /\ [WindowsNext]_windowsVars => HomeInv'
    <2>1. ASSUME HomeInv, UNCHANGED windowsVars PROVE HomeInv'
      BY <2>1 DEF HomeInv, Open, Made, windowsVars, refVars
    <2>2. QED
      BY <2>1, HomeStep
  <1>3. WindowsTyped /\ HomeInv => HomeComesBack
    BY DEF WindowsTyped, HomeStates, HomeInv, HomeComesBack
  <1>4. QED
    BY <1>1, <1>2, <1>3, WindowsTypedInit, WindowsTypedStep, RefInit, RefStep, PTL DEF WindowsSpec

-----------------------------------------------------------------------------
\* Thread t moves, and neither ends the way of the place of g to the file nor crosses it.
Undisturbed(t, g) ==
  /\ final'[g] = final[g] /\ positions'[g] = positions[g] /\ windows'[g] = windows[g]
  /\ windows[g] # 0 => native'[windows[g]].place = native[windows[g]].place
  /\ \A w \in Open' : native'[w].of = g => w \in Open /\ native[w].of = g
  /\ file'[g] = file[g] \/ (Stage(t, "write") /\ file'[g] = threads[t].data[g])
  /\ Runs(t, "close", g) =>
       /\ threads[t].at \notin {"save", "place"}
       /\ threads[t].at \in {"marshal", "write"} =>
            \/ Runs(t, "close", g)' /\ threads'[t].at \in {"marshal", "write"}
            \/ Stage(t, "write") /\ file'[g] = threads[t].data[g]
  /\ threads'[t].at = "write" => threads'[t].data[g] = positions[g]
  /\ threads'[t].of = g => threads'[t].at \notin {"save", "place"}

\* A step of another thread leaves the final place of a group where it was.
LEMMA SettledKept ==
  ASSUME WindowsTyped, RefInv, Calm, NEW g \in GroupIDs, Settled(g), NEW t \in Threads,
         \A u \in Threads : u # t => threads'[u] = threads[u], Undisturbed(t, g)
  PROVE  Settled(g)'
  <1> SUFFICES ASSUME final'[g] # Nil
               PROVE  (\A w \in Open : native[w].of # g)' /\ (Found(g) \/ Carried(g) \/ Written(g))'
    BY DEF Settled
  <1>1. final[g] # Nil /\ final'[g] = final[g]
    BY DEF Undisturbed
  <1>2. (\A w \in Open : native[w].of # g)'
    BY <1>1 DEF Undisturbed, Settled
  <1>3. CASE Found(g)
    <2>1. PICK u \in Threads : Runs(u, "close", g) /\ Stage(u, "save") /\ native[windows[g]].place = final[g]
      BY <1>3 DEF Found
    <2>2. u # t
      BY <2>1 DEF Undisturbed, Runs, Stage
    <2>3. windows[g] # 0
      BY <2>1 DEF RefInv, Alone, Closing, Stage, Calm
    <2>4. Runs(u, "close", g)' /\ Stage(u, "save")' /\ native'[windows'[g]].place = final'[g]
      BY <1>1, <2>1, <2>2, <2>3 DEF Undisturbed, Runs, Stage
    <2>5. Found(g)'
      BY <2>4 DEF Found
    <2>6. QED
      BY <1>2, <2>5
  <1>4. CASE Carried(g)
    <2>1. PICK u \in Threads : Runs(u, "close", g) /\ Stage(u, "place") /\ threads[u].place = final[g]
      BY <1>4 DEF Carried
    <2>2. u # t
      BY <2>1 DEF Undisturbed, Runs, Stage
    <2>3. Carried(g)'
      BY <1>1, <2>1, <2>2 DEF Carried, Runs, Stage
    <2>4. QED
      BY <1>2, <2>3
  <1>5. CASE Written(g)
    <2>1. positions'[g] = final'[g]
      BY <1>1, <1>5 DEF Undisturbed, Written
    <2>2. file'[g] = final'[g] \/ \E u \in Threads : Runs(u, "close", g)' /\ threads'[u].at \in {"marshal", "write"}
      <3>1. CASE Stage(t, "write") /\ file'[g] = threads[t].data[g]
        BY <1>1, <1>5, <3>1 DEF Written
      <3>2. CASE file'[g] = file[g] /\ file[g] = final[g]
        BY <1>1, <3>2
      <3>3. CASE ~(Stage(t, "write") /\ file'[g] = threads[t].data[g]) /\ file[g] # final[g]
        <4>1. PICK u \in Threads : Runs(u, "close", g) /\ threads[u].at \in {"marshal", "write"}
          BY <1>5, <3>3 DEF Written
        <4>2. CASE u = t
          BY <3>3, <4>1, <4>2 DEF Undisturbed
        <4>3. CASE u # t
          BY <4>1, <4>3 DEF Runs
        <4>4. QED
          BY <4>2, <4>3
      <3>4. QED
        BY <3>1, <3>2, <3>3 DEF Undisturbed
    <2>3. ASSUME NEW u \in Threads
          PROVE  /\ Stage(u, "write")' => threads'[u].data[g] = final'[g]
                 /\ threads'[u].of = g => threads'[u].at \notin {"save", "place"}
      <3>1. CASE u = t
        BY <1>1, <1>5, <3>1 DEF Undisturbed, Written, Stage
      <3>2. CASE u # t
        BY <1>1, <1>5, <3>2 DEF Written, Stage
      <3>3. QED
        BY <3>1, <3>2
    <2>4. Written(g)'
      BY <2>1, <2>2, <2>3 DEF Written
    <2>5. QED
      BY <1>2, <2>4
  <1>6. QED
    BY <1>1, <1>3, <1>4, <1>5 DEF Settled

\* A step keeps what is due when it disturbs no group, or settles the one it disturbs.
LEMMA FinalKept ==
  ASSUME WindowsTyped, RefInv, FinalInv, Calm, NEW t \in Threads,
         \A u \in Threads : u # t => threads'[u] = threads[u],
         Saves(t)' => Saves(t) \/ \A u \in Threads \ {t} : ~Saves(u),
         \A g \in GroupIDs : final'[g] = Nil \/ Undisturbed(t, g) \/ Settled(g)'
  PROVE  FinalInv'
  <1>1. OneSaver'
    BY DEF FinalInv, OneSaver, Saves
  <1>2. ASSUME NEW g \in GroupIDs PROVE Settled(g)'
    BY SettledKept DEF FinalInv, Settled
  <1>3. QED
    BY <1>1, <1>2 DEF FinalInv

\* The handler of the close finds the place at which the window was closed, unless it is saved.
LEMMA FinalFinds ==
  ASSUME WindowsTyped, RefInv, FinalInv, Calm, NEW t \in Threads, SaveFinal(t), ~overlapped'
  PROVE  FinalInv'
  <1> DEFINE r == IF RememberPosition /\ windows[threads[t].of] # 0
                    /\ native[windows[threads[t].of]].place # Nil
          THEN [threads[t] EXCEPT !.at = "place", !.place = native[windows[threads[t].of]].place]
          ELSE [threads[t] EXCEPT !.at = "drop"]
  <1>0. PICK h \in GroupIDs : h = threads[t].of
    BY TypesOf DEF SaveFinal, Stage, WellPlaced
  <1>1. /\ r \in ThreadType /\ WellPlaced(r) /\ threads' = [threads EXCEPT ![t] = r]
        /\ r.op = "close" /\ r.of = h /\ Closing(t, h) /\ Stage(t, "save")
    BY <1>0, SaveFinalMoves, TypesOf DEF SaveFinal, Stage, WellPlaced, Closing, Runs, ThreadType
  <1>2. windows[h] # 0 /\ RememberPosition
    BY <1>1 DEF RefInv, Alone, Calm
  <1>3. /\ r.at \in {"place", "drop"}
        /\ r.at = "drop" => native[windows[h]].place = Nil
        /\ r.at = "place" => r.place = native[windows[h]].place /\ SaveBegins(t)
    BY <1>0, <1>1, <1>2, TypesOf DEF SaveFinal, ThreadType
  <1>4. UNCHANGED <<windows, native, positions, file, final>>
    BY DEF SaveFinal, refVars
  <1> HIDE DEF r
  <1>5. threads'[t] = r /\ \A u \in Threads : u # t => threads'[u] = threads[u]
    BY <1>1, ThreadMoves
  <1>6. ASSUME NEW g \in GroupIDs, g # h PROVE Undisturbed(t, g)
    BY <1>1, <1>3, <1>4, <1>5, <1>6 DEF Undisturbed, Closing, Runs, Open, Made
  <1>7. Settled(h)'
    <2>1. ASSUME NEW u \in Threads, Closing(u, h) PROVE u = t
      BY <1>1, <2>1 DEF RefInv, Alone, Calm
    <2>2. ~Written(h)
      BY <1>1 DEF Written, Closing, Runs, Stage
    <2>3. ~Carried(h)
      BY <1>1, <2>1 DEF Carried, Closing, Runs, Stage
    <2>4. final[h] # Nil /\ Found(h) => Carried(h)'
      BY <1>1, <1>3, <1>4, <1>5, <2>1 DEF Found, Carried, Closing, Runs, Stage
    <2>5. QED
      BY <1>1, <1>4, <2>2, <2>3, <2>4 DEF FinalInv, Settled, Open, Made
  <1>8. Saves(t)' => \A u \in Threads \ {t} : ~Saves(u)
    BY <1>3, <1>5 DEF SaveBegins, Saves
  <1>9. QED
    BY <1>5, <1>6, <1>7, <1>8, FinalKept

\* Of the group whose place is remembered, what was due is the place that is remembered.
LEMMA FinalRemembers ==
  ASSUME WindowsTyped, RefInv, FinalInv, Calm, NEW t \in Threads, Remember(t)
  PROVE  FinalInv'
  <1> DEFINE r == [threads[t] EXCEPT !.at = "marshal"]
  <1>1. /\ r \in ThreadType /\ WellPlaced(r) /\ threads' = [threads EXCEPT ![t] = r]
        /\ r.op = threads[t].op /\ r.of = threads[t].of /\ r.at = "marshal" /\ Stage(t, "place")
    BY RememberMoves, TypesOf DEF Remember, ThreadType
  <1>2. UNCHANGED <<windows, native, file, final>> /\ positions' = Remembered(t)
    BY DEF Remember, refVars
  <1> HIDE DEF r
  <1>3. threads'[t] = r /\ \A u \in Threads : u # t => threads'[u] = threads[u]
    BY <1>1, ThreadMoves
  <1>4. \A g \in GroupIDs : positions'[g] = IF g = threads[t].of THEN threads[t].place ELSE positions[g]
    BY <1>2 DEF Remembered
  <1>5. ASSUME NEW g \in GroupIDs, g # threads[t].of PROVE Undisturbed(t, g)
    BY <1>1, <1>2, <1>3, <1>4, <1>5 DEF Undisturbed, Runs, Open, Made, Stage
  <1>6. ASSUME NEW h \in GroupIDs, h = threads[t].of, final'[h] # Nil PROVE Settled(h)'
    <2>1. final[h] # Nil /\ final'[h] = final[h] /\ Settled(h) /\ OneSaver
      BY <1>2, <1>6 DEF FinalInv
    <2>2. (\A w \in Open : native[w].of # h)'
      BY <1>2, <2>1 DEF Settled, Open, Made
    <2>3. \A u \in Threads : Saves(u) => u = t
      BY <1>1, <2>1 DEF OneSaver, Saves, Stage
    <2>4. ~Written(h)
      BY <1>1, <1>6 DEF Written, Stage
    <2>5. CASE Found(h)
      <3>1. PICK u \in Threads : Runs(u, "close", h) /\ Stage(u, "save") /\ native[windows[h]].place = final[h]
        BY <2>5 DEF Found
      <3>2. u # t
        BY <1>1, <3>1 DEF Stage
      <3>3. Found(h)'
        BY <1>2, <1>3, <3>1, <3>2 DEF Found, Runs, Stage
      <3>4. QED
        BY <2>2, <3>3 DEF Settled
    <2>6. CASE Carried(h)
      <3>1. Runs(t, "close", h) /\ threads[t].place = final[h]
        BY <2>3, <2>6 DEF Carried, Saves, Stage
      <3>2. positions'[h] = final'[h] /\ Runs(t, "close", h)' /\ threads'[t].at \in {"marshal", "write"}
        BY <1>1, <1>2, <1>3, <1>4, <1>6, <3>1 DEF Runs
      <3>3. ASSUME NEW u \in Threads
            PROVE  ~Stage(u, "write")' /\ (threads'[u].of = h => threads'[u].at \notin {"save", "place"})
        <4>1. CASE u = t
          BY <1>1, <1>3, <4>1 DEF Stage
        <4>2. CASE u # t
          <5>1. threads'[u] = threads[u] /\ ~Saves(u)
            BY <1>3, <2>3, <4>2
          <5>2. ~(threads[u].of = h /\ threads[u].at = "save")
            BY <1>1, <1>6, <3>1, <4>2, TypesOf
            DEF RefInv, Alone, Closing, Runs, Stage, WellPlaced, Calm
          <5>3. QED
            BY <5>1, <5>2 DEF Saves, Stage
        <4>3. QED
          BY <4>1, <4>2
      <3>4. Written(h)'
        BY <3>2, <3>3 DEF Written
      <3>5. QED
        BY <2>2, <3>4 DEF Settled
    <2>7. QED
      BY <2>1, <2>4, <2>5, <2>6 DEF Settled
  <1>7. Saves(t)
    BY <1>1 DEF Saves, Stage
  <1>8. QED
    BY <1>3, <1>5, <1>6, <1>7, FinalKept

\* A handler that drops the reference has saved what was due.
LEMMA FinalDrops ==
  ASSUME WindowsTyped, RefInv, FinalInv, Calm, NEW t \in Threads, DropReference(t)
  PROVE  FinalInv'
  <1> DEFINE r == [threads[t] EXCEPT !.at = "group"]
  <1>0. PICK h \in GroupIDs : h = threads[t].of
    BY TypesOf DEF DropReference, Stage, WellPlaced
  <1>1. /\ r \in ThreadType /\ WellPlaced(r) /\ threads' = [threads EXCEPT ![t] = r]
        /\ r.op = "close" /\ r.of = h /\ r.at = "group" /\ Closing(t, h) /\ Stage(t, "drop")
    BY <1>0, DropReferenceMoves, TypesOf
    DEF DropReference, ThreadType, Stage, WellPlaced, Closing, Runs
  <1>2. UNCHANGED <<native, positions, file, final>> /\ windows' = [windows EXCEPT ![h] = 0]
    BY <1>0 DEF DropReference, placeVars
  <1> HIDE DEF r
  <1>3. threads'[t] = r /\ \A u \in Threads : u # t => threads'[u] = threads[u]
    BY <1>1, ThreadMoves
  <1>4. ASSUME NEW g \in GroupIDs, g # h PROVE Undisturbed(t, g)
    BY <1>1, <1>2, <1>3, <1>4, TypesOf DEF Undisturbed, Closing, Runs, Open, Made
  <1>5. ASSUME final'[h] # Nil PROVE Settled(h)'
    <2>1. ASSUME NEW u \in Threads, Closing(u, h) PROVE u = t
      BY <1>1, <2>1 DEF RefInv, Alone, Calm
    <2>2. ~Found(h) /\ ~Carried(h)
      BY <1>1, <2>1 DEF Found, Carried, Closing, Runs, Stage
    <2>3. Written(h) /\ \A w \in Open : native[w].of # h
      BY <1>1, <1>2, <1>5, <2>2 DEF FinalInv, Settled
    <2>4. file[h] = final[h]
      BY <1>1, <2>1, <2>3 DEF Written, Closing, Runs, Stage
    <2>5. Written(h)'
      BY <1>1, <1>2, <1>3, <2>3, <2>4 DEF Written, Stage
    <2>6. QED
      BY <1>2, <2>3, <2>5 DEF Settled, Open, Made
  <1>6. ~Saves(t)'
    BY <1>1, <1>3 DEF Saves
  <1>7. QED
    BY <1>3, <1>4, <1>5, <1>6, FinalKept

\* The window that closes is the one of its group, and its place is the final one.
LEMMA FinalCloses ==
  ASSUME WindowsTyped, RefInv, FinalInv, Calm, NEW t \in Threads, NEW w \in Made, Close(t, w)
  PROVE  FinalInv'
  <1>0. PICK h \in GroupIDs : h = native[w].of
    BY TypesOf DEF Window
  <1> DEFINE r == [Rest EXCEPT !.op = "close", !.of = native[w].of, !.at = "save"]
             x == [native[w] EXCEPT !.open = FALSE]
  <1>1. r.op = "close" /\ r.of = h /\ r.at = "save"
    BY <1>0 DEF Rest
  <1>2. ~x.open /\ x.of = h /\ x.place = native[w].place /\ x.kept = native[w].kept
    BY <1>0, TypesOf DEF Window
  <1>3. /\ Made' = Made /\ native[w].open /\ native[w].kept
        /\ native'[w] = x /\ \A v \in Made : v # w => native'[v] = native[v]
    BY CloseNative
  <1>4. r \in ThreadType /\ WellPlaced(r) /\ threads' = [threads EXCEPT ![t] = r] /\ threads[t] = Rest
    BY CloseMoves DEF Close, ThreadBegins
  <1>5. UNCHANGED <<windows, positions, file>> /\ final' = [final EXCEPT ![h] = native[w].place]
    BY <1>0 DEF Close, placeVars
  <1> HIDE DEF r, x
  <1>6. threads'[t] = r /\ \A u \in Threads : u # t => threads'[u] = threads[u]
    BY <1>4, ThreadMoves
  <1>7. threads[t].op # "close" /\ \A v \in Open' : v \in Open /\ v # w
    BY <1>2, <1>3, <1>4, WindowsAssumption DEF Rest, Open
  <1>8. ASSUME NEW g \in GroupIDs, g # h PROVE Undisturbed(t, g)
    <2>1. windows[g] # 0 => native'[windows[g]].place = native[windows[g]].place
      BY <1>2, <1>3, TypesOf
    <2>2. \A v \in Open' : native'[v].of = g => v \in Open /\ native[v].of = g
      BY <1>3, <1>7 DEF Open
    <2>3. final'[g] = final[g]
      BY <1>5, <1>8, TypesOf
    <2>4. QED
      BY <1>1, <1>5, <1>6, <1>7, <1>8, <2>1, <2>2, <2>3 DEF Undisturbed, Runs
  <1>9. Settled(h)'
    <2>1. windows[h] = w /\ final'[h] = native[w].place
      BY <1>0, <1>3, <1>5, TypesOf DEF RefInv, Alone, Calm
    <2>2. Found(h)'
      BY <1>1, <1>2, <1>3, <1>5, <1>6, <2>1 DEF Found, Runs, Stage
    <2>3. ASSUME NEW v \in Open', native'[v].of = h PROVE FALSE
      <3>1. v \in Made /\ native[v].open /\ native[v].of = h /\ v # w
        BY <1>3, <1>7, <2>3 DEF Open
      <3>2. ~native[v].kept
        BY <1>3, <2>1, <3>1 DEF RefInv, Alone, Calm
      <3>3. PICK u \in Threads : Keeping(u, v)
        BY <3>1, <3>2 DEF RefInv, Kept
      <3>4. Runs(u, "open", h) /\ ~Stage(u, "look")
        BY <3>1, <3>3, TypesOf DEF RefInv, Kept, Keeping, Stage, Runs, WellPlaced
      <3>5. windows[h] = 0
        BY <1>3, <3>4 DEF RefInv, Alone, Calm
      <3>6. QED
        BY <2>1, <3>5, NativeOf
    <2>4. QED
      BY <2>2, <2>3 DEF Settled
  <1>10. ~Saves(t)'
    BY <1>1, <1>6 DEF Saves
  <1>11. QED
    BY <1>6, <1>8, <1>9, <1>10, FinalKept

\* A window that moves is open, and is no window of a group whose final place is due.
LEMMA FinalMoves ==
  ASSUME WindowsTyped, RefInv, FinalInv, Calm, NEW w \in Made, NEW p \in Places, Move(w, p)
  PROVE  FinalInv'
  <1> DEFINE x == [native[w] EXCEPT !.place = p]
  <1>1. x.of = native[w].of /\ x.open = native[w].open
    BY TypesOf DEF Window
  <1>2. Made' = Made /\ native[w].open /\ native'[w] = x /\ \A v \in Made : v # w => native'[v] = native[v]
    BY MoveNative
  <1>3. UNCHANGED <<windows, positions, file, final, threads>>
    BY DEF Move, placeVars
  <1> HIDE DEF x
  <1>4. Open' = Open /\ \A v \in Open : native'[v].of = native[v].of
    BY <1>1, <1>2 DEF Open
  <1>5. ASSUME NEW g \in GroupIDs PROVE Settled(g)'
    <2>1. SUFFICES ASSUME final[g] # Nil PROVE Settled(g)'
      BY <1>3 DEF Settled
    <2>2. (\A v \in Open : native[v].of # g) /\ native[w].of # g
      BY <1>2, <2>1 DEF FinalInv, Settled, Open
    <2>3. Found(g) => Found(g)'
      <3>1. SUFFICES ASSUME Found(g) PROVE Found(g)'
        OBVIOUS
      <3>2. PICK u \in Threads : Runs(u, "close", g) /\ Stage(u, "save") /\ native[windows[g]].place = final[g]
        BY <3>1 DEF Found
      <3>3. windows[g] # 0
        BY <3>2 DEF RefInv, Alone, Closing, Stage, Calm
      <3>4. windows[g] \in Made /\ windows[g] # w
        BY <2>2, <3>3, TypesOf DEF RefInv, Referred
      <3>5. QED
        BY <1>2, <1>3, <3>2, <3>4 DEF Found, Runs, Stage
    <2>4. (Carried(g) => Carried(g)') /\ (Written(g) => Written(g)')
      BY <1>3 DEF Carried, Written, Runs, Stage
    <2>5. QED
      BY <1>4, <2>1, <2>2, <2>3, <2>4 DEF FinalInv, Settled
  <1>6. OneSaver'
    BY <1>3 DEF FinalInv, OneSaver, Saves
  <1>7. QED
    BY <1>5, <1>6 DEF FinalInv

\* Every step carries a final place on towards the file.
LEMMA FinalStep ==
  ASSUME WindowsTyped, RefInv, FinalInv, WindowsNext, Calm, ~overlapped'
  PROVE  FinalInv'
  <1>1. ASSUME NEW t \in Threads, NEW h \in GroupIDs, OpenSSHWindow(t, h) PROVE FinalInv'
    <2> DEFINE r == [Rest EXCEPT !.op = "open", !.of = h, !.at = "look"]
    <2>1. r \in ThreadType /\ WellPlaced(r) /\ threads' = [threads EXCEPT ![t] = r]
      BY <1>1, OpenSSHWindowMoves
    <2>2. threads[t].op # "close" /\ r.at = "look"
      BY <1>1, TypesOf, WindowsAssumption
      DEF OpenSSHWindow, ThreadBegins, Rest
    <2>3. UNCHANGED <<windows, native, positions, file, final>>
      BY <1>1 DEF OpenSSHWindow, placeVars
    <2> HIDE DEF r
    <2>4. threads'[t] = r /\ \A u \in Threads : u # t => threads'[u] = threads[u]
      BY <2>1, ThreadMoves
    <2>5. ASSUME NEW g \in GroupIDs PROVE Undisturbed(t, g)
      BY <2>2, <2>3, <2>4, TypesOf DEF Undisturbed, Runs, Stage, Open, Made
    <2>6. Saves(t)' => Saves(t)
      BY <2>2, <2>4 DEF Saves
    <2>7. QED
      BY <2>4, <2>5, <2>6, FinalKept
  <1>2. ASSUME NEW t \in Threads, Look(t) PROVE FinalInv'
    <2> DEFINE r == IF windows[threads[t].of] # 0 THEN Rest ELSE [threads[t] EXCEPT !.at = "make"]
    <2>1. r \in ThreadType /\ WellPlaced(r) /\ threads' = [threads EXCEPT ![t] = r]
      BY <1>2, LookMoves
    <2>2. threads[t].op # "close" /\ r.at \notin {"save", "place", "marshal", "write"}
      BY <1>2, TypesOf, WindowsAssumption
      DEF Look, Rest, ThreadType, Stage, WellPlaced
    <2>3. UNCHANGED <<windows, native, positions, file, final>>
      BY <1>2 DEF Look, refVars, placeVars
    <2> HIDE DEF r
    <2>4. threads'[t] = r /\ \A u \in Threads : u # t => threads'[u] = threads[u]
      BY <2>1, ThreadMoves
    <2>5. ASSUME NEW g \in GroupIDs PROVE Undisturbed(t, g)
      BY <2>2, <2>3, <2>4, TypesOf DEF Undisturbed, Runs, Stage, Open, Made
    <2>6. Saves(t)' => Saves(t)
      BY <2>2, <2>4 DEF Saves
    <2>7. QED
      BY <2>4, <2>5, <2>6, FinalKept
  <1>3. ASSUME NEW t \in Threads, Marshal(t) PROVE FinalInv'
    <2> DEFINE r == [threads[t] EXCEPT !.at = "write", !.data = positions]
    <2>1. r \in ThreadType /\ WellPlaced(r) /\ threads' = [threads EXCEPT ![t] = r]
      BY <1>3, MarshalMoves
    <2>2. threads[t].at = "marshal" /\ r.at = "write" /\ r.data = positions /\ r.op = threads[t].op /\ r.of = threads[t].of
      BY <1>3, TypesOf, WindowsAssumption
      DEF Marshal, ThreadType, Stage
    <2>3. UNCHANGED <<windows, native, positions, file, final>>
      BY <1>3 DEF Marshal, refVars, placeVars
    <2> HIDE DEF r
    <2>4. threads'[t] = r /\ \A u \in Threads : u # t => threads'[u] = threads[u]
      BY <2>1, ThreadMoves
    <2>5. ASSUME NEW g \in GroupIDs PROVE Undisturbed(t, g)
      BY <2>2, <2>3, <2>4, TypesOf DEF Undisturbed, Runs, Stage, Open, Made
    <2>6. Saves(t)' => Saves(t)
      BY <2>2, <2>4 DEF Saves
    <2>7. QED
      BY <2>4, <2>5, <2>6, FinalKept
  <1>4. ASSUME NEW t \in Threads, Write(t) PROVE FinalInv'
    <2> DEFINE r == IF threads[t].op = "close" THEN [threads[t] EXCEPT !.at = "drop"]
          ELSE IF threads[t].op = "hide" THEN [threads[t] EXCEPT !.at = "hide"] ELSE Rest
    <2>1. r \in ThreadType /\ WellPlaced(r) /\ threads' = [threads EXCEPT ![t] = r]
      BY <1>4, SaveEndsMoves DEF Write
    <2>2. threads[t].at = "write" /\ r.at \notin {"save", "place", "marshal", "write"}
      BY <1>4, TypesOf, WindowsAssumption
      DEF Write, SaveEnds, Rest, ThreadType, Stage
    <2>3. UNCHANGED <<windows, native, positions, final>> /\ file' = threads[t].data
      BY <1>4 DEF Write, SaveEnds, refVars
    <2> HIDE DEF r
    <2>4. threads'[t] = r /\ \A u \in Threads : u # t => threads'[u] = threads[u]
      BY <2>1, ThreadMoves
    <2>5. ASSUME NEW g \in GroupIDs PROVE Undisturbed(t, g)
      BY <2>2, <2>3, <2>4, TypesOf DEF Undisturbed, Runs, Stage, Open, Made
    <2>6. Saves(t)' => Saves(t)
      BY <2>2, <2>4 DEF Saves
    <2>7. QED
      BY <2>4, <2>5, <2>6, FinalKept
  <1>5. ASSUME NEW t \in Threads, GroupClosed(t) PROVE FinalInv'
    <2> DEFINE r == Rest
    <2>1. r \in ThreadType /\ WellPlaced(r) /\ threads' = [threads EXCEPT ![t] = r]
      BY <1>5, GroupClosedMoves
    <2>2. threads[t].at = "group" /\ r.at \notin {"save", "place", "marshal", "write"}
      BY <1>5, TypesOf, WindowsAssumption
      DEF GroupClosed, Rest, Stage
    <2>3. UNCHANGED <<windows, native, positions, file, final>>
      BY <1>5 DEF GroupClosed, refVars, placeVars
    <2> HIDE DEF r
    <2>4. threads'[t] = r /\ \A u \in Threads : u # t => threads'[u] = threads[u]
      BY <2>1, ThreadMoves
    <2>5. ASSUME NEW g \in GroupIDs PROVE Undisturbed(t, g)
      BY <2>2, <2>3, <2>4, TypesOf DEF Undisturbed, Runs, Stage, Open, Made
    <2>6. Saves(t)' => Saves(t)
      BY <2>2, <2>4 DEF Saves
    <2>7. QED
      BY <2>4, <2>5, <2>6, FinalKept
  <1>6. ASSUME NEW t \in Threads, HideHome(t) PROVE FinalInv'
    <2> DEFINE r == Rest
    <2>1. r \in ThreadType /\ WellPlaced(r) /\ threads' = [threads EXCEPT ![t] = r]
      BY <1>6, HideHomeMoves
    <2>2. threads[t].at = "hide" /\ r.at \notin {"save", "place", "marshal", "write"}
      BY <1>6, TypesOf, WindowsAssumption
      DEF HideHome, Rest, Stage
    <2>3. UNCHANGED <<windows, native, positions, file, final>>
      BY <1>6 DEF HideHome, refVars, placeVars
    <2> HIDE DEF r
    <2>4. threads'[t] = r /\ \A u \in Threads : u # t => threads'[u] = threads[u]
      BY <2>1, ThreadMoves
    <2>5. ASSUME NEW g \in GroupIDs PROVE Undisturbed(t, g)
      BY <2>2, <2>3, <2>4, TypesOf DEF Undisturbed, Runs, Stage, Open, Made
    <2>6. Saves(t)' => Saves(t)
      BY <2>2, <2>4 DEF Saves
    <2>7. QED
      BY <2>4, <2>5, <2>6, FinalKept
  <1>7. ASSUME NEW t \in Threads, NEW op \in {"tick", "hide", "shut"},
         NEW saved \in BOOLEAN, SaveMain(t, op, saved)
        PROVE  FinalInv'
    <2> DEFINE r == MainThread(op, saved)
    <2>1. r \in ThreadType /\ WellPlaced(r) /\ threads' = [threads EXCEPT ![t] = r]
      BY <1>7, SaveMainMoves
    <2>2. /\ threads[t].op # "close" /\ r.at \in {"place", "hide", Nil}
          /\ r.at = "place" => r.of = Home /\ saved
      BY <1>7, WindowsAssumption DEF SaveMain, MainThread, Rest
    <2>3. UNCHANGED <<windows, native, positions, file, final>> /\ (saved => SaveBegins(t))
      BY <1>7 DEF SaveMain, refVars, Calm
    <2> HIDE DEF r
    <2>4. threads'[t] = r /\ \A u \in Threads : u # t => threads'[u] = threads[u]
      BY <2>1, ThreadMoves
    <2>5. ASSUME NEW g \in GroupIDs PROVE Undisturbed(t, g)
      BY <2>2, <2>3, <2>4, WindowsAssumption DEF Undisturbed, Runs, Open, Made
    <2>6. Saves(t)' => \A u \in Threads \ {t} : ~Saves(u)
      BY <2>2, <2>3, <2>4, WindowsAssumption DEF SaveBegins, Saves
    <2>7. QED
      BY <2>4, <2>5, <2>6, FinalKept
  <1>8. ASSUME NEW t \in Threads, NEW p \in Spots, Make(t, p) PROVE FinalInv'
    <2> DEFINE n == Cardinality(Made) + 1
               x == [of |-> threads[t].of, place |-> p, open |-> TRUE, kept |-> FALSE]
               r == [threads[t] EXCEPT !.at = "keep", !.window = Cardinality(Made) + 1]
    <2>1. r \in ThreadType /\ WellPlaced(r) /\ threads' = [threads EXCEPT ![t] = r]
      BY <1>8, MakeMoves
    <2>2. threads[t].op # "close" /\ r.at = "keep"
      BY <1>8, TypesOf, WindowsAssumption DEF Make, Stage, WellPlaced, ThreadType
    <2>3. /\ n \notin Made /\ Made' = Made \cup {n} /\ native'[n] = x
          /\ \A v \in Made : native'[v] = native[v]
      BY <1>8, MakeNative
    <2>4. x.of = threads[t].of /\ threads[t].of \in GroupIDs
      BY <1>8, MakeNative
    <2>5. UNCHANGED <<windows, positions, file>> /\ final' = [final EXCEPT ![threads[t].of] = Nil]
      BY <1>8 DEF Make, placeVars
    <2> HIDE DEF r, n, x
    <2>6. threads'[t] = r /\ \A u \in Threads : u # t => threads'[u] = threads[u]
      BY <2>1, ThreadMoves
    <2>7. ASSUME NEW g \in GroupIDs, g # threads[t].of PROVE Undisturbed(t, g)
      <3>1. final'[g] = final[g]
        BY <2>5, <2>7, TypesOf
      <3>2. \A v \in Open' : native'[v].of = g => v \in Open /\ native[v].of = g
        BY <2>3, <2>4, <2>7 DEF Open
      <3>3. QED
        BY <2>2, <2>3, <2>5, <2>6, <2>7, <3>1, <3>2, TypesOf DEF Undisturbed, Runs
    <2>8. final'[threads[t].of] = Nil
      BY <2>4, <2>5, TypesOf
    <2>9. ~Saves(t)'
      BY <2>2, <2>6 DEF Saves
    <2>10. QED
      BY <2>6, <2>7, <2>8, <2>9, FinalKept
  <1>9. ASSUME NEW t \in Threads, KeepReference(t) PROVE FinalInv'
    <2> DEFINE w == threads[t].window
               x == [native[w] EXCEPT !.kept = TRUE]
    <2>1. /\ Rest \in ThreadType /\ WellPlaced(Rest) /\ threads' = [threads EXCEPT ![t] = Rest]
          /\ threads[t].at = "keep" /\ threads[t].op # "close" /\ Rest.at = Nil
      BY <1>9, KeepReferenceMoves, TypesOf DEF KeepReference, Stage, WellPlaced, Rest
    <2>2. threads'[t] = Rest /\ \A u \in Threads : u # t => threads'[u] = threads[u]
      BY <2>1, ThreadMoves
    <2>3. /\ w \in Made /\ Made' = Made /\ threads[t].of \in GroupIDs
          /\ native'[w] = x /\ \A v \in Made : v # w => native'[v] = native[v]
      BY <1>9, KeepNative
    <2>4. x.of = native[w].of /\ x.open = native[w].open /\ x.place = native[w].place
      BY <2>3, TypesOf DEF Window
    <2>5. native[w].of = threads[t].of /\ native[w].open
      BY <2>1 DEF RefInv, Kept, Stage
    <2>6. UNCHANGED <<positions, file, final>> /\ windows' = [windows EXCEPT ![threads[t].of] = w]
      BY <1>9 DEF KeepReference, placeVars
    <2> HIDE DEF x, w
    <2>7. Open' = Open /\ \A v \in Made : native'[v].of = native[v].of /\ native'[v].place = native[v].place
      BY <2>3, <2>4 DEF Open
    <2>8. ASSUME NEW g \in GroupIDs, g # threads[t].of PROVE Undisturbed(t, g)
      BY <2>1, <2>2, <2>6, <2>7, <2>8, TypesOf, WindowsAssumption DEF Undisturbed, Runs, Open
    <2>9. final'[threads[t].of] = Nil
      BY <2>3, <2>5, <2>6 DEF FinalInv, Settled, Open
    <2>10. ~Saves(t)'
      BY <2>1, <2>2, WindowsAssumption DEF Saves
    <2>11. QED
      BY <2>2, <2>8, <2>9, <2>10, FinalKept
  <1>10. ASSUME NEW t \in Threads, ClearPositions(t) PROVE FinalInv'
    <2> DEFINE r == [Rest EXCEPT !.op = "clear", !.of = Nil, !.at = "remove"]
    <2>1. r \in ThreadType /\ WellPlaced(r) /\ threads' = [threads EXCEPT ![t] = r]
      BY <1>10, ClearPositionsMoves
    <2>2. r.at \notin {"place", "marshal", "write"}
      BY WindowsAssumption DEF Rest
    <2>3. \A g \in GroupIDs : final'[g] = Nil
      BY <1>10 DEF ClearPositions, NoPlaces
    <2> HIDE DEF r
    <2>4. threads'[t] = r /\ \A u \in Threads : u # t => threads'[u] = threads[u]
      BY <2>1, ThreadMoves
    <2>5. ~Saves(t)'
      BY <2>2, <2>4 DEF Saves
    <2>6. QED
      BY <2>3, <2>4, <2>5, FinalKept
  <1>11. ASSUME NEW t \in Threads, RemoveFile(t) \/ WriteFails(t) PROVE FinalInv'
    <2> DEFINE r == IF threads[t].at = "remove" THEN Rest
          ELSE IF threads[t].op = "close" THEN [threads[t] EXCEPT !.at = "drop"]
          ELSE IF threads[t].op = "hide" THEN [threads[t] EXCEPT !.at = "hide"] ELSE Rest
    <2>1. r \in ThreadType /\ WellPlaced(r) /\ threads' = [threads EXCEPT ![t] = r]
      BY <1>11, RemoveFileMoves, SaveEndsMoves, TypesOf
      DEF RemoveFile, WriteFails, SaveEnds, Stage
    <2>2. r.at \notin {"place", "marshal", "write"}
      BY TypesOf, WindowsAssumption DEF Rest, ThreadType
    <2>3. \A g \in GroupIDs : final'[g] = Nil
      BY <1>11 DEF RemoveFile, WriteFails, NoPlaces
    <2> HIDE DEF r
    <2>4. threads'[t] = r /\ \A u \in Threads : u # t => threads'[u] = threads[u]
      BY <2>1, ThreadMoves
    <2>5. ~Saves(t)'
      BY <2>2, <2>4 DEF Saves
    <2>6. QED
      BY <2>3, <2>4, <2>5, FinalKept
  <1>12. ASSUME NEW t \in Threads, NEW h \in GroupIDs, Tick(t, h) PROVE FinalInv'
    <2>1. UNCHANGED <<windows, native, positions, file, final>>
      BY <1>12 DEF Tick
    <2>2. CASE UNCHANGED threads
      BY <2>1, <2>2
      DEF FinalInv, OneSaver, Settled, Found, Carried, Written, Saves, Runs, Stage, Open, Made
    <2>3. CASE ~UNCHANGED threads
      <3> DEFINE r == [Rest EXCEPT !.op = "tick", !.of = h, !.at = "place", !.place = native[windows[h]].place]
      <3>1. /\ r \in ThreadType /\ WellPlaced(r) /\ threads' = [threads EXCEPT ![t] = r] /\ threads[t] = Rest
            /\ SaveBegins(t) /\ windows[h] # 0 /\ native[windows[h]].open
        BY <1>12, <2>3, TickMoves
      <3>2. threads[t].op # "close" /\ r.at = "place" /\ r.of = h
        BY <3>1, WindowsAssumption DEF Rest
      <3> HIDE DEF r
      <3>3. threads'[t] = r /\ \A u \in Threads : u # t => threads'[u] = threads[u]
        BY <3>1, ThreadMoves
      <3>4. ASSUME NEW g \in GroupIDs, g # h PROVE Undisturbed(t, g)
        BY <2>1, <3>2, <3>3, <3>4 DEF Undisturbed, Runs, Open, Made
      <3>5. final'[h] = Nil
        BY <2>1, <3>1, TypesOf DEF FinalInv, Settled, Open, RefInv, Referred
      <3>6. \A u \in Threads \ {t} : ~Saves(u)
        BY <3>1 DEF SaveBegins
      <3>7. QED
        BY <3>3, <3>4, <3>5, <3>6, FinalKept
    <2>4. QED
      BY <2>2, <2>3
  <1>13. ASSUME ShowHome PROVE FinalInv'
    BY <1>13
    DEF ShowHome, refVars, placeVars, FinalInv, OneSaver, Settled, Found, Carried, Written,
        Saves, Runs, Stage, Open, Made
  <1>14. QED
    BY <1>1, <1>2, <1>3, <1>4, <1>5, <1>6, <1>7, <1>8, <1>9, <1>10, <1>11, <1>12, <1>13,
       FinalFinds, FinalRemembers, FinalDrops, FinalCloses, FinalMoves
    DEF WindowsNext, Opening, Saving, Closes, Places

\* What overlapped once has overlapped.
LEMMA CalmBefore ==
  ASSUME WindowsNext, Calm'
  PROVE  Calm
  <1>1. ASSUME NEW t \in Threads,
               \/ Opening(t) \/ Closes(t) \/ HideHome(t)
               \/ Remember(t) \/ Marshal(t) \/ Write(t) \/ WriteFails(t)
               \/ RemoveFile(t) \/ ClearPositions(t)
        PROVE  UNCHANGED <<crossed, overlapped>>
    BY <1>1 DEF Opening, Closes, Look, KeepReference, Make, DropReference, GroupClosed, HideHome,
                Remember, Marshal, Write, WriteFails, SaveEnds, RemoveFile, ClearPositions, refVars,
                placeVars
  <1>2. ASSUME NEW t \in Threads,
               \/ SaveFinal(t) \/ \E g \in GroupIDs : Tick(t, g)
               \/ \E op \in {"tick", "hide", "shut"}, saved \in BOOLEAN : SaveMain(t, op, saved)
        PROVE  UNCHANGED crossed /\ (overlapped => overlapped')
    BY <1>2 DEF SaveFinal, Tick, SaveMain, SaveBegins, refVars
  <1>3. ASSUME NEW t \in Threads, NEW g \in GroupIDs, OpenSSHWindow(t, g)
        PROVE  crossed \subseteq crossed' /\ UNCHANGED overlapped
    BY <1>3 DEF OpenSSHWindow, placeVars
  <1>4. ASSUME NEW w \in Made, (\E p \in Places : Move(w, p)) \/ (\E t \in Threads : Close(t, w))
        PROVE  UNCHANGED <<crossed, overlapped>>
    BY <1>4 DEF Move, Close, placeVars
  <1>5. crossed \subseteq crossed' /\ (overlapped => overlapped')
    BY <1>1, <1>2, <1>3, <1>4 DEF WindowsNext, Saving, ShowHome, refVars, placeVars, Places
  <1>6. QED
    BY <1>5 DEF Calm

\* For every number of groups, windows and threads: when all is quiet the file has of each group
\* the place at which its window was closed, unless saves or opens overlapped.
THEOREM FinalSaved == WindowsSpec => []FinalIsSaved
  <1>1. WindowsInit => FinalInv
    <2>1. ASSUME WindowsInit PROVE OneSaver /\ \A g \in GroupIDs : Settled(g)
      BY <2>1, WindowsAssumption DEF WindowsInit, NoPlaces, OneSaver, Saves, Settled, Rest
    <2>2. QED
      BY <2>1 DEF FinalInv
  <1>2. WindowsTyped /\ RefInv /\ FinalInv /\ [WindowsNext]_windowsVars => FinalInv'
    <2>1. ASSUME FinalInv, UNCHANGED windowsVars PROVE FinalInv'
      BY <2>1
      DEF FinalInv, Calm, OneSaver, Settled, Found, Carried, Written, Saves, Runs, Stage, Open,
          Made,
                  windowsVars, refVars, placeVars
    <2>2. ASSUME WindowsTyped, RefInv, FinalInv, WindowsNext, Calm' PROVE FinalInv'
      BY <2>2, CalmBefore, FinalStep DEF Calm
    <2>3. ~Calm' => FinalInv'
      BY DEF FinalInv
    <2>4. QED
      BY <2>1, <2>2, <2>3
  <1>3. FinalInv => FinalIsSaved
    <2>1. ASSUME FinalInv, \A t \in Threads : threads[t] = Rest, Calm, NEW g \in GroupIDs, final[g] # Nil
          PROVE  file[g] = final[g]
      <3>1. \A t \in Threads : threads[t].op # "close"
        BY <2>1, WindowsAssumption DEF Rest
      <3>2. Written(g)
        BY <2>1, <3>1 DEF FinalInv, Settled, Found, Carried, Runs
      <3>3. QED
        BY <3>1, <3>2 DEF Written, Runs
    <2>2. QED
      BY <2>1 DEF FinalIsSaved, Calm
  <1>4. QED
    BY <1>1, <1>2, <1>3, WindowsTypedInit, WindowsTypedStep, RefInit, RefStep, PTL DEF WindowsSpec

=============================================================================

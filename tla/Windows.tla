------------------------------ MODULE Windows ------------------------------
(***************************************************************************)
(* The native windows (internal/ssh/window_manager.go) and what            *)
(* internal/wailsapi/app.go does with them: one window for each group,     *)
(* opened and closed by calls that overlap, and places of windows that     *)
(* are kept in memory and in a file.                                        *)
(*                                                                         *)
(* A thread is a call of OpenSSHWindow, the handler of a window that       *)
(* closes, one turn of a ticker, or a save of the home window's place.     *)
(* A place is where a window is on the screen and its size, Nil while it   *)
(* is minimised; that of the home window tells nothing and is left out of  *)
(* the table.  A user closes a window when its page is there, by when its  *)
(* call has kept it.                                                       *)
(***************************************************************************)
EXTENDS Naturals, FiniteSets

CONSTANTS
  Nil,
  Home,              \* the home window
  GroupIDs,
  Spots,
  Threads,           \* bound: threads at a time
  Opens,             \* bound: windows that are made, in their order
  Acts,              \* bound: calls, moves, closes, saves, shows, failures
  RememberPosition,  \* settings of a behaviour
  AutoShowHome

ASSUME WindowsAssumption ==
  /\ Opens \in Nat /\ Acts \in Nat /\ IsFiniteSet(Threads)
  /\ RememberPosition \in BOOLEAN /\ AutoShowHome \in BOOLEAN
  /\ Home \notin GroupIDs \cup {Nil} /\ Nil \notin Spots
  /\ Nil \notin {"open", "tick", "close", "hide", "shut", "clear"}
  /\ Nil \notin {"look", "make", "keep", "place", "marshal", "write", "remove",
                  "save", "drop", "group", "hide"}

VARIABLES
  windows,    \* wm.windows, 0 if there is none
  native,     \* the windows made: group, place, whether open and kept
  tickers,    \* running tickers by group
  threads,
  positions,  \* wm.positions
  file,       \* window_positions.json
  home,       \* the home window: shown, hidden, closed
  crossed,    \* auxiliary: groups of which two opens overlapped
  overlapped, \* auxiliary: a save of places began during another
  due,        \* auxiliary: since the last window closed none was opened, nor home hidden
  final,      \* auxiliary: places at their close, forgotten with a clear or an open
  acts

refVars == <<windows, native, tickers, crossed>>
placeVars == <<positions, file, overlapped>>
windowsVars == <<refVars, placeVars, threads, home, due, final, acts>>

Rest == [op |-> Nil, at |-> Nil, of |-> Nil, window |-> 0, place |-> Nil, data |-> Nil]
Made == DOMAIN native
Open == {w \in Made : native[w].open}

Act == acts < Acts /\ acts' = acts + 1
Runs(t, op, of) == threads[t].op = op /\ threads[t].of = of
Stage(t, step) == threads[t].at = step
GoTo(t, step) == threads' = [threads EXCEPT ![t].at = step]
ThreadEnds(t) == threads' = [threads EXCEPT ![t] = Rest]
Saves(t) == threads[t].at \in {"place", "marshal", "write"}
\* Thread t begins to save a place.
SaveBegins(t) == overlapped' = (overlapped \/ \E u \in Threads \ {t} : Saves(u))
ThreadBegins(t, op, of, step) ==
  /\ threads[t] = Rest
  /\ threads' = [threads EXCEPT ![t] = [Rest EXCEPT !.op = op, !.of = of, !.at = step]]

-----------------------------------------------------------------------------
(* CreateSSHWindow                                                         *)

OpenSSHWindow(t, g) ==
  /\ Act
  /\ ThreadBegins(t, "open", g, "look")
  /\ crossed' = crossed \cup {h \in {g} : \E u \in Threads : Runs(u, "open", h)}
  /\ UNCHANGED <<windows, native, tickers, placeVars, home, due, final>>

\* A window that is there comes to the front.
Look(t) ==
  /\ Stage(t, "look")
  /\ IF windows[threads[t].of] # 0 THEN ThreadEnds(t) ELSE GoTo(t, "make")
  /\ UNCHANGED <<refVars, placeVars, home, due, final, acts>>

Make(t, p) ==
  LET g == threads[t].of
      w == Cardinality(Made) + 1
      kept == positions[g] IN
  /\ Stage(t, "make") /\ w <= Opens
  /\ RememberPosition /\ kept # Nil => p = kept
  /\ native' = [v \in 1 .. w |->
       IF v = w THEN [of |-> g, place |-> p, open |-> TRUE, kept |-> FALSE] ELSE native[v]]
  /\ threads' = [threads EXCEPT ![t].at = "keep", ![t].window = w]
  /\ due' = FALSE /\ final' = [final EXCEPT ![g] = Nil]
  /\ UNCHANGED <<windows, tickers, crossed, placeVars, home, acts>>

\* The reference, the ticker and the handler of the close.
KeepReference(t) ==
  LET g == threads[t].of
      w == threads[t].window IN
  /\ Stage(t, "keep")
  /\ windows' = [windows EXCEPT ![g] = w]
  /\ native' = [native EXCEPT ![w].kept = TRUE]
  /\ tickers' = [tickers EXCEPT ![g] = @ + 1]
  /\ ThreadEnds(t)
  /\ UNCHANGED <<crossed, placeVars, home, due, final, acts>>

-----------------------------------------------------------------------------
(* Places                                                                  *)

Move(w, p) ==
  /\ w \in Open /\ native[w].place # p /\ Act
  /\ native' = [native EXCEPT ![w].place = p]
  /\ UNCHANGED <<windows, tickers, crossed, placeVars, threads, home, due, final>>

\* A turn of a ticker; the place is read outside of any lock.
Tick(t, g) ==
  LET w == windows[g]
      turns == Cardinality({u \in Threads : Runs(u, "tick", g)}) IN
  /\ turns < tickers[g]
  /\ IF w = 0
     THEN tickers' = [tickers EXCEPT ![g] = @ - 1] /\ UNCHANGED <<threads, overlapped>>
     ELSE /\ RememberPosition /\ native[w].open
          /\ native[w].place \notin {Nil, positions[g]}
          /\ threads[t] = Rest
          /\ threads' = [threads EXCEPT ![t] =
               [Rest EXCEPT !.op = "tick", !.of = g, !.at = "place", !.place = native[w].place]]
          /\ SaveBegins(t) /\ UNCHANGED tickers
  /\ UNCHANGED <<windows, native, crossed, positions, file, home, due, final, acts>>

\* saveWindowPosition finds the window of the group, which need not be the one that closes,
\* and leaves out a window that is minimised.
SaveFinal(t) ==
  LET w == windows[threads[t].of] IN
  /\ Stage(t, "save")
  /\ IF RememberPosition /\ w # 0 /\ native[w].place # Nil
     THEN /\ threads' = [threads EXCEPT ![t].at = "place", ![t].place = native[w].place]
          /\ SaveBegins(t)
     ELSE GoTo(t, "drop") /\ UNCHANGED overlapped
  /\ UNCHANGED <<refVars, positions, file, home, due, final, acts>>

\* The home window's ticker finds a change; or what hides the window saves its place
\* first, or what closes it (its title bar) does after.  A place off the screen is not
\* saved.
SaveMain(t, op, saved) ==
  /\ saved => RememberPosition
  /\ op = "tick" => saved
  /\ home # "closed" /\ threads[t] = Rest
  /\ IF op = "hide" THEN UNCHANGED acts ELSE Act
  /\ threads' = [threads EXCEPT ![t] =
       IF op = "shut" /\ ~saved THEN Rest
       ELSE [Rest EXCEPT !.op = op, !.of = Home, !.at = IF saved THEN "place" ELSE "hide"]]
  /\ home' = IF op = "shut" THEN "closed" ELSE home
  /\ IF saved THEN SaveBegins(t) ELSE UNCHANGED overlapped
  /\ UNCHANGED <<refVars, positions, file, due, final>>

Remembered(t) ==
  [g \in GroupIDs |-> IF g = threads[t].of THEN threads[t].place ELSE positions[g]]

\* Fault: the place of a window that closes is not written.
RememberOnly(t) ==
  /\ Stage(t, "place")
  /\ positions' = Remembered(t)
  /\ GoTo(t, IF threads[t].op = "close" THEN "drop" ELSE "marshal")
  /\ UNCHANGED <<refVars, file, overlapped, home, due, final, acts>>

Remember(t) ==
  /\ Stage(t, "place")
  /\ positions' = Remembered(t)
  /\ GoTo(t, "marshal")
  /\ UNCHANGED <<refVars, file, overlapped, home, due, final, acts>>

\* savePositions writes, without a lock, what it has read under one.
Marshal(t) ==
  /\ Stage(t, "marshal")
  /\ threads' = [threads EXCEPT ![t].at = "write", ![t].data = positions]
  /\ UNCHANGED <<refVars, placeVars, home, due, final, acts>>

SaveEnds(t) ==
  /\ Stage(t, "write")
  /\ CASE threads[t].op = "close" -> GoTo(t, "drop")
       [] threads[t].op = "hide" -> GoTo(t, "hide")
       [] OTHER -> ThreadEnds(t)
  /\ UNCHANGED <<refVars, positions, overlapped, home, due>>

Write(t) ==
  /\ file' = threads[t].data
  /\ SaveEnds(t)
  /\ UNCHANGED <<final, acts>>

NoPlaces == [g \in GroupIDs |-> Nil]

\* The error of os.WriteFile is dropped; the file is as it was, or cannot be read any more.
WriteFails(t) ==
  /\ file' \in {file, NoPlaces}
  /\ SaveEnds(t)
  /\ final' = NoPlaces /\ Act

ClearPositions(t) ==
  /\ Act
  /\ ThreadBegins(t, "clear", Nil, "remove")
  /\ positions' = NoPlaces
  /\ final' = NoPlaces
  /\ UNCHANGED <<refVars, file, overlapped, home, due>>

RemoveFile(t) ==
  /\ Stage(t, "remove")
  /\ file' \in {file, NoPlaces}
  /\ final' = NoPlaces
  /\ ThreadEnds(t)
  /\ UNCHANGED <<refVars, positions, overlapped, home, due, acts>>

-----------------------------------------------------------------------------
(* The handler of a window that closes                                     *)

Close(t, w) ==
  LET g == native[w].of IN
  /\ w \in Open /\ native[w].kept /\ Act
  /\ native' = [native EXCEPT ![w].open = FALSE]
  /\ ThreadBegins(t, "close", g, "save")
  /\ due' = (due \/ Open = {w})
  /\ final' = [final EXCEPT ![g] = native[w].place]
  /\ UNCHANGED <<windows, tickers, crossed, placeVars, home>>

\* Fault: the reference stays.
DropNothing(t) ==
  /\ Stage(t, "drop")
  /\ GoTo(t, "group")
  /\ UNCHANGED <<refVars, placeVars, home, due, final, acts>>

DropReference(t) ==
  /\ Stage(t, "drop")
  /\ windows' = [windows EXCEPT ![threads[t].of] = 0]
  /\ GoTo(t, "group")
  /\ UNCHANGED <<native, tickers, crossed, placeVars, home, due, final, acts>>

\* mainWindow.Show(), which brings back no window that was closed.
Shown == IF home = "closed" THEN "closed" ELSE "shown"

\* Fault: one window too many is counted.
GroupClosedAtOne(t) ==
  /\ Stage(t, "group")
  /\ home' = IF AutoShowHome /\ Cardinality({g \in GroupIDs : windows[g] # 0}) = 1
             THEN Shown ELSE home
  /\ ThreadEnds(t)
  /\ UNCHANGED <<refVars, placeVars, due, final, acts>>

\* CloseGroup, and then the home window when no window is left.
GroupClosed(t) ==
  /\ Stage(t, "group")
  /\ home' = IF AutoShowHome /\ \A g \in GroupIDs : windows[g] = 0 THEN Shown ELSE home
  /\ ThreadEnds(t)
  /\ UNCHANGED <<refVars, placeVars, due, final, acts>>

\* By the tray.
ShowHome ==
  /\ home = "hidden"
  /\ home' = "shown" /\ Act
  /\ UNCHANGED <<refVars, placeVars, threads, due, final>>

\* By the tray, or when a connection was opened.
HideHome(t) ==
  /\ Stage(t, "hide")
  /\ home' = (IF home = "closed" THEN "closed" ELSE "hidden") /\ due' = FALSE
  /\ ThreadEnds(t)
  /\ UNCHANGED <<refVars, placeVars, final, acts>>

-----------------------------------------------------------------------------

WindowsInit ==
  /\ windows = [g \in GroupIDs |-> 0] /\ native = <<>>
  /\ tickers = [g \in GroupIDs |-> 0] /\ threads = [t \in Threads |-> Rest]
  /\ positions = NoPlaces /\ file = NoPlaces /\ overlapped = FALSE
  /\ home = "shown" /\ crossed = {} /\ due = FALSE
  /\ final = NoPlaces /\ acts = 0

Opening(t) == Look(t) \/ KeepReference(t) \/ \E p \in Spots : Make(t, p)
Saving(t) ==
  SaveFinal(t) \/ Remember(t) \/ Marshal(t) \/ Write(t) \/ WriteFails(t) \/ RemoveFile(t)
Closes(t) == DropReference(t) \/ GroupClosed(t)

WindowsNext ==
  \/ \E t \in Threads :
       \/ Opening(t) \/ Saving(t) \/ Closes(t) \/ ClearPositions(t)
       \/ \E g \in GroupIDs : OpenSSHWindow(t, g) \/ Tick(t, g)
       \/ \E w \in Made : Close(t, w)
       \/ \E op \in {"tick", "hide", "shut"}, saved \in BOOLEAN : SaveMain(t, op, saved)
       \/ HideHome(t)
  \/ \E w \in Made, p \in Spots \cup {Nil} : Move(w, p)
  \/ ShowHome

WindowsSpec == WindowsInit /\ [][WindowsNext]_windowsVars

-----------------------------------------------------------------------------

\* A group's reference is to a window that is open or whose handler will drop it, so that
\* a group can be opened again; and every open window is the one of its group, unless two
\* opens of the group overlapped.
ReferencesAreTrue ==
  /\ \A g \in GroupIDs : windows[g] # 0 =>
       \/ native[windows[g]].open
       \/ \E t \in Threads : Runs(t, "close", g) /\ ~Stage(t, "group")
  /\ \A w \in Open : native[w].kept => windows[native[w].of] = w \/ native[w].of \in crossed

\* When the last window is closed the home window is there, however the closes of several
\* windows overlap with each other and with a hide: it was not closed itself, so it comes
\* back (app.go:119).
HomeComesBack ==
  due /\ AutoShowHome /\ home # "closed" /\ (\A t \in Threads : threads[t].op # "close") =>
    home = "shown"

\* The handler of the close saves the final place (window_manager.go:380): when all is
\* quiet it is in the file, unless saves overlapped, a write failed after or the places
\* were cleared.
FinalIsSaved ==
  (\A t \in Threads : threads[t] = Rest) /\ RememberPosition /\ crossed = {} /\ ~overlapped =>
    \A g \in GroupIDs : final[g] # Nil => file[g] = final[g]
=============================================================================

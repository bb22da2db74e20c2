# Goshell in TLA+

Goshell is an SSH terminal: a Go backend (Wails) with a React frontend, an AI
assistant that runs commands on the servers, and a small server that keeps the
connections of several devices in step. This directory models the program in
TLA+ - the concurrent services of the backend, the panels of the frontend with
the answers and events they wait for, the connection storage, the private
cloud - checks the models with TLC on small instances, and proves the
invariants that matter most with TLAPS, for every value of the constants.

## 1. Inventory

What each part keeps, does, and can get wrong.

### AI chat service - `internal/ai/service.go` (module `AIChat`)
- State: per connection a `connState` (processing flag, cancel channel, message
  queue); per server (host:port) a session, the message list; the approvals and
  results the backend waits for; a history file per server.
- Operations: `SendMessage` starts a goroutine or queues; `processQueue` and
  `processWithTools` answer in up to 50 rounds; `waitForApproval` and
  `executeViaFrontend` block on the frontend; `ApproveTool`, `DenyTool`,
  `SubmitToolResult`, `CancelProcessing`; `GetChatHistory`, `ClearChatHistory`.
- Interaction: events to the panel (`useAIChatPanel.ts`), bindings back; the
  panel runs the tools (`useAIToolExecution.ts`).
- Hard: a cancelled goroutine lives on beside the next one; channels are read
  before or after a cancellation replaced them; connections to one server
  interleave in one session; the file is written from a copy.
- Correct when: no queued message is left without a worker, one worker at a
  time answers a connection, messages keep their order, cancellation reaches
  whoever blocks, requests pair tool calls with results.

### SSH connection lifecycle - `internal/ssh/service.go`, `client.go` (module `SSHLifecycle`)
- State: `clients` (connection id to client) under the RWMutex `s.mu`; each
  client's `isConnected`/`closing`; `reconnectConfigs`.
- Operations: `CreateAndConnectWithGroup`, `Reconnect`, `Disconnect`,
  `CloseGroup`, `SaveConnection`, `DeleteConnection`,
  `onConnectionDisconnected`, `StartHealthCheck`, and the commands and file
  operations that keep a read lock on `s.mu` to their end, which no timeout sets.
- Hard: connects and reconnects leave the lock while they dial; a timeout
  abandons a dial that goes on; the disconnect callback runs on a goroutine of
  its own, arbitrarily late; `broadcastConnections` takes `s.mu`.
- Correct when: the map only hands out open clients of the right connection, no
  installed client is lost, the status shown is that of the client, every
  connected client is in a group, and calls come back unless something keeps
  `s.mu` for ever.

### Groups - `internal/ssh/group_manager.go` (in `SSHLifecycle`, as it uses them)
- State: groups with the ids of their connections. Operations: create, add,
  remove, clear, delete; each is atomic under the manager's own lock, their
  sequences are not.

### Connection storage - `internal/ssh/storage.go` (modules `Storage`, `Records`)
- State: records in memory, a cache file emptied at each start, a permanent
  file keyed host:port:username.
- Hard: writes that fail or tear, restarts, edits that change the key of a
  record that is marked, keys that several records share.
- Correct when: what is marked as saved is there after the next start, unless
  it was deleted or could not be written. `Records` says this abstractly.

### Port forwarding - `internal/ssh/port_forward_service.go` (module `PortForward`)
- State: `forwards`, `states` and `listeners` by rule id under `s.mu`; a running
  rule has a `done` channel, a listener and the SSH client it was started with.
- Operations: add, start, stop and remove a rule; the panel edits a rule by
  removing and adding it. The frontend awaits a call but keeps no second one
  back.
- Hard: every call lets go of `s.mu` between its looks at the maps, so that two
  calls on one rule interleave; the client is lost or replaced under a running
  rule.
- Correct when: no listener is open that no rule can stop, a rule is shown as
  running exactly when it listens, no channel is closed twice, and a run whose
  channel was closed does not stay in the table.

### Windows - `internal/ssh/window_manager.go`, `internal/wailsapi/app.go` (module `Windows`)
- State: the window of each group, tickers, remembered places and their file,
  whether the home window is shown, hidden or closed.
- Hard: check and act in `CreateSSHWindow`; tickers, closes and settings write
  one file without a lock, and a write may fail; windows that close at once.
- Correct when: references and open windows agree, a hidden home window comes
  back, the place of a closed window is kept.

### Cloud server, client and service - `internal/cloud/`, `internal/ssh/cloud_service.go` (module `Cloud`)
- State: the service's client and stop channel, websockets with answers on
  their way, heartbeat loops; the server's device, stored connections, file.
- Hard: write and read on a socket are not one critical section; a loop reads
  `stopCh` anew in each turn; `Connect` is two critical sections; the handler
  of an old socket ends late, that of a socket in use when pings are lost; the
  server restarts; its clock may be set back.
- Correct when: an answer belongs to the question, no socket is left open, a
  connected device is online, a password is encrypted once.

### Connection window - `SSHWorkspace.tsx`, `DockviewWorkspace.tsx`, `useAIToolExecution.ts` (modules `Workspace`, `Tab`)
- State: tabs, the tab in front, open panels, terminals and requests of the AI,
  tool calls it runs, events on their way.
- Hard: events and lists arrive when another tab is in front; requests for a
  terminal meet sessions that start, fail or belong to a tab that is left; calls
  of a tab may never be answered.
- Correct when: panels follow the tab, a tool call whose command ends has its
  result submitted, tabs catch up with the group as long as the backend tells of
  it.

### Files - `file-manager/`, over SFTP (module `Files`)
- State: directory, table, selection, dialogs, searches, task list, jobs.
- Hard: every handler runs in pieces between which others and a change of tab
  come; answers come in any order; steps fail; searches go on after a reset.
- Correct when: table and path bar agree, spinners wait for a call, a dialog acts
  on the connection of the tab it was opened in, results are of the last search.

### Terminal - `terminal/`, `TerminalPanel.tsx` (module `Terminal`)
- State: blocks of commands, history, completion, search, recording; the runs
  of the view, their shells, the session store.
- Hard: starts and closes of a shell are not ordered; output, failures and
  cancels meet whatever block is active; lists change behind their cursors.
- Correct when: a ready session is mounted and started, cursors stay in bounds,
  a block that ended stays as it is.

### Batch commands - `BatchCommandPanel.tsx` (module `Batch`)
- State: the choice of connections, rows of results, calls on their way. Hard:
  the list and the choice change while a run is out. Correct when: rows show
  the calls of their own run.

### AI panel - `useAIChatPanel.ts`, `ai/components/`, `aiToolLogStore.ts` (module `AIPanel`)
- State: config, models, history, busy flags, approval cards, tool log. Hard:
  an effect that depends on what it loads; answers for the tab before; log
  entries written by four parties. Correct when: cards and entries are of the
  right connection, busy flags end, a log entry never goes back.

### Firewall, guardian, monitor - three panels and their services (module `Polled`)
- State: the last answer, the selection and its details, calls, an interval.
  Hard: polls, changes, questions and a change of tab overlap; a lost
  connection reads as an empty list. Correct when: details are those of the
  selection, what is shown catches up with the server.

### Home - `components/home/`, `useAppData.ts`, stores (module `Home`, over `Storage`)
- State: the lists, page, busy signs, dialogs, flows of handlers. Hard: pages
  are left while handlers wait; reloads are answered after newer events.
  Correct when: no button waits for nobody, lists catch up with the storage as
  long as the backend tells of it.

### Not modelled
Configuration and AI storage, logs and toasts, generated bindings: section 13.

## 2. Structure

| module | subject | proofs |
|---|---|---|
| `AIChat` | queue, workers, cancellation, tools, history | `AIChatProofs` |
| `SSHLifecycle` | map of clients, `s.mu`, status, groups | `SSHLifecycleProofs` |
| `PortForward` | start, stop, remove, listeners | `PortForwardProofs` |
| `Records` <- `Storage` <- `Home` | promise of the storage; its operations and failures; the home window over it | `DeskProofs` |
| `Tab` <- `Files`, `Terminal`, `Batch`, `AIPanel` | the connection in front; the panels that are given it | `PanelProofs`, `AIPanelProofs` |
| `Tab` <- `Workspace`, `Polled` | tabs, dock and AI tools; the panels that poll | `DeskProofs` |
| `Cloud` | cloud service, clients and server | `CloudProofs` |
| `Windows` | native windows, their places, the home window | `WindowsProofs` |
| `MCAIChat`, `MCSSHLifecycle`, `MCPortForward`, `MCAIPanel`, `MCCloud` | instances of one module for TLC | |
| `MCServices`, `MCGroups`, `MCWindow`, `MCDesk` | instances of several modules that rest while another is used | |

`Home` extends `Storage`, so that every call of a handler is an operation of the
storage itself, with its failures. `MCWindow` and `MCDesk` put modules that share
the connection in front (`connID`) side by side: nothing else passes between
them, so in one behaviour one part is used (`used`) and the others rest, which
keeps the sum of the parts and not their product. So do `MCServices` (the chat
service and port forwarding) and `MCGroups` (connections and native windows: a
window that closes calls `CloseGroup`, which `SSHLifecycle` takes at any time). `AIPanel` holds as much of the
chat service as it can tell apart (how far a tool call is), `Workspace` as much
of a terminal (its session and last start), `Home` takes the answers of the
lifecycle as choices; `AIChat`, `Terminal` and `SSHLifecycle` have the rest.

Definitions under a comment that begins with "Fault:" are not part of a model.
Each is a definition of the model the way a plausible mistake would have it, and
there to show that the property it is paired with in `PROJECT.json` notices.

## 3. AIChat

| TLA+ | code |
|---|---|
| `processing`, `cancel`, `queue` | `connState` of a connection; a cancel channel is named by the message whose turn made it, 0 is nil |
| `closed` | the channels that were closed |
| `messages`, `disk`, `wiping` | session and its file by server; a clear between session and file |
| `pc`, `turn`, `round`, `calls`, `call`, `ch`, `snapshot` | goroutines started by `SendMessage`: where they are and their locals |
| `approvals`, `verdicts`, `results`, `answers` | `s.approvals`, `s.results` and what their one-place buffers hold |
| `panel`, `cards`, `executing`, `dropping` | the React panel: open, approvals shown, tools run, `setApprovals([])` pending |
| `Start`, `Enqueue` | the two branches of `SendMessage`, each one critical section |
| `AppendUser`, `Dequeue` | the turns of `processQueue` |
| `ReadCancel`, `RoundCancelled`, `StartRound` | head of a round: `isCancelled` reads the channel under the lock and looks at it after |
| `CallFails`, `CallReplies`, `CallAsksTools`, `Summarise` | `processWithTools`: the outcomes of the API call, the final summary |
| `Ask`, `Capture`, `Approved`, `Refused` | `waitForApproval`: register and emit, read `cs.cancel`, then the branches of the select |
| `Execute`, `Capture`, `Finish`, `ToolDone` | `executeViaFrontend` and the tool message |
| `Copy`, `Save` | `persistMessages`: copy under the lock, write without it |
| `Decide`, `SubmitToolResult`, `CancelProcessing`, `DropCards`, `ClosePanel`, `OpenPanel`, `GetChatHistory`, `ClearSession`, `ClearFile` | the bindings and the panel |
| `buildMessages` | the context of a request, as the two trims that act on the ends of the list |

Every step between two critical sections of the code is an action of its own,
so every interleaving of the goroutines is explored. Abstractions: messages have
no text, only role, connection, turn, round and call; the token budget is a
number of messages; an API call, its three attempts included, is one choice
among failing, answering and asking for tools; streamed events change no state
of the service and are left out. Sends into a full one-place buffer, which block
a second decision on one request, are not modelled as blocking: the first
decision counts, and the binding that stays blocked changes nothing.

Properties:

- `NoStrandedMessage`: a queued message always has a living worker. The flag
  and the queue are changed in one critical section in `SendMessage`,
  `processQueue` and `CancelProcessing`; it would fail if any of them read the
  flag elsewhere.
- `SerialUntilCancelled`, `OrderUntilCancelled`: before the first cancellation
  there is one worker, and messages enter the session as they were sent. After
  one the old worker does run beside the new one: this is why the properties
  are qualified, and what `CancelledTurnStops` is about.
- `CancelledTurnStops` (violated): a cancelled worker does not call the model
  again. `isCancelled` sees a cancellation that comes between its read of the
  channel and its look at it, and no other: `CancelProcessing` closes the channel
  and clears the field in one section, and nil counts as not cancelled.
- `CancelReachesWaiter`: before the first cancellation a worker that blocks
  holds the very channel a cancellation will close. After it the late read of
  `waitForApproval` may find nil or the channel of the next message; no property
  covers that.
- `PairedAlone`: alone on its server, neither cancelled nor cleared, a
  connection only sends requests in which each tool call has its result. Behind
  a system message it is claimed of sessions within the budget only: the trim
  that drops leading results then finds the system message in front, so what the
  budget cuts stays cut. `RequestsPaired` (violated) claims it of every request.
- `QueueServed` (liveness): a queued message is served or dropped, unless a
  worker of its connection is held up for ever: by the model, a tool or the user.

Fairness: a goroutine that can run by itself does (`WF` of `GoesOn`), and no
more. The HTTP client of the model has no timeout ("cancelled by hand",
`service.go:693`), nor has a command that a tool runs; nothing makes the user
decide, and nothing answers a closed panel. What `QueueServed` then says is that
queue and workers never stop each other: a worker that is done with its message
comes back to the queue, and cancellations and clears in between lose none.

## 4. SSHLifecycle

| TLA+ | code |
|---|---|
| `clients` | `s.clients` |
| `state`, `owner` | an `SSHClient`: dialing, dialed, failed, up (`isConnected`), down (lost), closed; the connection its callback was made for |
| `store`, `status` | record of the storage (absent, in the cache, in the permanent file too) and its `Status` |
| `configs` | `reconnectConfigs` |
| `members`, `exists` | the group manager |
| `writer`, `readers` | `s.mu` |
| `call` | the goroutines: bindings, callback, health check |
| `Create`, `CreateConnected`, `CreateFails`, `Insert`, `SetConnected`, `CheckGroup`, `Join` | `CreateAndConnectWithGroup`; `CreateFails` is also the timeout |
| `CreateUnwritten` | the same when the record cannot be written: it stays in memory, and no dial is made |
| `Reconnect`, `Clean`, `Redialed`, `Insert`, `SetConnected`, `Forget`, `Show` | `Reconnect` |
| `Disconnect`, `Cut` | `Disconnect`; `"stuck"` is the place of a call that waits for its own lock |
| `CloseGroup`, `CloseOne`, `ClearGroup`, `DeleteGroup` | `CloseGroup`, one step per lock |
| `Drop`, `HealthCheck`, `Lookup`, `Keep`, `Mark`, `Show` | `handleDisconnect`, `StartHealthCheck`, `onConnectionDisconnected` |
| `ExecuteCommand`, `CommandEnds` | every operation that defers `RUnlock`; it may never end |
| `Announce` | `s.mu.Lock()` called: from then on new readers wait |

Abstractions: operations of the storage and of the group manager are atomic
(each holds its own lock throughout); `Close` of a client, at most two seconds
long, is atomic under the lock that is held around it; `GetAllConnections` reads
its records in one step; after an unlock Go lets the waiting readers in first,
which the model permits and does not force (more behaviours for safety, and
strong fairness stands for it in liveness). Shell sessions, `Connect`,
`AutoReconnect`, `UnsaveConnection` and `RemoveFromGroup` are left out; the
frontend uses none of the last four.

Properties:

- `RegisteredIsOpen`: the map never hands out a client that was closed, nor that
  of another connection, whatever overlaps.
- `InstalledIsRegistered`, `StatusFollowsClient`, `ConnectedIsGrouped`: an
  installed client leaves the map only by being closed; with no call under way
  on a connection its status is the client's, and a connected one is in a group
  so that closing a window closes it. The code does not promise these when two
  calls overlap on one connection (two `Reconnect`s, a `Reconnect` with a
  `CloseGroup`, a late callback with a `Reconnect`): the last writer wins and
  may be the wrong one. `raced` collects such connections, from the moment the
  calls overlap, and the three properties leave them out; they still cover
  every sequence of calls, lost connections and failed dials, and overlaps of
  calls on *different* connections that share the lock, a group or a list.
- `CallsReturn` (liveness): every call comes back, unless `s.mu` is kept for ever
  (`Held`: by a command that does not end, or a `Disconnect` that has blocked
  itself), or the call is a `Reconnect` whose own dial does not end. It says that
  nothing else makes calls wait for each other: no order of readers, writers that
  announce themselves and broadcasts.
- `DisconnectReturns` (violated): so does a `Disconnect`, where every command ends.

Fairness: strong fairness of what a call does by itself (`Proceeds`), since
`sync.RWMutex` starves neither readers nor writers, and a create gives up its
dial at its timeout. No fairness for the end of a command: `ExecuteCommand` waits
for its session without a timeout (`client.go:218`) and keeps the read lock
meanwhile; nor for the end of a dial, as the timeout of `ssh.Dial` stops at the
handshake.

## 5. PortForward

| TLA+ | code |
|---|---|
| `status`, `bind` | `s.forwards`: `Status` and `BindPort` of a rule; `"absent"` and `"removed"` are rules the map does not have |
| `states`, `listeners` | `s.states`, `s.listeners` |
| `rule`, `port`, `listener`, `done` | a run, what one `StartForward` makes: its rule, the port and state of its listener, its channel |
| `link`, `alive`, `live` | `isConnected` of the current client; whether it really has its server; the runs of remote rules whose client does |
| `task`, `raced` | the goroutines of the bindings; rules on which two of them overlapped |
| `AddForward` | `AddLocalForward`, `AddRemoteForward` |
| `StartForward`, `ClientMissing`, `Register`, `Listen`, `ListenFails`, `Bind`, `Publish`, `Started`, `Undo`, `Fail` | `StartForward` with `startLocalForward` and `startRemoteForward`, one step per critical section |
| `StopForward`, `Snap`, `Close`, `Drop`, `Stopped` | `StopForward` |
| `RemoveForward`, `Snap` to `Stopped`, `Delete` | `RemoveForward`, which stops a running rule first |
| `HandleDisconnect`, `ServerLost`, `Clean`, `Insert` | the client: a shell ends, the server goes, `Reconnect` closes and replaces it |

Abstractions: a rule id is used once (it is a timestamp in nanoseconds); the
check of `AddLocalForward` for a port in use and the insertion are one step, as
`Listen` decides about the port anyway; a port stands for address and port. A
call that closes a closed channel panics, and Wails recovers from that: the call
returns where it stands. Tunnels, their counters and the statistics events are
left out, as is `StopAllByConnID`, which nothing calls: a closed connection keeps
its rules, with the local ones listening.

Properties:

- `OpenIsOwned`, `RunningListens`, `ClosedOnce` (proved only): unless two calls
  overlapped on a rule (`raced`), an open listener is in the table or about to
  be, so that a stop finds it; a rule is running exactly when its listener
  accepts (or the SSH server dropped it with the link), a rule that is not
  running has left nothing in the tables, and no `done` channel is closed twice.
  They cover failed
  listens, lost and replaced clients, restarts of a rule, and overlaps of calls
  on *different* rules that compete for a port.
- `ClosedAreDropped`: whatever overlaps, a run whose `done` channel is closed
  stands in the table only until the call that closed it goes on. So a stop can
  find a closed channel, and panic, only while another stop is half way through.
- `RemovedIsClosed` (violated): removing closes the listener.

No liveness is claimed: nothing in the service waits but for the network.

## 6. Panels of a window

`Tab` declares `connID`. A *job* (`Files`), *run* (`Terminal`), *call* (`Polled`),
*errand* (`Workspace`) or *flow* (`Home`) is one handler of the code between its
start and its end, cut at each `await`: it keeps what its closure kept, that is
the values of the render it was made in. `Offers` in each module is the set of
clicks the page has (hidden, disabled and covered ones left out), and every
handler begins with one of them.

| TLA+ | code |
|---|---|
| `Files`: `cwd`, `files`, `selected`, `loading`, `preview`, `editor`, `permission`, `tasks` | states of `FileManagerPanel.tsx`, `useUploadTasks.ts` |
| `query`, `search`, `hunts` | `useRemoteSearch.ts`; searches of the backend, which outlive it |
| `tree`, `temp` | paths and archives on a server |
| `loadDirectory`, `Loaded`; `openPreview`, `Previewed`; `openEditor`, `EditorFilled`; ... `Changed` | a handler up to its await, and after it |
| `Serve` | the server answers or fails, with its effect on `tree` |
| `Terminal`: `blocks`, `active`, `sends` | `useBlockManager.ts`; lines on their way |
| `history`, `cursor`, `popup`, `find`, `isRecording` | the hooks of the structured view |
| `runs`, `Restart`, `CreateShell`, `EnterShell`, `Ready`, `StartFails`, `closeShellSession` | the effect of `ClassicTerminalView.tsx`, its start and its cleanup, and the backend's shells |
| `records` | `terminalSessionsStore.ts` |
| `Batch`: `run`, `CommandEnds`, `RunEnds`, `KeepKnown` | `run`, its `Promise.all`, the effect on the list |
| `AIPanel`: `round`, `Reload`, `ConfigAnswered`, `HistoryAnswered`, `ModelsAnswered` | the effect and what it waits for |
| `cards`, `log`, `mail`, `HearMail`, `Decide`, `ToolRuns` | approvals, tool log, events, decisions, execution |
| `sendMessage`, `SendAnswered`, `CallRefused` | a send, found by the id of its message; a call of the panel that fails |
| `stage` | how far the chat service is with a tool call |
| `Polled`: `load`, `LoadDone`, `SwitchTab`, `Question`, `Change`, `ChangeDone`, `loadDetails`, `DetailsDone` | the handlers of the three panels |
| `Reach`, `Miss`, `Worked` | the services: a call that works, one on a lost connection |

Abstractions: a path is the sequence of its names, the content of a file is
known by the file; a text by whether it is empty; output by whether it ends in a
prompt and has the word searched for. React's effects run with the action that
changes what they depend on, as no event handler comes between a commit and its
effects here; state that a later render of the same handler would see is that of
its closure.

Properties:

- `ListingOfCwd`, `SpinnersWait`, `ResultsOfSearch`, `DialogsOfTab` (`Files`):
  loads that overlap change table and path bar together; whatever is busy waits
  for a call that ends it; results are of the last search though the backend
  goes on with others; what is saved, changed or deleted from a dialog goes to
  the connection of the tab it was opened in. `DialogsOfTab` does not say that
  the file is of that server: a load of the tab before that is answered late
  fills the table, and a dialog opened on one of its rows acts on this server.
- `ReadyIsMounted`, `CursorsInBounds`, `EndedBlocksKept` (`Terminal`): a late
  answer to the start of a run that was disposed makes no session ready; history
  cursor, suggestion and search hit stay in lists that change behind them; a
  block that ended is not written to by output, a failed send or a cancel.
- `RowsOfRun` (`Batch`): a row shows a command as running exactly while its call
  in this run is out.
- `CardsOfTab`, `BusyWaits`, `LogForward` (`AIPanel`): see the inventory.
- `AISettles` (violated): the panel becomes ready.
- `DetailsOfSelection`, `PolledCatchesUp` (`Polled`): details are never those of
  another guardian or server, but for a failed call; once changes stop and calls
  succeed the panel shows what the server has, unless a call is never answered
  (none has a timeout). Fairness: the interval, and what follows an answer.

That the *table* is of the tab in front, or the *messages* of the AI panel, is
not true of the code: answers of the tab before fill them. No text of the
repository promises it; the hazards in `PROJECT.json` say so.

## 7. Workspace and Home

| TLA+ | code |
|---|---|
| `group`, `news`, `Announce`, `HearNews` | the backend's group and `ssh:group-updated`, sent every 500 ms |
| `stuck`, `telling`, `LockKept` | `s.mu` kept for ever; the goroutine that sends, which then hangs in `GetAllConnections` |
| `Disconnected`, `Reconnected`, `CallLost`, `FetchFails` | the answers to a close, a reconnect and a load, and those that fail or never come |
| `tabs`, `activeConnID`, `activeID`, `errands`, `Fetch`, `Fetched` | `SSHWorkspace.tsx` and its loads, closes and drops |
| `panels`, `Render`, `openPanel`, `ClosePanels` | the dock; every render hands `connID` to all panels |
| `wires`, `HearWire`, `requests`, `tools`, `RequestTimeout`, `SubmitToolResult` | events for AI terminals, `pendingOpenRequestsRef`, tool calls |
| `starts`, `sessions`, `ShellStarts`, `ShellFails` | AI terminals and `terminalSessionsStore` |
| `shown`, `config`, `bulletin`, `ReloadReads`, `Reloaded`, `ConnectionsUpdated` | `useAppData.ts` and `ssh:connections-updated` |
| `online`, `DropClient`, `Disconnect`, `blocked`, `BlockedElsewhere` | clients of the backend; a `Disconnect` that keeps `s.mu` if a record is left, another call that does |
| `view`, `busy`, `dialogs`, `flows` | pages, disabled buttons, dialogs, handlers of the home window |
| `RowClick`, `FormClick`, `SettingClick`, `ImportClick`, `CloudSectionClick`, `CloudPageClick` | the handlers' beginnings |
| `entries`, `file` | the storage: `AddConnection`, `MarkAsSaved`, `UpdateConnection`, ... of `storage.go`, each under its lock |
| `excused` | keys that were deleted or not written since the start |
| `StartAgain` | a restart, which may have cut a write |

What a pull brings is dropped by the two cloud pages, and nothing calls
`SyncImportConnection`; `Storage` has it as an operation the storage offers.

Properties:

- `PanelsFollowTab`, and `RequestsOfTab` (proved only): every panel is on the
  connection of the tab in front; a request for a terminal is of that tab, and a
  panel waits for it.
- `ToolsAnswered`: the result of a tool call that the panel has taken on is
  submitted, though its terminal fails, its request times out or its tab is left.
  Two calls are excepted: one whose command never ends (`runRemoteCommand` has no
  timeout), and one of which the submit of the result and that of the error both
  fail, which ends as `"lost"`, not as `"done"`.
- `TabsCatchUp`, `HomeCatchesUp`: tabs and lists end up as what the backend has,
  whatever answers were older than the news. Both hold unless `s.mu` is kept for
  ever, by a command or by a `Disconnect` (third finding): then the one goroutine
  that tells of groups and connections hangs in `GetAllConnections`.
- `BusyIsAnswered`: a busy sign has a flow that takes it away.
- `KeepsRecords`, the refinement: with `kept <- file` and
  `shown <- SavedKeys(entries)` the storage implements `Records`; `SavedAreKept`
  (the invariant of `Records`, of the storage) is proved only.

A close does not take its connection out of the group: `Disconnect` drops the
client, and the record unless it is saved, and the group tells of the ids that
have a record. So a close of a saved connection leaves its tab, and one after
which any record is left never returns; the models have both.

Fairness: what follows an `await` that was answered, loads of the group and
submits, timers, and the broadcasts of the backend as long as it can make them.
No call of a tab need be answered, no command end, and no flow of the home window
get its answer or its decision: `ToolsAnswered`, `TabsCatchUp` and
`HomeCatchesUp` rest on the timers and the broadcasts only.

## 8. Cloud

| TLA+ | code |
|---|---|
| `threads`, `mu`, `client`, `stop`, `stopped` | calls and loops of `CloudService`; `cs.mu`, `cs.client`, `cs.stopCh`, closed channels |
| `sockets` | per client its websocket: whether the client has it open, whether a `handleWS` serves it, questions and answers on their way |
| `stored`, `file`, `life`, `known`, `online`, `now` | `s.syncData`, `sync.json`, starts of the server, its one device, its clock |
| `Disconnect`, `Dial`, `Write`, `Read`, `Refused`, `ConnectEnds` | `Connect`, which begins with `Disconnect` and then holds `cs.mu` |
| `Begin`, `Write`, `Read`, `ReadFails`, `Answered` | `PullSync`, `PushSync` and a heartbeat, through `send` |
| `LoopTurns`, `Tick`, `LoopEnds` | `heartbeatLoop` of the service |
| `processMessage`, `HandlerEnds`, `Expire`, `RestartServer`, `clearSync` | the server and its console |
| `PingsLost`, `SetClockBack` | a handler that hears nothing for 90 s while the client believes to be connected; the clock of the server's machine |
| `OtherPushes`, `OtherLeaves` | other programs, which register as the same device |

Abstractions: of a password the number of encryptions is kept, of a merge the
key, source and time of an entry; the clock ticks with each push, and may be set
back at any time; a write to a socket whose other end is gone succeeds and the
read after it fails. A client that beats meets the server's limit of 90 s on a
socket, unless its machine sleeps or the network is out (`PingsLost`).

Properties: `AnswersAreOwn` - unless two sends overlap on a client, no answer is
taken for another question, late ones included, since a client that got none in
time disconnects; `SocketsAreOwned` - unless two `Connect`s overlapped, failures,
refusals and reconnects leave no socket open; `EncryptedOnce` - unless the clock
was set back, however devices and restarts follow each other; `OnlineCatchesUp` -
whatever marks a device as offline late, heartbeats set that right. Fairness:
calls, loops and the server go on; dial, reads and writes have a deadline of
10 s.

The exceptions are real, and the model has them: `send` takes no lock over its
write and its read (`client.go:105`), so calls that overlap get each other's
answers; of two `Connect`s that overlap, as two windows make at their start, the
socket of the first stays open (`cloud_service.go:40`); an entry that wins a
merge is encrypted again (`server.go:305`), which takes a clock that was set
back, as times are the server's own: while the server was down, or while it runs,
since entries from `sync.json` have no monotonic time to compare. And `clearSync` merges an empty list, which
clears nothing (`internal/cloud/main.go:170`).

## 9. Windows

| TLA+ | code |
|---|---|
| `windows`, `native`, `tickers` | `wm.windows`; the windows made; a ticker each |
| `positions`, `file` | `wm.positions`, `window_positions.json` |
| `OpenSSHWindow`, `Look`, `Make`, `KeepReference` | `CreateSSHWindow`, between its critical sections |
| `Move` | the user moves a window, or minimises it (no place to save) |
| `Tick`, `SaveMain`, `SaveFinal`, then `Remember`, `Marshal`, `Write` or `WriteFails` | the savers; `savePositions` reads under a lock and writes after it, dropping the error |
| `Close`, `DropReference`, `GroupClosed` | the handler of `WindowClosing`, the callback of `app.go` |
| `ClearPositions`, `RemoveFile` | the settings |
| `home`, `HideHome`, `ShowHome`, `Shown`, `SaveMain` | the home window: hidden by the tray or a connect, shown by the tray, closed by its title bar, which only saves its place |

The place of the home window is left out of the table: its savers write the
others' places with it. A user closes a window when its page is there. Storing
the reference, showing the window and registering its close handler are one step
(`KeepReference`).

Properties: `ReferencesAreTrue` - a reference is to a window that is open or
about to be dropped, and every open window is referenced unless opens of its
group overlapped; `HomeComesBack` - when all windows are closed and their
handlers through, the home window is shown unless it was hidden after or had been
closed itself, since `mainWindow.Show()` has no window then; `FinalIsSaved` - the
place of a window that closed is in the file, unless saves overlapped or a later
write failed. The exceptions are real here too: two opens of one group both find
no window and make two (`window_manager.go:300`), and closing one closes the
connections of the other; `savePositions` writes after its lock
(`window_manager.go:96`), so an older save overwrites the place of a window that
closed. The model takes every access of a map as atomic; `CreateSSHWindow` reads
`wm.positions` without its lock (line 343), which Go may end the program for.

## 10. Runs

| run | module, cfg | instance | shows |
|---|---|---|---|
| `ai_turns` | `MCAIChat`, `MCAIChatTurns.cfg` | 1 connection, 2 workers, a cancellation; 3 messages, 2 messages and a clear, or 2 messages and a tool | queueing, cancelling and draining: nothing stranded, one worker, order; `QueueServed` under fairness |
| `ai_cancel` | `MCAIChat`, `MCAIChatCancel.cfg` | one message, one cancellation | violation: a cancelled turn calls the model again |
| `ai_pairing` | `MCAIChat`, `MCAIChatPaired.cfg` | 2 connections to one server, a message of each, one call in an answer | violation: the message of the second comes between the call of the first and its result |
| `services` | `MCServices`, `MCServices.cfg` | chat: 2 tool calls an answer, 2 messages, a cancellation, a budget of 3 messages without a system message; forwards: a local and a remote rule, 1 port, 2 runs, 2 calls | approval and execution against cancellation, requests paired; listeners, tables and status |
| `ssh_live` | `MCSSHLifecycle`, `MCSSHLive.cfg` | 1 connection, 2 clients, groups and calls | `CallsReturn` |
| `ssh_disconnect` | `MCSSHLifecycle`, `MCSSHDisconnect.cfg` | as above | violation: `Disconnect` waits for its own lock |
| `groups` | `MCGroups`, `MCGroups.cfg` | 2 connections, clients, groups and calls; 2 window groups, threads and places, 3 windows, 4 acts (calls, moves, closes, shows, failed writes) | the map, status and groups; references of windows, the home window, saved places |
| `pf_remove` | `MCPortForward`, `MCPortForwardRemove.cfg` | 1 local rule, 1 run, 2 calls | violation: a rule removed while it starts goes on listening |
| `window_panels` | `MCWindow`, `MCWindow.cfg` | 2 tabs; 2 jobs and clicks; 2 blocks, 2 runs, 3 taps; 4 strokes; 1 tool call, 3 presses; 3 records of 2 users | the panels of a window, and the storage with its refinement |
| `desk` | `MCDesk`, `MCDesk.cfg` | 2 tabs, 1 tool, 2 errands, acts, calls, items, moves, records, flows, touches | tabs, polled panels and the home window; that they catch up |
| `ai_settles` | `MCAIPanel`, `MCAIPanel.cfg` | 1 connection, nothing pressed | violation: the AI panel loads for ever |
| `cloud` | `MCCloud`, `MCCloud.cfg` | 1 server name, 2 calls, loops and sockets, 3 acts | answers, sockets, encryption; `OnlineCatchesUp` under fairness |

What is proved for every instance is left to the proofs where a run would add
nothing: type invariants, `ClosedOnce`, `RequestsOfTab` and `SavedAreKept` are in no
run.

Bounds. Two workers are the least with which an abandoned worker meets its
successor; a third message is the least that is queued behind another; two
calls in an answer are the least that leave a request half answered; one round
and its summary (`MaxRounds` = 1) reach every place of the loop, two are needed
for a turn to come back to its head. Two calls show every pairwise overlap, two
clients a reconnect, two groups a connection that is created for a window while
another closes. In `services` two runs of a rule are the least with which a rule starts
again or two rules compete for the one port, and `OneRaced` leaves out states in
which calls have overlapped on both rules: each property speaks of one rule.

In the panels two tabs show every change of tab and the way back, two handlers
every overlap of a pair; the number of clicks is the length of a session with a
page, and each module's number lets a handler start, another overtake it and the
tab change in between. Three records of two users are the least in which two
share a key and one is renamed to it. In `cloud` two sockets are a reconnect,
three acts two calls and a failure, or a push, a restart and a push. Three
windows are two groups and one that is opened again. `MCDesk` starts with the
first of interchangeable things (`DeskInit`), and `MCCloud` uses the second of
two threads only beside the first (`InTurn`), as symmetry is not sound for
liveness. `SYMMETRY` is used in safety runs only, over
sets whose members no definition distinguishes. Deadlock is not checked: users
may stop, bounds run out, and a `Disconnect` may block itself.

## 11. Findings

1. `ai_cancel`: a cancelled turn goes on: `CancelProcessing` sets `cs.cancel` to
   nil and `isCancelled` reads nil as not cancelled (`service.go:303`), unless the
   cancellation comes between its read and its look.
2. `ai_pairing`: `buildMessages` does not keep tool calls and results paired
   inside the list (`service.go:536`, comment at 592): a message of another
   connection to the same server between the two leaves the calls unanswered. (So
   does a cut by the budget behind a system message, which `PairedAlone` excepts.)
3. `ssh_disconnect`: `Disconnect` broadcasts while it holds `s.mu`
   (`service.go:351`): with any record left in the storage it never returns, and
   `s.mu` stays with it.
4. `pf_remove`: `RemoveForward` stops a rule only if its status is `running`
   (`port_forward_service.go:485`), which `StartForward` sets last: removed in
   between, the rule is gone and its listener stays open.
5. `ai_settles`: `loadConfig` stores a new object each time, `fetchModels` is
   made anew from it, and the effect that calls `loadConfig` depends on
   `fetchModels` (`useAIChatPanel.ts:290`): the panel loads without end, and
   each round cancels the AI's work and resets cards and messages.

Sections 8 and 9 name what else the models show of the cloud and the windows, as
exceptions of their properties: no text of the repository promises otherwise.

## 12. Proofs

Eight modules of theorems, one invariant for each part, each proved inductive
action by action for every value of the constants. Every invariant and action
property of the passing runs is stated by a theorem.

**`AIChatProofs`**, for any numbers of connections, servers, workers, messages
and rounds: `TypeOK`, `NoStrandedMessage`, `SerialUntilCancelled`,
`CancelReachesWaiter`. The inductive invariant adds to
the type invariant
- `RoundInv`: at the places inside a round, its number is within `MaxRounds`.
  Without it `ToolDone` could count beyond the summary;
- `FlagInv`: while a message waits the flag is set, and a set flag has a living
  worker. This is what `NoStrandedMessage` rests on: the queue itself does not
  say who will come back to it;
- `CalmInv`: until the first cancellation a living worker implies the flag and a
  channel, no other worker of the connection lives, and a blocked one holds that
  channel. Without it a second `Start` could not be excluded;
- `ChannelInv`: the channel in place and those of queued messages are not
  closed, and the queue is in the order of sending, so the channel of a new turn
  is never one that was closed before.

On it rest two more. `OrderUntilCancelled` (`ListsInOrder`, `SentInOrder`): the
session alone is not enough, as it is copied by `persistMessages`, written to the
file and read back into an empty session. `OrderInv` therefore speaks of all
these lists of a server at once: the user messages of a connection are in order
in each, and none is newer than the message that is answered, whose number is
that of the cancel channel; `QueueAhead` says that what waits is newer still. No
list comes from nowhere (`Grown`): it was one before, is empty, or is the session
with one message more. `PairedAlone` (`SessionPaired`, `RequestsPairedAlone`):
`BuiltPaired` shows of lists alone that what `buildMessages` makes of a paired
list, by the budget and the two trims, is paired; `TalkInv` shows that the
session is paired, but that while the worker is at the calls of an answer, that
answer is the last one and has the results of exactly the calls before the
present one (`Open`). It needs `Fresh`: an empty session was never saved, so that
reading history brings back nothing the worker does not know of.

**`SSHLifecycleProofs`**, for any numbers of connections, clients, groups and
calls: `TypeOK` and `RegisteredIsOpen`, whatever overlaps, by `MapInv`, which adds
- `CallInv`: a call between making a client and inserting it works on the
  connection the client was made for; without it `Insert` could register it
  under another id;
- `OwnedInv`: a client that was used has an owner, so a fresh one is in no map.

And `InstalledIsRegistered`, `StatusFollowsClient`, `ConnectedIsGrouped`, which
hold of connections on which no calls overlapped. `RaceInv` says that this is
what `raced` records: of two calls at work, what both work on, or what one works
on in a group the other closes, is in it; a call that goes on comes to work on
no more than before (`WorkShrinks`), so only a call that begins can clash.
`FactsInv` then gives for each other connection what holds between the steps of
the one call at work on it: the installed client is the one in the map, its
status is shown or the call is about to set it (`Settling`), it is in a group or
the call is about to join one (`Joining`); and what that call has found and
relies on (`Expects`: while it dials there is no client, the group it is about
to join exists, what a `CloseGroup` has yet to close is in its list).

**`PortForwardProofs`**: `PFTypeOK`, `OpenIsOwned`, `RunningListens`,
`ClosedOnce` and `ClosedAreDropped`, for any numbers of rules, ports, runs and
calls. `RuleInv` says what the one call at a rule finds of it at each place
(`Place`), and what a rule looks like that no call is at (`Settled`): the status
alone does not say what the tables hold half way through a start. `OwnedInv` says
that what a call or a table names belongs to its rule, raced or not, so that a
step at one rule leaves the others alone (`OnlyAt`, lemma `Frame`); `ChosenInv`,
that a remote rule has its port from the beginning, so that the unlocked write of
a chosen port concerns local rules only. `ClosedAreDropped` is inductive beside
these, with overlaps and all: only `Close` closes a channel, and its call drops
the run next; a start puts new runs into the table only.

**`CloudProofs`**, for any numbers of calls, loops, sockets and stored
connections. `AnswersAreOwn` by `QuietInv`: on a socket two sends did not share,
one thread waits at most, and what is on its way in both directions together is
one message at most, asked by that thread; the property itself speaks only of an
answer that was read. `SocketsAreOwned` by `LockInv` (the lock is held exactly by
the `Connect` that registers) and `OneConnect` (unless two overlapped there is
one, and since it disconnected there is no client): without the second the socket
that a dial makes could replace an open one. `EncryptedOnce` by `EncryptedInv`:
what is stored, in memory and in the file, is encrypted once and not of the
future of the server's clock, so that no stored entry wins against a later push;
where the clock was set back the invariant claims nothing.

**`WindowsProofs`**, for any numbers of groups, windows and threads.
`ReferencesAreTrue` by `RefInv`: a reference is to a kept window of its group
that is open or closing, a window not yet kept is that of the one thread which
made it, and of a group whose opens did not overlap (`Alone`) there is one open
at work, one window and one closing handler at most. `HomeComesBack` by
`HomeInv`: while the home window is due no window is open, and it is not hidden
or a handler is still to come. `FinalIsSaved` by `FinalInv`: if no saves overlapped
there is one saver, and the place at which a window closed is still found at the
window, carried by its handler, or in the table with the file written or about to
be (`Found`, `Carried`, `Written`), and no other saver holds an older copy.

**`PanelProofs`** holds three panels. For `Batch`, `OneRun`: calls that are out
belong to the last run, as the button waits for it. For `Terminal`, `TermInv` is
`MountInv` (a record that is ready has a live run that was told so, and at most
one run is live), `BlocksInv` (ids of blocks are distinct, at most the last id
made, and the active one has not ended), `LineInv` and `FindInv` (cursors against
the lengths of their lists, which every action that changes a list restores).
For `Files`, `FilesInv` is the conjunction of `JobsOK` (what a job of each kind
and stage has: its connection, directory and what is left to do, so that its
answer can be told from others), `ListingOfCwd`, `SearchInv` (a hunt belongs to
a search id that is not new, and its place is of the panel's connection as long
as its id is the current one) and `DialogInv` (an open dialog is of this tab's
server, and each spinner has a job of the kind that ends it). `SpinnersWait`
follows from the last: the spinner alone does not say which job ends it.

**`AIPanelProofs`**: `AIPanelInv` is `Shape`, `BusyInv` (each busy flag has a wait
that answers it, and the effect's place agrees with its waits) and `ToolsInv`
(events, cards and entries carry the connection of their call, and the phase of
a call in the backend bounds the rank of its entry; without the latter a late
event could put a call that ran back to a decision).

**`DeskProofs`** holds four modules: `WindowInv` for `Workspace` (panels follow
`connID`; requests are of live panels of the tab in front), `DetailsInv` for
`Polled` (calls for details are of the selection and tab they were made in, or
will not be heard), `FlowsInv` for `Home` (a busy sign has a live flow that will
end it, and a flow that waits for a dialog is among `dialogs`), and the
refinement: `Storage` implements `Records`, as each operation, with any outcome
of its write, is a step of `RecordsNext` or a stutter. That of `SavePermanent` is
a `Save`; a deletion, which may take the key of other marked records, a `Forget`.
`SavedAreKept` is then not proved again: it is `ShownIsKept` of `Records`,
carried over by the refinement.

Assumptions: only those named in the modules. They say that bounds are natural
numbers, that `Threads` of `Windows` is finite (a process has finitely many
goroutines; its windows are counted), that calls and loops of the cloud service
are different goroutines, and that `None`, `Nil` and `Missing`, which stand for
nil or the empty string, are none of the values they stand beside. TLC evaluates
them in every run.

Only model-checked: the liveness properties (`QueueServed`, `CallsReturn`,
`ToolsAnswered`, `TabsCatchUp`, `PolledCatchesUp`, `HomeCatchesUp`,
`OnlineCatchesUp`), which are out of the reach of TLAPS, as are `ENABLED` and
induction over data. The five properties that are violated are refuted by TLC.

## 13. Not modelled

- Configuration and AI storage (`config_service.go`, `internal/ai/storage.go`):
  one value read and written whole; what depends on it (`ask` for a group,
  usable AI settings, remembered places) is a constant or a choice in the
  modules that read it.
- Logs, toasts, themes, layout of the dock and the table, menus, the generated
  bindings: nothing else reads them.
- Text: messages, prompts, command lines and the parsing of their output,
  history files' form, certificates, tokens and nonces of the cloud.
- The bytes of transfers, and tunnels of a forwarded port with their counters.
- `CloseWindow`, `CleanupWindow`, `StopAllByConnID`: nothing calls them.
  `Connect`, `AutoReconnect`, `UnsaveConnection`, `RemoveFromGroup` of the
  service: the frontend does not use them.
- A connection window that closes as a whole, with its panels: `Windows` and
  `SSHLifecycle` have what the backend does then.

# TLA+ models of Termexo

Termexo is a desktop terminal workbench for AI coding agents: a Tauri backend in
Rust (`src/src-tauri`) owns the PTYs, the database, the git and hook integrations
and an optional remote-access server; an Angular client (`src/apps/desktop-ui`)
draws it, either inside the desktop window (Tauri IPC) or in a browser (a
WebSocket bridge, on the LAN or through a relay tunnel). This directory holds
TLA+ models of the parts where several threads, tasks, connections or callbacks
meet, the TLC instances that check them, and TLAPS proofs about them.

Run a check with `tlc -config Grid.cfg MCTerminalGrid` and a proof with
`tlapm RelayLinkProofs.tla`. `PROJECT.json` lists every run, the source lines of
every definition, the mutants that show each property can fail, the hazards and
the theorems.

## Inventory

| Part | State it keeps | Operations | What is hard | What makes it correct |
|---|---|---|---|---|
| PTY manager (`pty/mod.rs`) | sessions by terminal id, each with revision, screen history and sequence, driving viewport | start, attach, write, resize, remove_viewer, close, reader and exit threads | reader thread against commands, screen lock, killed process still draining | one process per id; snapshot and sequence agree; one viewer drives the grid |
| Event hub (`remote/bridge.rs`) | broadcast ring of 2048 events, client count | publish, subscribe | a slow receiver loses the oldest events | a loss is announced |
| Remote server (`remote/server.rs`) | per connection: outbound queue, event receiver, keys, idle deadline | handshake, event forwarding, invoke tasks, close commands | select loop against writer task and spawned calls | every gap announced; a revoked token closes its connections |
| Remote auth (`remote/token.rs`, `throttle.rs`) | tokens, failure records per address | authorize, replace token | check and record are separate locks | a locked address is refused; old tokens stop working |
| Relay client (`remote/relay/*`, `crates/termexo-relay-protocol`) | supervisor task, control connection, channels | start, stop, reconnect with backoff, mux, revoke | restart against stop, a task that outlives its stop | at most one link; revoked devices stop retrying |
| Bridge client (`remote-bridge-client.ts`) | socket, keys, pending and queued calls, timers | connect, handshake, invoke, reconnect, forget | callbacks of a dropped socket, async sealing | every call settles once; one socket at a time |
| Terminal gateway (`terminal-gateway.service.ts`) | per terminal: revision, last sequence, held output, redraw in flight | connect, start, replay, redraw, replayAll | replies overtaking events, joins, timeouts | output in order, once, nothing held for ever |
| Terminal panel (`terminal-panel.ts`, coordinators) | emulator grid, runtime state, resize schedule | initialise, claim, fit, redraw | awaits during which events arrive | emulator's grid is the PTY's |
| Workspace state (`app-state.service.ts`, `workspace.repository.ts`) | workspace rows, selection, deleted ids, mutation queue, runtime revisions | create, rename, delete, merge, save, follow events, read again, restart | rows of several clients, dialogs that await their calls, failing calls | views settle on the rows, a deleted workspace stays deleted, no terminal is lost |
| To-do board (`todo.service.ts`) | snapshots, queued snapshots, pending counts, mutation queue | create, delete, merge, import, persist, follow events | saves of whole boards overtaking each other, batches that fail half-way | boards converge, none is lost |
| Task runs (`app.ts`, `todo.service.ts`, `agent-startup.service.ts`) | stage, execution, delivery and terminal of a task, armed prompts, prompts being written | execute, continue, amend, stop, reject, restart, hooks, exits | every handler awaits, hooks are late, two tasks and one terminal | the board says what happened to the prompt and to the run |
| Agent launches (`app.ts`, `app-state.service.ts`) | busy flags, detected agents, question about background sessions, commands and processes of terminals | launch, resume, switch account or models, roll back, restore | flows of several awaits side by side | switched together or not at all, no turn lost, every flow gives its flag back |
| MCP bridge (`mcp/*`, `mcp-desktop.service.ts`) | pending calls, action guard | call, respond, time out | time-out against a running call | one outcome per call |
| Hook spool (`hooks/mod.rs`, `commands/hooks.rs`) | append-only file, byte cursor, once-only compaction | append (an external hook), drain, save, compact | several clients drain, crashes between cursor and save | what is read reaches the database, and from there every client, which come to agree |
| Agents, accounts, quota, git, database, notifications, update, shell | files, SQLite rows | scan, import, prepare launches, watch | external processes and files | call by call; see *Not modelled* |

How they interact: the PTY's reader thread draws on the screen history and
publishes to the hub; each connection task of the server forwards hub events and
runs the browser's calls as tasks of their own; the bridge client hands frames to
the gateway, and the gateway to the panel. The panel's calls (`create_terminal`,
`read_terminal_scrollback`, `resize_terminal`) go back the same way and are not
ordered with the events. The remote access manager starts and stops what carries
the connections: the listener and the relay link. On top of that the window runs
flows of its own: tasks and launches prepare commands in the backend, change rows
and boards, and put prompts into terminals, while hooks of the agents' CLIs report
what became of them.

## Modules

| Module | Models | Checked by `MC...` with | Proved in |
|---|---|---|---|
| `TerminalStream` | output from reader thread to view | StreamView, StreamReconnect | `TerminalStreamProofs` |
| `StreamPosition` | abstract: what a view is promised about its position | `ImplementsPosition` of StreamView | `TerminalStreamProofs` |
| `TerminalGrid` | who drives the grid, who follows | Grid | `TerminalGridProofs` |
| `BridgeSession` | bridge client, connection task, token rotation, lockout | Bridge, BridgeRotationStays | `BridgeSessionProofs` |
| `RelayLink` | manager, supervisor, revocation | RelaySettles | `RelayLinkProofs` |
| `TaskRun` | a board task's run: terminal, prompt, hooks, exits | TaskRuns, TaskPromptStranded | `TaskRunProofs` |
| `BoardStore` | boards of several clients and the database | BoardStore | `BoardStoreProofs` |
| `WorkspaceRows` | workspace rows of several clients and the database | WorkspaceRows | - |
| `AgentLaunch` | launches, resumed sessions, switches, restored terminals | AgentLaunches | `AgentLaunchProofs` |
| `AgentEvents` | what agents' hooks report, from the spool to every client's status | AgentEvents | `AgentEventsProofs` |

The models are separate on purpose. Where one leans on another it has that one's
interface as actions: `TerminalStream`, `TerminalGrid`, `BoardStore` and
`WorkspaceRows` see of the bridge that calls are queued while it is down, rejected
when it drops and flushed when it is back (`Disconnect`/`Drop`, `Reconnect`); that
those are the only fates of a call is what `BridgeSession` checks. `TaskRun` and
`AgentLaunch` meet in `launchTodoTerminal`: `AgentLaunch` has its busy flag and the
session it continues, `TaskRun` the task, the terminal and the prompt. `AgentEvents`
is what is behind the hooks that `TaskRun` has applied late and in any order, and the
one that has statuses where `WorkspaceRows` leaves them out.

### TerminalStream

One terminal, one remote view. `launches`, `session`, `history`, `published` are
`PtyManager`'s map and each process's `OutputHistory`; `hub` and `lagged` are the
broadcast receiver of the connection; `wire` is the mpsc queue to the writer task
and the socket after it; `starts` and `reads` are the invoke tasks; `conn` is the
gateway's `TerminalConnection`; `phase` is where `initializeRuntime` is; `pass` is
`replayAllInFlight` with `replayAllPending`.

* Output text is its sequence number. A snapshot is "everything up to n", or a
  blank screen, which the client cannot tell from no snapshot (the empty string
  is falsy).
* `Push` and `Publish` are two steps because the reader publishes after it has
  released the history lock.
* JavaScript runs a callback to its end. The one callback that awaits in a loop,
  the release of held output in `replayOnce`, is split into steps
  (`ReleaseHeld`, `FinishReplay`).
* `view`, `missed`, `announced` and `ignored` are ghosts: what was drawn, lost,
  announced, and discarded as of another launch before `start()` had named this one.

| Property | Says |
|---|---|
| `ChunksInOrder` | whatever way snapshots, held chunks and events interleave, nothing is drawn twice and nothing of a replaced launch is drawn |
| `NoSilentGap` | a chunk is skipped only after a Resync or a reconnect was announced, or because it came before `start()` had named its launch |
| `HeldOutputReleased` | held output is released, and a connecting panel leaves its starting state |
| `HeldOnlyWhileAwaited` (proved, not run) | output is held only while something is awaited that releases it |
| `WholeWhenQuiescent` | with nothing in flight, a live view shows everything its launch produced |
| `ImplementsPosition` | the pipeline implements `StreamPosition`: one launch at a time, forward only |

### TerminalGrid

`pty` is the running process, its applied viewport and the viewer of
`active_viewport`; `calls` are tasks of the backend, which run in any order,
except the desktop's resizes (`turns`), which Tauri runs on its main thread;
`resized` holds the terminal-resized events, in order per view; `panel` is the
`TerminalPanel` with its `TerminalResizeCoordinator` (`pending`, `applying`,
`lastApplied`, `timer`); `guards` are the `ViewportGuard`s of connections that are
dead but whose task has not noticed. A start that a dropped link rejects leaves the
panel failed until the link is back, when it tries again by itself (`Retry`). `Lag`
is the hub's ring overwriting a resize event of a browser that is slow, which is then
told to replay (`Resync`); `GiveUp` is a redraw whose time-out has passed.

Three ghosts name known races rather than hide them: `astray` marks a view that lost
a resize event, to its link or to the ring, or which applied an older answer of
`start()` after a newer event, until the next event repairs it; `joined` marks a view
whose redraw joined a read that had already been sent; `undrawn` one whose last
redraw put nothing on screen, because it timed out or found a blank screen or another
revision. `FollowsUnlessAstray` and `RedrawnOrNamed` say that these are the only ways
in which a quiet system leaves an emulator off the PTY's grid or a screen drawn for
another grid. `Settles` is liveness through dropped links: a panel leaves its starting
state and the coordinator does not keep a size it neither sends nor drops. What the
ring loses of output, and the second pass of `replayAll`, are in `TerminalStream`.

### BridgeSession

`client` is `RemoteBridgeClient` (state, token, socket, timer, queue, pending),
`conn[c][k]` the k-th connection of a browser: the server task's stage, the frames
on their way in both directions, which token was used and read, the version of the
command channel it has seen, and the proof the browser is still computing.
`authorize` is split where it releases its locks (`CheckAuth`, `Verdict`), and
`regenerate_token` where it does (`RotateWrite`, `RotateReset`, `RotateTell`). A
close overtakes frames that are still being opened, as in the asynchronous
`handleMessage`. A page that is not served securely gives up at the challenge
(`InsecurePage`), and a session whose negotiation fails, or that cannot read a frame,
is dropped by the browser (`FailSession`).

`CallsAccounted` says that each promise is in exactly one of queue, pending and
settled, and that whatever is pending has its frame, task, answer or close in
transit; `RunsAtMostOnce` relates the promise to what the backend really ran;
`Settles` joins two: every call is answered or rejected in the end (`CallsSettle`),
and no session survives a rotation on the old token (`OldSessionsEnd`).

### RelayLink

`ops` are the manager's operations under way, each with the step it is at;
`holder` is the operation inside the manager's state lock; `link` and `status` are
`RelayLink.running` and `LinkStatus`; `credential` and `enabled` are what is
stored. The revocation callback starts an operation of its own ("forget"), as
`on_revoked` spawns it.

`StatusTrue` ties the panel's status to the link; `LinkMatchesSettings` says that
once all operations are done the link is the one the settings ask for, with the
stored credential; `Settles` that the lock and the wait for the supervisor never
block each other (`OpsFinish`) and that a revoked device stops trying
(`RevocationApplied`). The ghost
`crossed` marks histories in which `disconnect_relay`, which stops the link without
the lock, ran beside another operation of the user: there the link may stay up
with the setting off, so `LinkMatchesSettings` excludes them.

### TaskRun

`task` is what the board knows of a task, `terminal` the status `AppStateService`
keeps, `armed` the prompts of `AgentStartupService`, `launch` and `sending` the
handlers of `app.ts` that are waiting: a launch, and prompts of which the text, the
Enter or the confirmation is still to be written. A terminal's events fire
(`Fire`, `Exit`) and are applied later (`Apply`), since hooks are polled; each
remembers which comparisons of time it will lose (`old`, `early`), which is all the
code uses its clock for. Hooks carry the type of their event, since the code asks for
it and not only for the status it stands for (`EventStatus`); the `session.ready` of
a codex terminal (`Codex`) counts only while that is starting or idle. A terminal is `starting`
while its panel awaits `start()`, whose failure is announced whatever the status.
A window that is loaded adopts any of the terminals that still run, with their status
and what hooks reported within `ADOPTED_TERMINAL_EVENT_GRACE_MS`, and launches the
others anew (`Restart`). Every request of the board that starts, stops or moves a run
is one action: it runs up to its first await.

`DeliveryTrue` says that a prompt the board shows as on its way has somebody who
will send it, to the task's own terminal, and that one it shows as delivered was
submitted by an Enter; `ExclusiveTerminal` that no two tasks run in one terminal;
`GoneEndsRun` that a run whose terminal is gone reads as failed or stopped, unless
its next launch is awaited; `StopStays` that nothing undoes a stop. The ghost
`astray` names, per task, what the code accepts and the properties therefore
excuse: a prompt written over another one (`overlapped`), a rejected task that
returns to a terminal which has another (`joined`), a declined launch that leaves
the task as it is (`declined`), a delivery that comes after the terminal's end
(`late`), a completion that overtakes the prompt (`preempted`).

### BoardStore

`db` are the rows of the database, `board`, `queued`, `pending` and `queue` are
`snapshotItems`, `queuedSnapshots`, `pendingWorkspaceIds` and the `mutationQueue` of
every client, `calls` the saves in the backend, which outlive the page that made
them. A snapshot is the set of its tasks. A batch (what one change saves, targets
before deleted sources) fails at any of its operations.

`SavesAccounted` ties the two pieces of bookkeeping to what really is on its way
and what the database really has; `ChangesConverge` says that all clients show what
the database has as soon as one change went round undisturbed, also if they had
drifted apart before; `NothingLost` that no merge, import or failure loses a task.
Boards are last-writer-wins by design, so both are about changes that did not meet:
`crossed` holds the boards where two clients' changes met until one goes round
alone, `clashed` whether there ever was one.

### WorkspaceRows

`rows` is the table, `items` and `active` are what a client shows, `queue` and
`deleted` its `WorkspaceRepository`, `dialog` and `confirming` the flows that await
their calls (create, delete, merge, save a common action), `reading` the rows that
`reloadFromRepository` has read and not yet shown. A row is the set of what it
holds. `calls` are the calls of the operation a queue is at, one for each row, run by
the backend in any order. A link that drops rejects them all at once, while in the
backend each may have been carried out, be lost, or be still under way and be carried
out later; so may the calls of a page that is loaded again.

`ViewsSettle`: at rest every client shows the rows and has one of them selected;
`StaysDeleted`: no save a client had queued brings back what it deleted;
`NothingLost`: no merge and no failing call takes a terminal out of the database.
`crossed` and `clashes` are as in `BoardStore`; "own" marks what a client does to a
row that a dialog of its own is about to show as it was, "late" a row that is called
for again although a call for it, given up with its connection, was or may still be
carried out.

### AgentLaunch

`flow` holds what each flow has in its local variables and where it waits: for the
detection of an agent, a look at the sessions the CLI keeps, the stopping of one,
the user's answer, the prepared command, the closing of a process. Flows of the
user are numbered in the order in which they begin; `Restore` is `initialize`,
which prepares the terminals of the last time agent by agent. `SelectWorkspace` stands
for whatever makes another workspace the active one: selecting, creating, deleting. `launching` are the
busy flags, `asking` the one resolver of `askBackgroundResolution`, `held` what the
CLI does with its sessions meanwhile, on its own.

`SwitchTogether`: a switch moves all its terminals or none, closes nothing while a
command is missing, and, for models, leaves every process it ended running again;
`NoTurnLost`: a session is not stopped in the middle of a turn;
`ResumesOnlyFreed`: it is resumed in place only when the CLI no longer keeps it, or
the user chose otherwise; `RestoredStartsFresh`: the panels do not start a restored
terminal with its old command; `FlowsEnd`: flows end and give their flags back. The
ghosts `disturbed`, `early`, `replaced` and `turned` mark what the code does not
guard against: a switch whose targets or workspace change under it or whose flag
another flow gives back, a workspace selected before its terminals are ready, a
question that another one replaced, a turn that begins after the look.

### AgentEvents

One terminal, whose launch lasts. `spool`, `torn`, `cursor`, `cursorFile` and
`compacted` are the file of `HookEventStore`, whether its last line is still being
written, and the fields beside it; `call` are calls of `sync_agent_events` that run
side by side, split where they let go of the cursor's lock and, in the compaction,
between the look at the length and the truncation, since the hooks take no lock;
`db` is `agent_events`. `page` is what a client's window holds: how far its loading
is, the status it shows, `statusChangedAt`, the moment from which its events count,
the events it has received and applied. `wire` are announcements on their way, of
events and of the workspace's saved `row`. Events are numbered as their hooks fired,
and the clock is that number: the code only compares times.

`EventsArrive`: a line that a hook has written is still to be read, in the hands of
one call or saved, unless it was lost in one of the ways the code has (ghost `lost`:
the call that had read it failed or the application ended, or a truncation went over
it), and at rest each client has heard of everything that is saved, unless the
connection, its own page or a failing call kept it from that (`unheard`).
`StatusesAgree`: at rest, clients that have heard of the same events show the same
status, the saved one, whatever the order in which lines reached the spool and
batches the clients. `apart` names what the code does not order: `crossed`, a user's
change that meets an event or a saved row on its way; `late`, an event applied after
a later one; `adopted`, a page loaded again after a user's change, which applies
events older than that; `lagged`, a row that a slow browser was not sent;
`restarted`, a browser that applies what the desktop left out.

## Runs, bounds and what they show

| Run | Distinct states | Bounds | Shows |
|---|---|---|---|
| StreamView | 2.8 M | 2 revisions, 2 launches, 3 chunks in all, ring of 1, queue of 1, blank screens and time-outs on | overflow, relaunch, redraw, resync and time-out interleave; safety and the refinement |
| StreamReconnect | 1.1 M | controller, 2 attachments, 2 drops, 2 chunks | drops at any moment; liveness under fairness |
| Grid | 1.0 M | a desktop window and a browser, 2 grids, 2 openings, drops, lags or redraws that draw nothing in all (not counting those that wait for the link), 1 move | all interleavings of starts, claims, reports, events and drops; safety and liveness |
| Bridge | 0.6 M | 1 browser, 2 tokens, 2 calls, 3 connections, 2 adoptions, drops or failing sessions | rotation at any moment of an authentication, calls across drops; safety and liveness |
| BridgeRotationStays | violation | 1 browser, 2 connections | a connection opened after a rotation is closed at once |
| RelaySettles | 47 k | 2 operations, 1 revocation, 1 refusal, 1 break, fairness | status, link, lock and revocation |
| TaskRuns | 2.2 M | 2 recurring tasks, 3 terminals (1 open, of codex), 3 requests, 1 hook of 2 types, 2 upsets | two runs that compete for a terminal, with exits, hooks and reloads |
| TaskPromptStranded | violation | 1 task | a hook before `start()` returns leaves the prompt unsent |
| BoardStore | 1.6 M | 2 clients, 2 workspaces, 2 tasks, 3 changes, 1 upset | creations, deletions, merges and imports against a failure, drop or reload |
| WorkspaceRows | 2.5 M | 2 clients, 3 workspaces, 2 terminals, 2 changes, 1 upset | dialogs, events and calls for single rows against a failure, drop or reload; a rejected call is carried out or not |
| AgentLaunches | 0.9 M | 3 terminals, 2 workspaces, 2 flows beside the restoring, 1 thing meanwhile | flows side by side, with failing calls; safety and liveness |
| AgentEvents | 2.2 M | a desktop window and a browser, 2 calls side by side, 2 events of 2 types, 1 input or upset, a threshold of 1 line | lines in any order, two polls, a truncation; a user's change, a failure, drop, reload, lag or restart at any moment |

Why the bounds are enough to be interesting: every bound is at least the number of
times the thing has to happen for the hazard (a ring of one overflows with the
second event; two tasks compete for the one terminal that is open and both prefer
it; three connections allow two drops and a success; a merge needs one change, the
failure that interrupts it one upset). `MaxFailures` is the constant
`MAX_FAILURES_PER_WINDOW` (5 in the code); the instances use 2, so that a lockout
needs a repeated failure. Capacities (2048 events, the outbound queue) are
parameters for the same reason. Grid fixes the first grid of the desktop window,
which nothing tells from the other one; WorkspaceRows begins with the desktop in the
workspace that has the terminal and the phone in the other one, AgentLaunches with an
idle session behind the restored terminal; BoardStore and TaskRuns use symmetry of
tasks and of the terminals that are not open. Larger instances that were explored
without finding anything else: WorkspaceRows with the phone in either workspace (3.7 M);
AgentLaunches with that session idle, busy or free at first (1.3 M); AgentEvents with a third type (`agent.thinking`, 5.0 M), with 1 event and 2 inputs or
upsets (0.5 M), and with 3 events and none (0.7 M); random walks of it with 3 events of 5 types and 2 inputs or upsets.
`SPOOL_COMPACT_THRESHOLD_BYTES` (4 MiB) is one line there, so that a spool is worth
truncating as soon as it has any; `ADOPTED_TERMINAL_EVENT_GRACE_MS` (30 s)
covers all events of an instance.
`CHECK_DEADLOCK FALSE` is set throughout: every bound that is used up and every idle
system is a state in which nothing more happens, and the liveness properties check
that nothing stops half-way.

Liveness is stated as `[]<>` of the settled state where every behaviour has finitely
many steps within the bounds: it says that the system does not come to rest in
between.

Every property of a passing run has a mutant in `PROJECT.json`: a plausible bug,
kept beside the definition it replaces, under which TLC finds the property
violated. A property that joins two statements has one for each.

## Fairness

Only what the runtime promises, as weak fairness; users, the network and time-outs
are never fair.

* `TerminalStream`, `TerminalGrid`, `BridgeSession`: one condition for the backend
  (Tokio runs ready tasks) and one for the page (callbacks and timers fire;
  `scheduleReconnect` retries without end). Each side has finitely much to do
  within the bounds, so fairness of the disjunction is enough.
* `RelayLink`: each operation is a task of its own, so each has its own condition.
  Weak fairness suffices for the lock, since finitely many operations compete and
  Tokio's mutex is first come, first served.
* `AgentLaunch`: every call to the backend is answered or fails, so each flow goes
  on; and the question about background sessions is answered, since closing its
  dialog is an answer (`background-session-dialog.ts`).
* `TaskRun` (for `PromptSettles`): calls are answered, `start()` returns, timers
  fire.
* `BoardStore`, `WorkspaceRows` and `AgentEvents` state no liveness: what they promise
  is said of states at rest.
* Withheld: the replay time-out. `HeldOutputReleased` holds without it, because a
  read is answered or rejected.

## Proofs

No assumptions but the named `ASSUME`s on the constants, which TLC evaluates on
every run.

`TerminalStreamProofs` (7123 obligations). `IInv` is the type invariant plus: output
events, held chunks and snapshots describe chunks their launch produced
(`OutputReal`, `SnapshotsReal`); held chunks belong to the revision the view asked
for (`HeldMatches`); the redraw bookkeeping is consistent (`ConnectionSound`); and
for a viewer, that a snapshot taken for the redraw in flight is not behind the view
(`SnapshotCovers`), which is why a late snapshot cannot rewind it: the view stands
still while it is redrawn. The last part needs that no two launches share a
revision, which holds for a viewer, since only the desktop's `restartTerminal`
launches then; hence the theorems `ViewerNeverRewinds` and `ViewerFollowsPosition`
assume `ReadOnly`. `TypeCorrect` and `HeldIsAwaited` assume nothing.

The second half of the module is about the order of what is on its way. The
ring, the connection's queue and the held output form one path, on which the chunks
of a launch lie in the order in which they were produced; a chunk that was lost keeps
its place there as the `lagged` mark or the Resync that replaces it. `Whole` and
`Accounted`: whatever a launch produced behind what is on the path, drawable or last
shown is still to come, announced, missed or ignored; so what lies between the view
and the chunk it draws next was named (`NoGapIsSilent`). `ViewerChunksInOrder`, for a
viewer, is the safety half of that: launches have growing revisions, a view shows
nothing beyond its position, and the launch that `start()` names is no older than
anything seen or sent before.

The last part proves `ViewerWholeAtRest`: at rest a viewer's screen shows exactly what
the running launch produced. The invariant `WholeInv` says, while the view is owed the
launch's output, that every published chunk of it is on screen or coming
(`Promised`, `Coming`): on its way, held, or to be shown by the redraw that is awaited.
For that a redraw that is awaited has its one read (`Awaited`, `ReadsOnce`), waiting
while the bridge is down (`Down`); a snapshot once taken shows no less than the screen it
replaces (`ReadAhead`); and `deliver()` drops by number only what was drawn (`Behind`).
The hypotheses are the cases in which the code makes no such promise. A controller may
be given a launch under a revision it has seen before. A snapshot of a blank screen is
not drawn, and a redraw given up after its time-out draws nothing, so `PatientViewer`
excludes both. `[](lagged = {})` excludes the overflow of the ring, after which the
redraw joined by a Resync may be too old, and `ignored` the chunks that came before
`start()` named the launch; both losses are listed below. Link drops, mounts, relaunches
by the desktop, refused starts and redraws interleave without a bound.

`TerminalGridProofs` (2840 obligations). The invariant speaks of each view by itself,
since a step of one view leaves the others alone (`SameView`). `Heading`: the last
event on its way to a view names the PTY's grid; `Following`: a view without one has
that grid in its emulator, or missed something. `OneRead`: a panel that reads has one
read on its way, or one answer, in the numbering of the connection that is up or, while
none is, in the queue. `Drawn`: what a view shows, or is about to, was laid out for a
grid on its emulator's path, the one it has and those of the events to come, unless
the ghosts name the view; if they are not all the same, the next change of the
emulator reads again, and what that read fails to draw is in `undrawn`. The theorems
follow because at rest the path is one grid.

`BridgeSessionProofs` (2463 obligations). The invariant is a statement about each
browser by itself. `Placed`: a call is in the queue, on its way in one connection,
run by one task, or has run, and only once; `Promised`: an answer that resolves a
promise was put on its way by a task that ran the call; `Connected`: a closed
connection has its close frame on its way, and a client is ready only after its
handshake. `AtMostOnce` and `EveryCallAccounted` follow.

`TaskRunProofs` (2979 obligations). `Prepared`: prompts are armed only in terminals
that were launched for their task and that no other task came to. `Placed`: a
terminal that was not open at the start has at most one task. `Writing`: while a
launch is awaited, only armed prompts are being written. `Shared`: two tasks in one
terminal are named, which the end of a run needs, since only one task hears of an
exit. From these come `DeliveryIsTrue`, `TerminalsAreExclusive` and
`RunsEndWithTerminals`; `StopsStay` is a property of each step.

`AgentEventsProofs` (1480 obligations). `SpoolKept` is about positions in the file:
the lines before the cursor are in the hands of a call, saved or known to be lost,
also when the cursor belongs to a file that was truncated and lies behind the end of
this one (`Ahead`, `misplaced`); a spool about to be truncated holds nothing that is
still wanted (`Emptyable`). `AllKnown`: what is saved and a page that listens has not
received is announced to it, in a call that will announce it, in the list the page
has read, or unheard. The invariant says nothing of statuses: they are folds over
batches, and what a fold computes is out of the prover's reach.

`RelayLinkProofs` (503 obligations). `StatusTrue` is inductive with the types.
`LinkMatchesSettings` speaks of quiet states only, so it says nothing about the
steps that lead there. `Matching` is what is true in between: a link with another
credential than the stored one means an enrollment that has stored its credential
and will stop the link; a link that is up with the setting off means an operation
about to apply the setting; a missing link that nothing explains means an operation
inside the lock or a disconnect half-way; an operation about to start the link with
an outdated credential means another enrollment waiting for the lock. It needs
`LockHeld` (whoever is past saving the settings holds the lock) and `KindSteps`.

`BoardStoreProofs` (4344 obligations). `Queues`: a client's queue holds no empty batch
and no batch names a workspace twice, so that the pending count is a count of
batches. `Saved`: what is shown is what the last batch saves, or nothing counts as
saved; that is what a refused batch restores. `Shape`: a call on its way stands for
the first operation of a queue, for an import, or for a page that no longer waits for
it. These three hold for every workspace; convergence is only promised for those that
are not `crossed`, and for each of them `Uncrossed` says who can still change the
board: one call at most is on its way and what was written is in the database; only
one client has a change that the others have not heard of, and then no event is under
way to it; the last event on its way to a client is what the database has; the last
save queued is what the client shows; and what counts as saved is what the client was
last told. A workspace enters `crossed` when a second change meets the first, and
leaves it when nothing is on its way (`Telling`, `Meet`), which is where `Uncrossed`
must hold again from nothing. `BoardAccounts` and `BoardConverges` follow at once.
The proof assumes of the constants that the workspaces are finitely many, since they
are counted, and that no client is the marker `None`.

`AgentLaunchProofs` (2417 obligations). `Inv` is `TypeOK` with four parts that TLC
also checked. `FlowShapes` says which fields a flow of each kind has, which is what
lets a step be read at all. `OthersFree`: only sessions of Claude are kept, so that
the other agents may be resumed unseen. `SessionsSafe` carries what a flow saw over
its awaits: what is still to be stopped was idle when it was looked at or has begun
a turn since, and each of its sessions is free, was not seen, is to be stopped, or
stands in the way. It is kept by the CLI's own steps too, because a free session
stays free and a turn that begins is remembered. `NoTurnLost` and
`ResumesOnlyFreed` follow from it for the steps that stop and resume;
`FlagHasFlow` is inductive with the shapes.

`RestoredStartsFresh` needs `MountedEarly`: while terminals are being restored nothing
is mounted but what was selected, or a task went to, and only a panel starts a process.
`SwitchTogether` needs `SwitchesSafe`, which speaks of every switch that nothing has
come in the way of. `Alone`: it is the only switch underway under its flag, hence, since
a switch has terminals of its own agent only (`Matching`), the only one that has its
terminals. `Intact`: what it has not reached has its old command, what it has switched
the new one, what it has rolled back the old one again, and what ran when it began runs
or is about to. The other actions keep this because they leave the switch's terminals
alone (`Stays`) or disturb it. That `None` is no command, so that a panel which starts
a terminal leaves it running, is part of the assumption on the constants.

Model-checked only: all liveness (outside the prover's reach), `WholeWhenQuiescent`
for a controller (see above for a viewer),
`StatusesAgree` and the types of `AgentEvents` (folds, see above), `NothingLost` of
`BoardStore`, and the properties of `WorkspaceRows`.

## Where the code and its own words differ

Two runs end in a violation, each of one documented claim:

1. **BridgeRotationStays** - after a rotation clients "present the new one"; every
   connection's command receiver is cloned from one that has seen no command, so
   each later connection is closed again.
2. **TaskPromptStranded** - "an agent that never paints a recognisable frame still has
   to receive its prompt eventually"; a start-up hook that is applied before `start()`
   returns leaves nobody to start that clock.

Others were met in the models, which have them:

* A Resync is to make subscribers replay their state; `replay()` joins the redraw in
  flight, whose snapshot may predate the gap. With one launch of three chunks, a ring
  of one, an outbound queue of two, one redraw and no time-outs, TLC finds
  `WholeWhenQuiescent` violated for a viewer; StreamReconnect checks it on an
  instance whose ring never overflows, where drops are what loses output.
* "nothing produced in between is lost" (`terminal-gateway.service.ts:171`) does not
  hold when a Resync or a reconnect starts a redraw while `start()` is awaited: chunks
  that arrive before `start()` has named the launch are of another revision and are
  dropped by `handleOutput`; `replayInitial` then joins the redraw in flight
  (`terminal-gateway.service.ts:564`), whose snapshot may be older than they are.
  `NoSilentGap` excuses them by name (`ignored`).
* `handleAuthFailed` (`remote-bridge-client.ts:389`) forgets the token on every
  refusal, also on `AuthRejection::Locked`, which the server answers before it looks
  at the token (`token.rs:87`): a lockout caused by somebody else behind the same
  address makes a browser throw away a valid token.
* `forget_relay_device` (`remote/mod.rs:295`) deletes whatever credential is stored,
  which may be the successor that a new enrollment has stored meanwhile.
* "Truncates a spool whose every event is already in the database" (`hooks/mod.rs:568`)
  does not hold while another call's batch is read and not yet saved: if that save then
  fails, or the application ends, its events are in neither.
* The launch of an agent that is not detected yet looks at its busy flag before it
  awaits the detection (`app.ts:1309`) and not again; it then shares the flag with a
  switch that began meanwhile and gives it back in its `finally` (`app.ts:1362`), so
  that a second switch of the same terminals can begin beside the first. It takes
  three flows, and AgentLaunches has two: this came out of the proof of
  `SwitchTogether`, which did not go through as the property first stood. `disturbed`
  names these switches now; TLC checked the property and the invariants of the proof
  also with three and with four flows on a smaller instance.
* The broadcast "makes the desktop window and a remote browser agree on terminal
  state" (`agent.service.ts:847`), but for what `apart` names; in particular a browser
  that lags is sent neither the events nor the rows it missed, since a Resync replays
  screens only, and "an event that fired before them must not undo them here either"
  (`app-state.service.ts:928`) is kept for changes that alter the status shown here,
  not for one that confirms it.

Races that contradict no statement of the repository, or are excused by ghosts, and
are in the models' behaviours:

* Streams and grids: `replayInitial` may draw the history a second time; a blank
  snapshot does not clear the screen, and a redraw that times out leaves the old one,
  laid out for the old grid; a controller that remounts with an old row reuses a
  revision, and with three launches under one revision TLC finds `ChunksInOrder`
  violated; the answer of `start()` may overtake a newer grid; a resize event that a
  link or the hub's ring has lost is not asked for again; a view that takes over without a claim does not own
  the terminal; commands of one browser may be handled in another order than they
  were sent; the teardown of a dead connection releases the terminals of the client
  that is already back.
* Relay: `disconnect_relay` races a start of the link.
* Boards: after a reconnect workspaces are read again, boards are not; a deletion
  that failed is not tried again; the row of a board whose last save failed is not
  deleted with its workspace; `storageError` is cleared by a later batch, so that
  `flush()` may report success; edits during an import are overwritten; opposite
  merges by two clients lose tasks; events between `list` and `watch` are lost.
* Rows: a deletion whose `saveAll` fails after the row was deleted leaves the
  workspace shown while its saves are skipped, and a merge into it then loses the
  source's terminals; a save queued before a deletion that fails is lost; rows read
  before a save are shown after it; the desktop saves all rows when its page loads,
  over what a phone saved meanwhile; deletions and merges show rows as they were
  before their awaits; a workspace deleted here and saved by another client later is
  shown again and never saved; a merge whose deletion was rejected with its connection,
  though it was carried out, is undone by separate saves of both workspaces
  (`app-state.service.ts:422-425`), and if only that of the target arrives the merged
  terminals are in no row (`NothingLost` excuses this as "late"); a rejected save that
  is carried out late overwrites newer changes or creates a deleted row again, and the
  client that made it is not told; a created workspace is listed twice when another
  client's event of the new row comes first.
* Runs: the accepted mishaps of `astray`, above.
* Launches: a second question replaces the first, whose flow never ends and whose
  flag stays set, and if it is the restoring, the page never mounts its workspace;
  the busy flag is checked before the detection is awaited and set after it, so that
  two launches of an agent may pass; a terminal is created in the workspace that is
  active at the end; `restartTerminalWithProfile` looks only in the active workspace,
  so that selecting another one during a switch closes a process that neither the
  switch nor its rollback restarts; a switched account whose close fails leaves the
  terminal dead; a session may begin a turn between the look and the stop; one that
  cannot be inspected counts as free; restored terminals of antigravity are not
  refreshed; a switch during the restoring may be overwritten by it.
* Events: the cursor is persisted before the batch is saved, so that a failing save or
  the application's end loses it; a compaction that fails after the save leaves the
  batch unannounced; the list a page loads replaces what was announced to it meanwhile;
  rows that are read again after a reconnect stamp nothing.

## Not modelled

* Cryptography, TLS, QR codes, framing: stateless encodings; each connection has its
  own keys, which is all the models use.
* The multiplexer of the tunnel: its flow control is that of the yamux library.
* The backoff ladder: a pure function of the attempt; models only need the retry.
* Time: windows and lockouts end at any moment (`WindowPasses`), time-outs fire at
  any moment.
* In `TerminalStream`: several views at once, input, exit events, hidden views, errors
  of `read_until`; a launch between the lookup of a session and the lock of its history
  (`pty/mod.rs:634-642`), whose snapshot is of a replaced launch, which the client
  drops by its revision; a `create_terminal` that outlives its connection and launches
  a second time under a revision already used (a first launch is `OwnerLaunch`); in
  `BridgeSession`: permission scopes; in `RelayLink`: the LAN listener, failing saves;
  in `TaskRun`: how an agent's frames are recognised, images, routines' schedules; in
  `BoardStore`: output tails, the order of cards, the migration of old boards; in
  `WorkspaceRows`: statuses, names and layouts, which are saved with the row but
  decide nothing; in `AgentLaunch`: how a command line is built, the order among the
  targets of a switch (any order is allowed), what becomes of terminals a flow has
  created (that a later refresh of the restoring prepares them again included,
  `app.ts:4352-4360`), the workspace a merge selects (`app.ts:2644`), and the
  difference between forking a session and attaching to it.
* The MCP bridge: the one pending call of its guard is in `PROJECT.json` as a hazard
  that no property covers.
* In `AgentEvents`: the 250 events that lists and announcements are cut to, the rollout
  files of Codex, the order of Grok's prompts, exits and relaunches of the terminal,
  the `session.ready` of codex (`app-state.service.ts:802-804`; it is in `TaskRun`), the
  list a page asks for after a sync that its dropped connection rejected, what a user
  does while disconnected.
* Translations (`core/i18n`), dialogs, the git workbench, the inspector and the
  preview: presentation and texts, a large share of the client's lines, without state
  that several actors share.
* Agents, accounts, quota, git, database, notifications, updates: sequential I/O on
  other programs' files (`PROJECT.json` names each).

## What would come next

The one-outcome-per-call rule of the MCP bridge; proofs of `NothingLost`, and of
`StaysDeleted` and the settling of rows.

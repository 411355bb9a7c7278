# A TLA+ model of yterminal's agent and its clients

yterminal is a terminal emulator whose shells do not live in the GUI: a per-user
daemon, `yterminal-agent` (Rust), owns the PTYs, the workspace documents and the
output journal, and any number of GUIs (React/TypeScript in a Tauri shell) attach
to it, through a Unix socket on the same machine or through the standard streams
of an `ssh` process. This directory specifies the protocols between them and the
stores and timers of one GUI, checks them with TLC on small instances and proves the
central ones with TLAPS.

## 1. Inventory

| Component | State | Operations | Where |
|---|---|---|---|
| Control leases | one `ControlLease` (client, epoch, last heartbeat) per workspace; in each GUI transport a map workspace -> epoch | acquire (forced or not), validate, refresh, release, expire, release of a closed connection; announcement `ControlChanged`; heartbeat every 5 s, TTL 15 s | `agent/server.rs`, `lib/host-transport.ts` |
| Session output stream | per session: head sequence, memory journal, checkpoint, subscribers; on disk: `output_chunks`, `checkpoints`; per terminal: `nextSeq`, `parsedSeq`, `parseEnds`, xterm's buffer | output task, journal writer, attach/replay, slow-client removal, checkpoint upload, resume, fallback spawn | `agent/session_manager.rs`, `agent/repository.rs`, `lib/pty.ts`, `lib/remote-sequence.ts`, `lib/terminal-manager.ts` |
| Session lifecycle | sessions by id, state running/exited/lost, kill handles, pane binding | spawn (idempotent per pane), input, resize, kill, terminate panes/workspace, exit task, pane inheritance at restart | `agent/session_manager.rs`, `agent/repository.rs`, `agent/process_termination.rs` |
| Workspace documents | one versioned tree of tabs, panes and splits per workspace, in SQLite | create, import, 16 typed operations under a base revision, delete | `workspace.rs`, `agent/repository.rs` |
| Workspace synchronisation | optimistic local document, confirmed remote revision, a queue of operations per workspace | queue create/operation/delete, rollback, defer or apply remote documents, reconnect | `lib/workspace-sync.ts`, `stores/workspace-store.ts` |
| Daemon | client list, draining flag, shutdown notification, connection tasks | accept, hello, request dispatch, broadcast, drain, shutdown | `agent/server.rs`, `remote_protocol.rs` |
| Agent client | pending requests by id, event queue, reader and writer tasks | request, notify, disconnect on overflow | `agent_client.rs`, `host_connection.rs` |
| Remote host manager | per profile: transport, retry timer and attempt, paused flag | connect, retry with back-off, pause, remove | `lib/remote-host-manager.ts`, `stores/host-store.ts` |
| Terminal manager | one xterm, PTY and set of timers per pane | open, attach to the DOM, persist, unload, dispose, take control, resume of coding agents | `lib/terminal-manager.ts` |
| Terminal resize | the PTY's grid, the recorded grid, and each window's container, xterm grid and resize pump | fit, queued resize request, `size_changed`, takeover, refresh of the recorded size | `agent/session_manager.rs`, `lib/pty.ts`, `lib/terminal-manager.ts` |
| Resume of coding agents | per leaf the directory and agent; per shell whether a resume was injected | OSC 7, prompt, fresh spawn, fallback timer, snapshots at intervals and at closing | `lib/terminal-manager.ts`, `lib/agent.ts`, `lib/agent-detect.ts` |
| Scrollback snapshots | cache in memory, SQLite rows, entries of an older version | load, migrate, save, unload, dispose, prune, close | `lib/scrollback.ts`, `lib/terminal-manager.ts` |
| Agent status | activity timers, bells, hook states, focus | output, idle timer, bell, hook report, switch, close | `stores/activity-store.ts`, `stores/attention-store.ts`, `stores/hook-state-store.ts` |
| AI sidebar | turns, stream, agent loop, approval | send, stream, stop, clear, tool calls, approve, take control | `stores/ai-store.ts`, `lib/ai.ts`, `lib/agent-run.ts` |
| Updater | state, update handle, package path, dialog | check, download, install, automatic check | `stores/updater-store.ts`, `lib/updater-*.ts` |
| Git panel | status, open diff, request numbers | refresh, select a file, prompts, focus | `stores/git-store.ts`, `lib/git.ts`, `components/GitSidebar.tsx` |
| Settings | store, config.json, the open panel, the terminals' look | change, save, reload on focus, edit by hand, restart | `lib/config.ts`, `components/SettingsPanel.tsx` |
| File viewer | file tabs, texts by tab, reads under way | click on a path, probe, chunked read, show, close | `lib/file-link.ts`, `lib/file-reader.ts`, `stores/viewer-store.ts` |
| Terminal links | none: computed from xterm's buffer | find URLs and paths, map offsets to columns, hit-test | `lib/terminal-url-links.ts`, `lib/terminal-cell-columns.ts`, `lib/file-link-classify.ts` |
| Composition of text | the guard's flags, the hidden textarea, xterm's timers | key, composition, commit, refocus | `lib/terminal-composition-guard.ts`, `lib/terminal-macos-composition.ts` |
| Tauri commands, agent CLI, service installation | mostly none | process, file, git and system calls | `main.rs`, `bin/yterminal-agent.rs`, `agent/service.rs` |

How they interact. A GUI's `HostTransport` sends requests over one connection. The
agent serves each connection in a task that handles one request at a time, except
for a few read-only ones; replies and events leave through one bounded queue per
connection (512 messages). Three kinds of things travel outside the request order:
announcements to the *other* clients (`try_send`, lost when the queue is full), the
live output of the sessions a client is subscribed to (`try_send`, the subscription
is lost with the message), and on the GUI side every timer and user gesture. Within
the agent, handlers share the lease table, the map of sessions and each session's
data, every one behind its own lock; none of these locks is held across the check of
a lease and the operation it permits. The journal writer is a thread behind a bounded
queue (4096 entries) that drops output when it is full.

What is hard, and what each component must guarantee:

* **Leases.** Two GUIs, forced takeover, late answers, announcements that overtake
  each other. A lease epoch must name one controller for ever; a lease must not
  outlive its connection; an owner whose announcements were lost must still learn it.
* **Output.** Every byte must reach every screen once and in order while connections
  come and go, subscribers fall behind, journals are trimmed, chunks are dropped
  from the disk queue and several terminals replace the checkpoint.
* **Lifecycle.** One shell per pane although spawns race; nothing orphaned when
  a pane is closed under a spawn; no shell ended under an open pane; a pane's history
  survives a restart of the daemon.
* **Documents.** A tree stays well formed under any sequence of operations; GUIs
  converge to the agent's document although they apply their own edits at once.
* **The GUI's own stores.** Each is one thread of callbacks around awaits and timers:
  answers come late, out of order, or for a pane, host or file that is gone; a busy
  flag must fall, a handle must not be taken away, a copy on disk must become the copy
  in memory, and what a user sees under the mouse or types must be what is acted on.

The hazards, each with its source line and the properties that bear on it, are
listed in PROJECT.json.

## 2. Modules

| Module | What it is |
|---|---|
| `ControlLease`, `ControlLeaseProofs` | leases, their announcements, and the caches of the GUIs; its theorems |
| `TerminalView` | abstract: what a terminal may show of a shell's output |
| `OutputStream`, `OutputStreamProofs` | the output of one session, from the PTY to the screens; implements `TerminalView`; its theorems |
| `PaneSessions`, `PaneSessionsProofs` | the shells of one workspace, from spawn to removal, and the daemon's own life; its theorems |
| `PaneResize` | the grid of a shared session, at the PTY, in the record and in each window |
| `VersionedCopy` | abstract: what a client may know of documents that others edit |
| `WorkspaceSync`, `WorkspaceSyncProofs` | one GUI's queues of edits against the agent's versions; implements `VersionedCopy`; its theorems |
| `PaneTrees` | the operations on split trees, as the GUI and as the agent compute them |
| `WorkspaceStore` | one workspace as a GUI shows and edits it, and as the agent's document |
| `WorkspaceList` | the list of workspaces over several hosts |
| `RemoteHosts` | connecting, retrying, pausing and removing SSH hosts |
| `AgentResume` | what is remembered of a pane, and how its coding agent is resumed |
| `AgentStatus` | activity, bells and hook states of coding agents |
| `AiChat` | the AI sidebar's chat and agent loop |
| `Updater` | the self-update |
| `GitPanel` | the source control panel |
| `Settings` | the settings, their file and the look of the terminals |
| `Snapshots` | the GUI's own history of its terminals |
| `FileTabs` | files opened from terminals of two machines |
| `TerminalLinks` | links in terminal text |
| `Composition` | text typed through an input method |
| `MCControlLease`, `MCOutputStream`, `MCPaneSessions`, `MCPaneResize`, `MCWorkspaceSync`, `MCWorkspaceStore` | instances for TLC |
| `GuiParts` | seven of the parts of the GUI, for `GuiPartsProofs` and `MCGui` to share |
| `MCGui` | one instance of the thirteen parts of the GUI that share no state |
| `HostsProofs` | invariants of `RemoteHosts`, `WorkspaceList` and `FileTabs`, which span several hosts |
| `TerminalProofs` | invariants of `PaneResize`, `Composition` and `TerminalLinks`, which are about one terminal in a window |
| `GuiPartsProofs` | invariants of `AiChat`, `Updater`, `AgentStatus`, `GitPanel`, `AgentResume`, `Settings` and `Snapshots` |
| `GuiProofs` | the properties of the run `gui_parts`, from these invariants |

In each model an action is one piece of code between two `await`s (or between two
holds of a lock), so that everything the scheduler may put in between can happen.
Definitions marked *Faulty* are what a plausible mistake would make of the
definition they precede; they belong to no specification and exist so that each
property can be seen to fail when the code is wrong.

The modules meet where the code's components do. `ControlLease` says who controls
a workspace; `PaneSessions`, `PaneResize` and `WorkspaceSync` let control change
hands at any moment, which is all that they need of it. `OutputStream` carries the
output of one of the sessions that `PaneSessions` starts and ends. `WorkspaceSync`
moves versions and knows a document only as a set of tabs; `WorkspaceStore` knows the
tabs' trees and moves each operation in one step, over `PaneTrees`. `WorkspaceList`
and `RemoteHosts` share the life of a host: the first sees it reachable or not.

### ControlLease

`controls`, `clients` and `nextEpoch` are the fields of `AgentState`; `leases` is the
map of `HostTransport`, `awaiting` its `ensureControl` calls that have not timed out.
`requests`, `events` and `replies` are the two directions of a connection. A handler
takes one request (`Take`), changes the table, then owes `announcing` and an `answer`,
and handles no other request until both are out. `acquire_control` is `RenewOwn`,
`RefuseHeld` and `GrantControl`, one per way through its `match`. An operation that
`validate_control` has admitted waits in `effect` for its own lock (`Perform`).

* Replies are a set, events a sequence: the front end matches responses by request id
  and settles promises out of order with event callbacks.
* A broadcast reaches each registered client or, when its queue is full, ends its
  registration (`Broadcast`), as `broadcast` does with `try_send`.
* Time is an age per lease in ticks, `Ttl` being the fifteen seconds. Only a heartbeat
  (and an acquisition by the owner) makes it young again: `validate_control` refreshes
  for no other request, so a client that only types loses its lease. Heartbeats may
  come at any time; that they come in time is never assumed by a safety property.

### OutputStream

One session, its subscribers, the journal in memory and on disk, and for each terminal
the state of `AgentPty` and of xterm. Byte *n* occupies positions [n-1, n) of the
sequence space and a chunk is a byte; the content of a screen or a checkpoint is the
sequence of bytes it was made of, so that a lost, repeated or misplaced byte is
visible in it. `Produce` is one round of the output task, `EnqueueOutput` its hand-over
to the journal after the lock, `JournalWriter` one entry of the writer thread. `Replay`
is what `attach` sends, from `ReplayPlan` and, when memory is not enough, from the rows
on disk (`ExtendBackwards`). `Open`, `Reconnect`, `Fallback` and `GiveUp` are the ways
through `AgentPty.connect`; `ReceiveEvent` is `handleEvent`; `Parse` is xterm finishing
one write, with its callback.

* `acceptOutputSequence`'s answers *duplicate* and *gap* are not in `OnOutput`:
  `InSequence` shows that they do not come up, and a state in which they would is a
  violation, not a blocked action.
* A replay is put on the channel in one step because `attach` holds the session's lock
  until the last chunk is accepted; that it can be given up on the way is
  `AttachTooSlow`. A replay from the disk waits until the writer has written what was
  queued before it, so its fairness rests on the writer's.
* The daemon does not restart in this model: what a new daemon makes of the rows is
  the plan's `PaneHistory` (section 6).

### PaneSessions

`layout` and `bound` are the pane tree and the leaves' `session_id`, `registry` the map
of `SessionManager`, `shell` the processes, `noted` whether the wait task has recorded
the exit. A record in `handler` says which request a connection is serving, at which
`await` it stands and which sessions it has read; a spawn goes from `lookup` over
`start`, `inherit` and `bind` (or `undo`), a removal from `collect` over `terminate`
and `purge` (and `drop`). A session in `start` to `inherit` is *private*: its shell runs,
nobody else can find it.

* Who may send requests is one variable, `controller`, that may change at any time.
  It is read when a request starts, as `validate_control` is, and not again; how it
  changes is the subject of `ControlLease`.
* Termination ends a shell in one step and succeeds. The escalation from HUP over TERM
  to KILL, its failures and processes that survive it are not modelled.
* `SpawnSession` may name a pane that was closed since the client looked, never one
  that was never in the tree: a terminal waits for the queued operations of its
  workspace (`flushWorkspaceOperations`) before it asks. If adding the pane failed, its
  id, a fresh uuid, is in no tree ever and the spawn is undone without being seen.
* Tab structure, splits and all other operations of the document are left out; a
  pane is unborn, open or closed. `RemovePanes` takes any set of panes, which
  covers `ClosePane` and `RemoveTab`.

### PaneResize

`ptySize` and `recorded` are the two grids that `resize` sets under two locks; `reqs`,
`serving` and `feed` the connection of each window; `pty` holds the pump of `AgentPty`
(a pending size, whether it is sending) and `grid` what its xterm draws. `Resize`
requests are checked against the lease first and carried out later, so a takeover
can come in between; `late` remembers that, and that the announcements of two takeovers
crossed. `GridsAgree` is about behaviours without either, and about windows that did not
go astray (`astray`: the window lost control with a size it had not sent, or ignored an
announced size or an answer while control came back to it). `Fit`, the pump,
`size_changed`, `refreshCanonicalSize` and a takeover are the actions. Connections stay up.

### WorkspaceSync

`history` is the agent's sequence of versions of each document, `documents` the version
the GUI last remembered, `view` what it shows, `queue`, `step`, `base` and `answer` the
running task of each workspace at the `await` where it stands. A commit is broadcast by
its handler in a later step (`Broadcast`), so events and answers cross. `OnEvent`
projects, defers or forgets; `Connecting` is the import at the start and each
reconnection with its list. The user edits during both; a task that begins during the
import waits for its answer (`Started`). The import inserts what the agent does not have
(`INSERT OR IGNORE`): also a workspace that another client deleted, which begins again
with revision 1. Its versions go on in `history`, `past` says how many are from before,
and `Revision` is the number a version bears, which is what `remember` and the agent
compare. `Races` names the orders that the environment may choose in which the code is
known not to converge: `"listing"`, an event sent while the answer to a list is on its
way; `"crossing"`, a deletion overtaken by an earlier version; `"early"`, an edit between
a reconnection and its list; `"revival"`, the import of a deleted workspace of which the
GUI remembers a version or has still to hear. `workspace_sync` runs without them, so that
its properties say what holds otherwise (a deleted workspace is imported there too, once
the GUI has heard of the deletion); `sync_stale_list` shows the first, and the others can
be seen by naming them in that configuration. An import that fails is not modelled: the
tasks that wait for it then fail too, and the next start imports again.

*Refinement.* `CopySpec` is `INSTANCE VersionedCopy WITH committed <- the lengths of
history, copy <- documents`: every step of the protocol, including lost connections and
conflicts, leaves the remembered copy or moves it forward to a committed version.

### WorkspaceStore and PaneTrees

Every edit is there twice: `PaneTrees` has the GUI's functions on trees and those of
`WorkspaceDocument::apply`, `WorkspaceStore` the store's actions on `tabs` together with
the operation they put on `queue`, and the agent's step on `document`. `Project` is
`mergeAgentWorkspace`. Trees are nested records and the operations recursive, as in both
languages; shares of a split are "even" or "dragged".

### WorkspaceList and RemoteHosts

`WorkspaceList` keeps the entries of all hosts in one sequence, as the store does; what
is inside them is a model value. A task is a creation or deletion that the agent has not
answered; hosts become unreachable, other clients create and delete on them meanwhile,
and they return with a list that differs from what is shown. `RemoteHosts` keeps the
GUI's whole state in one record `gui` and takes it from one `await` of
`RemoteHostManager` or of `connectRemoteWorkspaceHost` to the next; two profiles may
lead to one machine. The answer to a list request (`Lists`) may come when the host was
paused, removed or reconnected since and `host_disconnect` is not done yet; `Connected` is
what becomes of it. With `Hasty` the user may act on a host while a connection of it is
still closing.

### AgentResume, AgentStatus, AiChat, Updater, GitPanel

Each has one or two records for the store of that name and a set of answers or timers
under way. `AgentResume` adds the shell at the daemon and the leaf in the document, and
goes through closing, killing and restarting the program. `AgentStatus` counts time in
ticks, `Idle` of them being `ACTIVITY_IDLE_MS`; a fired `setTimeout` is a member of
`timeouts`, so that it may belong to an entry that has been replaced. `AiChat` counts
the tool calls of a reply and the answers to them and knows three kinds of call; `stream`
is the backend's: its command registers a cancel flag, waits for the provider and reads
the answer, looking at the flag when something arrives. A stop that comes before the flag
is registered finds none and is lost. `Updater` has the native and the deb way and a release number for what
is offered, held and installed. `GitPanel` numbers requests as `refreshSeq` and `diffSeq`
do, over two panes on two hosts, and contains `parseDiff`'s numbering of rows. Where the code
loops over data without an `await`, the model says what the loop leaves: `AiChat!Loop` skips
to the first call at which the loop has to wait, `WorkspaceList` filters and joins sequences.

### Settings, Snapshots, FileTabs, TerminalLinks, Composition

`Settings` has one setting of each kind - watched by the panel's effect, typed through a
draft, written by the update tab, kept in the store only - and commands that the backend
takes in order. `crossed` marks the two orders in which the code loses a change, a setting
changed while the file is read and a hand edit read while an earlier reload is unfinished;
`DiskAgrees` is about behaviours without them. `Snapshots` counts the outputs a history holds instead of keeping text;
`calls` are the SQLite commands nobody waits for. `FileTabs` names chunks by machine,
version and place, so that a mixed text is visible. The far workspace loses its owner
when its host is removed, when this user deletes it and when another client does; a call
that was waiting then is `stray`, since its id counts as local from then on. `TerminalLinks` has xterm's buffer
with cells of width 0, 1 and 2, and characters in classes (a URL's beginning, letters,
punctuation, an accent, a wide letter, a wide delimiter): enough to tell the regular
expressions' choices apart. In `Composition` the web view's events and xterm's handlers
are external and follow the two files' description of them; the guard and the changed
send are the repository's.

### MCGui

The thirteen parts share no variable, so their product has nothing to say that they do
not say alone. `MCGui` instantiates them all and chooses one, `part`, in its initial
states; the variables of the others stay `None`. Each property of the run is that of a
part, under `part = ...`, or collects those of parts that ask the same thing. The parts
are instantiated in three groups, each from the module that holds its proofs or, for
`GuiPartsProofs`, from the `GuiParts` that it extends: so the lemmas about a part are at
hand, under its instance's name, where `GuiProofs` speaks of `MCGui`.

## 3. What the runs check

| Run | Specification and bounds | Result |
|---|---|---|
| `lease_safety` | 2 clients, 1 workspace, `Ttl` 1, queues of 1, at most 2 acquisitions, 1 operation, 1 release, 1 attach | `TypeOK`, `BeliefsDisjoint`, `NoGhostLease`, `EpochsGrow`, `LiveLeaseKept` hold |
| `lease_liveness` | 2 acquisitions, fair | `StaleLeaseDropped`, `UnawareLeaseFreed` hold |
| `stream_history` | 2 terminals, memory of 1 byte, disk of 2, queues of 1, 2 bytes, 3 connections, 2 checkpoints | `TypeOK`, `ScreenExact`, `HistoryShown`, `CheckpointWhole` hold |
| `stream_upset` | 1 terminal that spawns or restores, every upset, 3 bytes | `InSequence` holds |
| `stream_view` | 1 terminal, cut replays, 3 bytes, 3 connections, 2 checkpoints, fair | `ViewSpec` (implements `TerminalView`), `CatchesUp` hold |
| `panes_lifecycle` | 2 connections, 2 panes, 2 sessions | `TypeOK`, `NoStrayShell`, `LiveShellBound`, `SparesOpenPanes` hold |
| `workspace_sync` | 1 workspace, 2 tabs, 3 edits, 1 of others, 1 lost connection, fair | `TypeOK`, `Converged`, `EditsShown`, `OneEditPerVersion`, `CopySpec` (implements `VersionedCopy`), `Settles` hold |
| `workspace_store` | 3 edits, 1 of them by others, 1 pin | `TypeOK`, `FocusExists`, `SidesAgree`, `LocalViewKept` hold |
| `gui_parts` | the thirteen parts, bounds below, fair | `TypesOK`, `HostsAgree`, `CallsAnswered`, `ReadyIsInstallable`, `ActivityTracksOutput`, `PanelSettles`, `ResumedAsLeft`, `DiskAgrees`, `GridsAgree`, `ClicksLeadRight`, `TypedOnce`, `GuiSettles` hold |
| `panes_duplicate` | 2 connections, 1 pane, 2 sessions | `OneShellPerPane` is violated |
| `sync_stale_list` | as `workspace_sync`, with the race `"listing"` | `Converged` is violated |
| `resize_unsent` | 2 windows, 2 sizes, 2 fits, 2 takeovers | `WatchersFollow` is violated |

Why the bounds are enough for the cases that matter:

* *Leases.* Every race of the protocol is between an owner and one contender, on one
  workspace: epochs come from one counter, so a second workspace adds no new order.
  Two acquisitions give renewal, refusal, takeover, and a takeover while the first
  answer is still on its way. A queue of one message is full after one announcement,
  so broadcasts get lost; with `Ttl` 1 a lease expires at the first tick.
* *Stream.* Two bytes and a memory journal of one force the replay to come from a
  checkpoint or from disk; a queue of one message forces the subscriber out and a
  journal queue of one drops a chunk. Two terminals are needed for checkpoints that
  overtake each other, one is enough for what happens on one connection. Three
  connections allow a cut replay to be followed by another one and by a quiet end.
* *Sessions.* Two connections race for two panes with two sessions: a spawn against a
  spawn, a closing, a kill, a deletion, a crash. A third session would only repeat
  a crash and a respawn. The daemon may restart any number of times.
* *Documents.* Queues of different workspaces share nothing but the connection, so one
  workspace shows every order. Three edits put one in the answer, one in the queue and
  one after them; another client's edit makes the base stale; one lost connection
  interrupts any of it. In `workspace_store` three edits split, nest and close.
* *Parts of the GUI.* Two of each thing that a late answer can mistake for another (hosts
  with one machine, panes, directories, windows, paths) and two to five events: a request,
  the event that makes it stale and the one after it. Three connections' failures, four
  clicks in the updater and five keys let a retry, a second check and a second composition
  begin before the first has ended. `TerminalLinks` prints five outputs on rows of three
  columns, so a link crosses two row ends, of both kinds of wrapping.

The specifications with bounds stop where the bounds are used up, so their runs do not
check for deadlock; `PaneSessions` has no such end and its runs do check.

### Fairness

*ControlLease.* `FairSpec` asks that handler tasks, the sweeper, the clock, reception
and the five-second heartbeat timer go on, weakly, as runtimes and timers do. No user
action is fair and no announcement need arrive. *OutputStream.* The agent's tasks and
the GUI's event loop go on; nobody has to open a terminal, to reconnect, to write
output or to take checkpoints. `CatchesUp` speaks only of terminals that stay
connected for ever. *WorkspaceSync.* Each workspace's running task, the agent's
handlers, the event loop, and the reconnection, whose timer is set again by every
failure. *RemoteHosts.* Awaits come back and closing connections close; a retry timer
fires. Failures are bounded, which is what "once connections stop failing" means.
*AiChat.* A cancellation reaches the backend, control is granted or refused, and commands
end or meet their time limit. Nothing is asked of the user, who may leave a question open,
or of the provider: its requests have no time limit, so a silent one keeps the sidebar
busy for ever, and a stop does not help, as its flag is read with the next chunk. What
`GuiSettles` says of streams has the provider's part as its premise (`ProviderGoesOn`):
an answer or a failure comes, and of a stopped stream one more chunk or the end; then a
stop that found the flag frees the sidebar. *Updater.* Calls over the network
return or fail; the automatic check's timer fires. *AgentStatus.* Time goes on and
timers fire. The safety properties use no fairness.

### Disagreements between the code and its documentation

Three are runs that fail as expected; PROJECT.json quotes the passages.

1. Two overlapping spawns of one pane start two shells (`panes_duplicate`).
2. The answer to a list request replaces a newer document that an event brought
   (`sync_stale_list`).
3. A window that loses control with a size it has not sent goes on drawing that size
   (`resize_unsent`).

The others are stated in the modules, as formulas that the code does not satisfy; a
configuration that names one of them shows the behaviour (`WorkspaceList!PinnedFirst`
after four clicks). "The design" is docs/superpowers/specs/2026-07-15-ssh-remote-workspace-design.md.

| Formula | Claimed by | What happens |
|---|---|---|
| `ControlLease!NoLateOperation` | the design, lines 412-413 | an operation admitted before a takeover takes effect after it (server.rs:846) |
| `OutputStream!CheckpointWhole` with `"persist"` | the design, lines 391-393 | a checkpoint taken within a replay stores an empty screen under the real one's sequence (pty.ts:534) |
| `OutputStream!NothingTwice` | pty.ts:283-285 | after a cut reattach the GUI spawns, gets the running session back and shows its output twice (pty.ts:223) |
| `OutputStream!CatchesUp` with `"stall"` | the design, lines 400-401 | the warning to a dropped subscriber can itself be dropped (session_manager.rs:514) |
| `PaneSessions!ShutdownEndsNoShell` | the repository's README, lines 85-86 | a shutdown that counted no session ends a shell that was being spawned (server.rs:538) |
| `WorkspaceStore!PinnedFirst`, `WorkspaceList!PinnedFirst` | types.ts, workspace-store.ts | a tab's document that arrives, or a workspace that is unpinned where the hosts' groups are interleaved, leaves an unpinned entry before a pinned one |
| `WorkspaceList!ShortcutOrder` | App.tsx | shortcuts count the list's order, the sidebar shows it grouped by host |
| `WorkspaceSync!Converged` with `"crossing"`, `"early"` | workspace-sync.ts:472-474 | a broadcast that comes behind the deletion brings the workspace back; so does the rollback of an edit that was made before a list without it was answered |
| `WorkspaceSync!Converged` with `"revival"` | repository.rs:427-428, "an idempotent one-time migration" | every start imports: a workspace that another client deleted returns at the agent, and the late `workspace_removed` takes it off this screen, or an old revision hides the new ones |
| `RemoteHosts!WantedHasFuture` with `Hasty` | remote-host-manager.ts | a host paused while it connects and resumed while that connection closes is not tried again |
| `Settings!ChangesAreWritten` | SettingsPanel.tsx:71 | a setting changed while the file is being read is undone |
| `GitPanel!GutterCounts`, `DiffOfPlace` | git.ts, GitSidebar.tsx | a removed line that begins with `--` shifts the numbering; a diff stays when the panel shows another directory |
| `AiChat!PendingIsAwaited` | ai-store.ts | a turn of the agent loop stays pending after the loop has ended |
| `AgentStatus!LookedAtIsAcknowledged`, `OverviewAgrees` | attention-store.ts, agent-overview.ts | a bell of the focused pane, rung while the window is in the background, stays when the window comes back; the sidebar reads the status stored with the leaf and the overview does not |
| `FileTabs!ShownIsLoaded`, `ErrorsAreRetried` | viewer-store.ts | a text is dropped under a mounted viewer; a failed read is never repeated |
| `FileTabs!FarNeverOpens` | file-link.ts:89-91, "instead of opening a same-named local file by accident" | a click whose workspace is deleted, or whose host is removed, while its path is probed finds an id without an owner and opens the path on the GUI's machine |
| `TerminalLinks!FullRowsJoin` | terminal-url-links.ts:67-70 | a full row is recognised by its characters, not its columns |

`PaneSessions` also states `DeletedLeavesNoShell`: a spawn that binds while its
workspace is being deleted survives the deletion. No document says otherwise.

## 4. What is proved

The theorems hold for all constants that satisfy the named assumptions, so for any
number of clients, connections, panes, sessions, documents and any bound. None assumes
fairness. Each module of proofs begins with its inductive invariant, as a conjunction of
named parts that a comment explains; a lemma per action and part follows, and a temporal
theorem combines them.

**`ControlLeaseProofs`**, from `ConstantsAssumption` and `NoneAssumption`:

* `TypeCorrect`: `Spec => []TypeOK`.
* `GhostLeasesImpossible`: `Spec => []NoGhostLease`. Inductive with `TypeOK`; the
  argument is that only the running handler of a connection grants it a lease and
  that `release_client` is the handler's last act.
* `EpochsIdentifyController`: `Spec => []BeliefsDisjoint`, and `EpochsAlwaysGrow`:
  `Spec => EpochsGrow`. Neither is inductive, as a cached epoch comes from an answer
  that came from the table. `EpochInv` follows an epoch everywhere it can stand as
  someone's right to a workspace (`Claim`: table, answer, reply, cache): no two
  clients claim one epoch (`ClaimsDisjoint`) and none exceeds the counter
  (`EpochsBounded`), so that the next epoch granted is fresh.
* `LiveLeasesKept`: `Spec => LiveLeaseKept`. A step that ends somebody's live lease is
  the end of that connection, its own release or a forced acquisition; a lease is live
  for `Ttl` after its last acquisition or heartbeat, however much its owner types. The
  proof needs of the requests under way only that they are well formed
  (`RequestsFormed`).

**`OutputStreamProofs`**, from the assumptions of `OutputStream`:

* `TypeCorrect` includes the caps of the memory journal and the writer's queue.
* `StreamsJoin`: `Spec => []InSequence`, for every upset. `StreamInv` says of every
  channel that each event continues the position in which the event before it leaves the
  receiver (`Chained`, `After`), that the chain of a subscriber ends at the last byte
  written, and that a subscriber who is owed a warning is sent nothing else.
* `ScreensExact` and `ImplementsView` (`Spec => ViewSpec`, the refinement of
  `TerminalView`), under `Undisturbed`: no terminal spawns or restores and no read stalls.
  `NothingTwice` in section 3 shows what a spawn in place of a cut attach does to a screen. `ExactInv` relates
  what is parsed, what is buffered (`Renders`) and what is under way (`Fits`): every screen,
  snapshot and checkpoint is a contiguous piece of the output that ends where it claims to.
* `HistoryComplete` and `CheckpointsComplete`, under `Uninterrupted`, which excludes cut
  replays and checkpoints within a replay as well: `WholeInv` says that nothing the agent
  retains is missing from a screen, its buffer and the events under way together, and that
  what was trimmed from memory is in a checkpoint (`TailKept`).

**`PaneSessionsProofs`**, from `NoneAssumption`: `TypeCorrect`, `NoStrayShellHolds`
(`Spec => []NoStrayShell`), `OpenPanesSpared` (`Spec => SparesOpenPanes`) and
`LiveShellsBound` (`Spec => []LiveShellBound`). They rest on `Inv`, which says what a handler
still knows after its `await`s: the sessions it holds were started for its panes
(`HeldShape`), a pane it found closed stays closed (`PaneFacts`), a private session is in
the hands of exactly one spawn (`PrivateHeld`), and a live shell is registered or private
and its exit is not yet noted (`AliveShape`). The closing argument of `NoStrayShellHolds` is
the one the code relies on: `ApplyWorkspaceOp` removes the pane before it reads the
registry, and a spawn registers before it binds, so one of the two always sees the other.

**`WorkspaceSyncProofs`**:

* `TypeCorrect`, `NoEditLost` (`Spec => []OneEditPerVersion`) and `AdditionsStay`
  (`Spec => []EditsShown`) hold whichever of the orders in `Races` happen, and
  `RemembersForward` (`Spec => CopySpec`, the refinement of `VersionedCopy`) unless
  `"revival"` does: then `NoRelic`, no version from before an import of its workspace is
  about, is an invariant too, so that revisions order the versions. `SyncInv` says which
  versions can be about (`VersionsKnown`), where a task may stand (`TasksStand`) and that a
  commit asked for is still awaited by the task that asked (`CommitsAwaited`, `CreatedOnce`).
* `ScreenConverges`: `Races = {}` implies `Spec => []Converged`. For each way in which a
  version can reach the screen `ConvergedInv` has a conjunct that says why the newest one
  does: it is remembered, to be broadcast or in the events (`PresentShown`); if it overtook
  the answer of a running task, it is deferred (`OvertakenDeferred`); an answer to a list
  request is no older than what is remembered (`SnapshotRecent`); a removal is the last that
  is said of a workspace (`RemovalsLast`, `DeletedGone`, `NeverCommitted`). The hypothesis
  is the one under which `workspace_sync` runs; `sync_stale_list` refutes the theorem
  without it.

**`HostsProofs`**, from the assumptions of its three components:

* `TypeCorrect` and `DevicesUnique` (`OneHostPerDevice`) for every user; `StoppedHostsStop`
  (`StoppedIsStopped`) under `~Hasty`, for one who lets the connections of a host close
  before acting on it again. `Sound` relates the two tables, the calls and the connections
  that are closing; `Gone` adds what is left of a host that was paused or removed.
* Of the list, `ListInv`: every id has one home, on the screen, on the agents and in the
  tasks, and of a reachable host an id without a task is shown exactly when it is
  stored (`Homed`); a workspace that is being deleted is off the screen.
* Of the file tabs, `FilesInv`: a text is whole and a tab that loads has a read under way
  (`TextsKept`); a call that is not stray goes to its own machine or nowhere (`Routed`),
  so a text that it brings is of its own (`ReadsOwn`).

**`TerminalProofs`**:

* `TypeCorrect` and `GridsSettle` (`Spec => []GridsAgree`) of `PaneResize`. `ResizeInv`
  says of every window where its one request is (`OneTask`), that the last size announced to
  it is the recorded one (`LastSize`), and, until `late`, which sizes it may still ignore or
  lose and why each will be made good (`Warned`, `Shielded`, `AsksForWant`, `Draws`, `Fits`).
* Of `Composition`, `TypingInv`: at every place of a key's script (one disjunct each,
  `AtRest` to `Leaving`) what the user typed is what was sent, then what the timer is going
  to send (`Due`), then what the script still brings.
* Of `TerminalLinks`, `LinksInv`: the types of rows and cells.

**`GuiPartsProofs`**: the invariants of seven parts, and two theorems about the updater,
`UpdaterTyped` and `NeverOlder` (an installation never takes the program back).

| Part | Invariant | What carries it |
|---|---|---|
| `AiChat` | `ChatInv` | every call of a reply is answered or still to come (`Tallied`); a command runs only if it was agreed to (`Placed`) |
| `Updater` | `UpdaterInv` | what is awaited is what the state says (`OneTask`); the release on offer is newer and held (`Offer`), and loaded before it is ready (`LoadedOffer`) |
| `AgentStatus` | `StatusInv` | each running timer is the one entry of an active pane (`Timed`) |
| `GitPanel` | `GitInv` | no two refreshes share a number (`Numbered`); the last asks for the pane in front (`AsksForFront`), and without one the panel shows it (`ShowsFront`) |
| `AgentResume` | `ResumeInv` | a resume is armed, waits or was typed, once (`OneResume`), for this run's own shell (`ForOwnShell`); what the snapshots of a closing window hold (`ClosesWell`, `ClosedWell`) |
| `Settings` | `PrefsInv` | while reloads and writes overlap, all of them have one meaning (`OneValue`); else the last write has the store (`Settled`) |
| `Snapshots` | `SnapInv` | row, saves under way, cache and terminal hold ever more of a history (`Ascends`); no command under way takes the row of an open pane (`Spared`) |

**`GuiProofs`** carries these to `MCGui`: a step of `MCGui` is a step of the part that runs,
so an invariant of the part is one of the whole. The theorems are the invariants that
`gui_parts` checks: `WindowsAgree`, `ListsAgree` (under `~Hasty`), `ChatAnswers`,
`ReadyInstalls`, `ActivityFollows`, `PanelFollows`, `ResumesAsLeft`, `DiskFollows`,
`TypedReaches`, `TypesHold` (all thirteen parts, whatever the user does), and `FilesOwned`,
one half of `ClicksLeadRight`.

What the proofs changed in the models. An order that TLC's bounds did not reach made
`DiskAgrees` false, a hand edit of the file read while an earlier reload is unfinished;
`Settings!crossed` covers it now, and says so. Crossed announcements of two takeovers did
the same to `GridsAgree` (`PaneResize!late`). The initial states of `WorkspaceList` had given
two hosts one id, which uuids do not do. Recursive operators of `AiChat`, `WorkspaceList`
and `Composition` became closed forms, which the provers need.

## 5. What is model-checked only

* The liveness properties `StaleLeaseDropped`, `UnawareLeaseFreed`, `CatchesUp`, `Settles`
  and `GuiSettles`: the provers reach neither `ENABLED` nor, therefore, fairness.
* `LinkUnderMouse`, the other half of `ClicksLeadRight`: the text of a logical line and the
  columns of its offsets are folds over rows and cells, and what a fold computes for every
  row needs an induction that cannot be stated to the provers.
* `WorkspaceStore` (`TypeOK`, `FocusExists`, `SidesAgree`, `LocalViewKept`), because
  `PaneTrees` is recursive: its operations on nested trees follow the code, which recurses.
* `HostsAgree` with `Hasty`: without the condition the code does not keep it (section 3).
* The disagreements, which are counterexamples.

### Hazards that no property covers

* `validate_control` admits an operation and unlocks before it acts (server.rs:841);
  an expired lease that it removes is not announced (server.rs:146).
* `DeleteWorkspace` terminates the sessions first and deletes the document last
  (server.rs:671); `ShutdownAgent` counts sessions while one is spawned (server.rs:538);
  `notify_waiters` wakes nobody between two waits of the main loop (server.rs:547).
* A message that asks a client to resynchronise can be refused by the full queue that
  made it necessary (server.rs:64); the notice of a dropped subscription has a deadline
  (session_manager.rs:514).
* What a session inherits after a restart: output queued for the journal when the daemon
  died (repository.rs:214), a journal with a hole (repository.rs:731), the order in which
  checkpoints are written (session_manager.rs:1113), the predecessor chosen by time
  (repository.rs:722).
* A detach names the connection, not the subscription (session_manager.rs:1057); a request
  can be entered after the pending ones were failed (agent_client.rs:255); processes are
  listed while they fork (process_termination.rs:54).
* `reconnectLocalHost` may run twice at once (workspace-sync.ts:441); a stop that comes
  before the stream's flag is registered is lost (main.rs:2089), and one of a stream whose
  provider is silent has no effect until it speaks (main.rs:2020); a command of the AI
  sidebar goes on after its time limit (terminal-manager.ts:1747); an unread process tree
  looks like one without an agent (terminal-manager.ts:2003); snapshots that could not be
  read are overwritten (scrollback.ts:34).

## 6. Plan

The order was by what goes wrong worst: control and output first, then the shells,
then documents, then the front end's own protocols; each module first checked, then
proved. The modules of section 2 are done. What is left, in this order:

| Step | Module | What | Theorems |
|---|---|---|---|
| 1 | `PaneHistory` | rows, checkpoints and journals across a restart of the daemon; 2 sessions of a pane, 3 bytes, 1 crash | the inherited screen is a piece of the predecessor's output |
| 2 | `AgentClient` | pending map, writer and reader tasks, overflow; 2 requests, 1 failure of either task | at most one answer per request |
| 3 | `PaneTrees` over sets of paths | trees as functions from paths to nodes, shown by TLC to agree with the recursive ones | `FocusExists`, `SidesAgree` |

## 7. What is not modelled

* *Pane inheritance and session rows* and *Agent client and host connection*: see the
  plan. `PaneSessions` and `OutputStream` have the two ends of the first; every model
  uses the second as queues of requests, answers and events.
* *Process termination*: the escalation from HUP over TERM to KILL works on snapshots of
  the process table, and a model of it would be one of the kernel. It is one step here.
* *OSC parser and host services, Tauri commands, Agent CLI, Service installation,
  Logger*: byte-level parsing with unit tests, or input and output without a protocol
  of its own. The commands that have one are in `AiChat`, `Settings` and `Snapshots`.
* *Keyboard and text helpers*: local, synchronous, covered by unit tests.
* In parts only: `Settings` (one setting of each kind; themes and fonts are data), the
  terminal manager (DOM, xterm and WebGL wiring are left out) and the user interface
  (rendering, menus and dragging are left out; the effects and handlers that change state
  are actions of the stores' modules).

Within the modelled parts: the content of terminal output and ANSI state (bytes are
opaque), wire encoding and frame limits, and failures of SQLite at the agent. The process
of installing, upgrading and starting the agent appears only as `Crash` and `Restart`.

--------------------------- MODULE PaneSessions ---------------------------
(***************************************************************************)
(* The life of the shells of one workspace: the requests that start, bind, *)
(* close, kill and delete them (server.rs), the daemon's registry of       *)
(* sessions and their processes (session_manager.rs), drain mode, shutdown,*)
(* crash and restart.  What the database keeps of a session is left out.   *)
(*                                                                         *)
(* The requests of one connection are served one after the other, those of *)
(* different connections interleave wherever a handler awaits.  A handler  *)
(* goes on when its connection is gone, so a client that reconnects counts *)
(* as another connection.  Who may send a request is decided once, at its  *)
(* start, by validate_control; ControlLease models how that moves.         *)
(***************************************************************************)
EXTENDS Naturals, FiniteSets

CONSTANTS
  Connection,  \* connections whose requests the daemon serves
  Pane,        \* pane ids
  Session,     \* bound: session ids, each a fresh uuid used once
  None         \* no session bound, no controller, no pane

ASSUME NoneAssumption == None \notin Session \cup Connection \cup Pane

VARIABLES
  up,          \* the daemon runs
  draining,    \* AgentState.draining
  stopping,    \* ShutdownAgent was acknowledged, its 100 ms run
  controller,  \* the connection whose client holds the workspace's lease
  exists,      \* the row of the workspace is in workspaces
  layout,      \* layout[p]: the pane is "unborn", "open" in the tree, or "closed"
  bound,       \* bound[p]: session_id of the pane's leaf
  handler,     \* handler[h]: the request h's loop is serving
  paneOf,      \* paneOf[s]: ManagedSession.pane_id
  shell,       \* shell[s]: the session's processes
  registry,    \* registry[s]: what the daemon's memory holds of s
  noted        \* noted[s]: SessionData.state is Exited

daemon == <<up, draining, stopping>>
document == <<exists, layout, bound>>
sessions == <<paneOf, shell, registry, noted>>
vars == <<daemon, controller, document, handler, sessions>>

Idle == [op |-> "none", at |-> "idle", panes |-> {}, held |-> {}]

Handlers == [op : {"none", "spawn", "remove", "delete", "kill"},
             at : {"idle", "lookup", "start", "inherit", "bind", "undo", "kill",
                   "collect", "terminate", "purge", "drop"},
             panes : SUBSET Pane, held : SUBSET Session]

\* "gone" are the sessions of a daemon that has ended.
RegistryStates == {"none", "private", "registered", "removed", "gone"}

\* "terminated" are the shells the daemon ended without being asked to.
ShellStates == {"none", "alive", "ended", "terminated"}

TypeOK ==
  /\ up \in BOOLEAN /\ draining \in BOOLEAN /\ stopping \in BOOLEAN
  /\ controller \in Connection \cup {None}
  /\ exists \in BOOLEAN
  /\ layout \in [Pane -> {"unborn", "open", "closed"}]
  /\ bound \in [Pane -> Session \cup {None}]
  /\ handler \in [Connection -> Handlers]
  /\ paneOf \in [Session -> Pane \cup {None}]
  /\ shell \in [Session -> ShellStates]
  /\ registry \in [Session -> RegistryStates]
  /\ noted \in [Session -> BOOLEAN]

Alive(s) == shell[s] = "alive"
Registered(s) == registry[s] = "registered"

\* SessionData.state is Running, whatever became of the process meanwhile.
Running(s) == Registered(s) /\ ~noted[s]

Mounted(p) == exists /\ layout[p] = "open"

\* The one pane a spawn request is about, the one session it has by now.
PaneAt(h) == CHOOSE p \in handler[h].panes : TRUE
HeldAt(h) == CHOOSE s \in handler[h].held : TRUE

At(h, step) == up /\ handler[h].at = step
GoTo(h, step) == handler' = [handler EXCEPT ![h].at = step]
GoWith(h, step, held) ==
  handler' = [handler EXCEPT ![h].at = step, ![h].held = held]
Answer(h) == handler' = [handler EXCEPT ![h] = Idle]

Init ==
  /\ up = TRUE /\ draining = FALSE /\ stopping = FALSE
  /\ controller = None
  /\ exists = TRUE
  /\ layout \in [Pane -> {"unborn", "open"}]
  /\ bound = [p \in Pane |-> None]
  /\ handler = [h \in Connection |-> Idle]
  /\ paneOf = [s \in Session |-> None]
  /\ shell = [s \in Session |-> "none"]
  /\ registry = [s \in Session |-> "none"]
  /\ noted = [s \in Session |-> FALSE]

-----------------------------------------------------------------------------
(* Requests arrive.                                                        *)

\* handle_client reads the next request only when the last one is answered.
Accept(h, op, step, panes, held) ==
  /\ At(h, "idle")
  /\ handler' = [handler EXCEPT ![h] = [op |-> op, at |-> step, panes |-> panes, held |-> held]]

\* validate_control for a request on the workspace.
Controls(h) == controller = h

TakeControl(h) ==
  /\ up /\ controller # h
  /\ controller' = h
  /\ UNCHANGED <<daemon, document, handler, sessions>>

\* For a pane the tree has, or had when the client looked.
SpawnSession(h, p) ==
  /\ ~draining /\ Controls(h) /\ layout[p] # "unborn"
  /\ Accept(h, "spawn", "lookup", {p}, {})
  /\ UNCHANGED <<daemon, controller, document, sessions>>

SplitPane(h, p) ==
  /\ At(h, "idle") /\ Controls(h) /\ exists /\ layout[p] = "unborn"
  /\ layout' = [layout EXCEPT ![p] = "open"]
  /\ UNCHANGED <<daemon, controller, exists, bound, handler, sessions>>

\* ClosePane, or RemoveTab for the panes of a tab.  The document changes before
\* the registry is read.
RemovePanes(h, panes) ==
  /\ Controls(h) /\ exists
  /\ panes # {} /\ \A p \in panes : layout[p] = "open"
  /\ Accept(h, "remove", "collect", panes, {})
  /\ layout' = [p \in Pane |-> IF p \in panes THEN "closed" ELSE layout[p]]
  /\ bound' = [p \in Pane |-> IF p \in panes THEN None ELSE bound[p]]
  /\ UNCHANGED <<daemon, controller, exists, sessions>>

\* DeleteWorkspace looks at the document last: it may name a workspace that is gone.
DeleteWorkspace(h) ==
  /\ Controls(h)
  /\ Accept(h, "delete", "collect", Pane, {})
  /\ UNCHANGED <<daemon, controller, document, sessions>>

KillSession(h, s) ==
  /\ Controls(h) /\ Registered(s)
  /\ Accept(h, "kill", "kill", {}, {s})
  /\ UNCHANGED <<daemon, controller, document, sessions>>

SetDraining(h, value) ==
  /\ At(h, "idle") /\ draining # value
  /\ draining' = value
  /\ UNCHANGED <<up, stopping, controller, document, handler, sessions>>

NoneRunning == \A s \in Session : ~Running(s)

ShutdownAgent(h) ==
  /\ At(h, "idle") /\ draining /\ NoneRunning
  /\ stopping' = TRUE
  /\ UNCHANGED <<up, draining, controller, document, handler, sessions>>

-----------------------------------------------------------------------------
(* SpawnSession, from one await to the next.                               *)

\* (workspace, pane) is the idempotency key while a session of it is Running.
Live(p) == {s \in Session : Running(s) /\ paneOf[s] = p}

Lookup(h) ==
  /\ At(h, "lookup")
  /\ IF Live(PaneAt(h)) = {}
     THEN GoTo(h, "start")
     ELSE \E s \in Live(PaneAt(h)) : GoWith(h, "bind", {s})
  /\ UNCHANGED <<daemon, controller, document, sessions>>

\* The PTY is opened, the command runs in it and its row is written.
StartShell(h, s) ==
  /\ At(h, "start") /\ registry[s] = "none"
  /\ paneOf' = [paneOf EXCEPT ![s] = PaneAt(h)]
  /\ shell' = [shell EXCEPT ![s] = "alive"]
  /\ registry' = [registry EXCEPT ![s] = "private"]
  /\ GoWith(h, "inherit", {s})
  /\ UNCHANGED <<daemon, controller, document, noted>>

StartFails(h) ==
  /\ At(h, "start")
  /\ Answer(h)
  /\ UNCHANGED <<daemon, controller, document, sessions>>

\* The predecessor's screen has been read, or not; the session becomes known.
Register(h) ==
  /\ At(h, "inherit")
  /\ registry' = [registry EXCEPT ![HeldAt(h)] = "registered"]
  /\ GoTo(h, "bind")
  /\ UNCHANGED <<daemon, controller, document, paneOf, shell, noted>>

\* Faulty: BindSession gets its arguments the wrong way round.
BindSwapped(h) ==
  /\ At(h, "bind")
  /\ IF Mounted(PaneAt(h))
     THEN bound' = [bound EXCEPT ![PaneAt(h)] = PaneAt(h)] /\ Answer(h)
     ELSE GoTo(h, "undo") /\ UNCHANGED bound
  /\ UNCHANGED <<daemon, controller, exists, layout, sessions>>

\* Faulty: a pane that is gone is no error, the shell is kept.
BindUnchecked(h) ==
  /\ At(h, "bind")
  /\ bound' = [bound EXCEPT ![PaneAt(h)] = IF Mounted(PaneAt(h)) THEN HeldAt(h) ELSE @]
  /\ Answer(h)
  /\ UNCHANGED <<daemon, controller, exists, layout, sessions>>

\* Faulty: an operation that meets a busy database is dropped in silence.
BindDropped(h) ==
  /\ At(h, "bind")
  /\ \/ bound' = [bound EXCEPT ![PaneAt(h)] = HeldAt(h)] /\ Mounted(PaneAt(h))
     \/ UNCHANGED bound
  /\ Answer(h)
  /\ UNCHANGED <<daemon, controller, exists, layout, sessions>>

Bind(h) ==
  /\ At(h, "bind")
  /\ IF Mounted(PaneAt(h))
     THEN bound' = [bound EXCEPT ![PaneAt(h)] = HeldAt(h)] /\ Answer(h)
     ELSE GoTo(h, "undo") /\ UNCHANGED bound
  /\ UNCHANGED <<daemon, controller, exists, layout, sessions>>

\* terminate_session_processes: a session known to have exited is left alone.
End(s, how) == [shell EXCEPT ![s] = IF Running(s) /\ Alive(s) THEN how ELSE @]

\* The pane or the workspace went away under the spawn.
Undo(h) ==
  /\ At(h, "undo")
  /\ shell' = End(HeldAt(h), "terminated")
  /\ Answer(h)
  /\ UNCHANGED <<daemon, controller, document, paneOf, registry, noted>>

Kill(h) ==
  /\ At(h, "kill")
  /\ shell' = End(HeldAt(h), "ended")
  /\ Answer(h)
  /\ UNCHANGED <<daemon, controller, document, paneOf, registry, noted>>

-----------------------------------------------------------------------------
(* ClosePane, RemoveTab and DeleteWorkspace after their first step.        *)

\* Faulty: closing a pane ends every session of the workspace.
CollectAll(h) ==
  /\ At(h, "collect")
  /\ GoWith(h, "terminate", {s \in Session : Registered(s)})
  /\ UNCHANGED <<daemon, controller, document, sessions>>

\* terminate_panes and terminate_workspace read the registry once.
Collect(h) ==
  /\ At(h, "collect")
  /\ GoWith(h, "terminate", {s \in Session : Registered(s) /\ paneOf[s] \in handler[h].panes})
  /\ UNCHANGED <<daemon, controller, document, sessions>>

\* The sessions are terminated side by side.
Terminate(h, s) ==
  /\ At(h, "terminate") /\ s \in handler[h].held /\ Running(s) /\ Alive(s)
  /\ shell' = End(s, "terminated")
  /\ UNCHANGED <<daemon, controller, document, handler, paneOf, registry, noted>>

\* All have ended, and were noted as exited or the five seconds are over.
Unregister(h) ==
  /\ At(h, "terminate")
  /\ \A s \in handler[h].held : ~Alive(s)
  /\ registry' = [s \in Session |-> IF s \in handler[h].held THEN "removed" ELSE registry[s]]
  /\ GoWith(h, "purge", {})
  /\ UNCHANGED <<daemon, controller, document, paneOf, shell, noted>>

\* purge_panes or purge_workspace, the rows and journals of the sessions.
Purge(h) ==
  /\ At(h, "purge")
  /\ IF handler[h].op = "delete" THEN GoTo(h, "drop") ELSE Answer(h)
  /\ UNCHANGED <<daemon, controller, document, sessions>>

\* Repository::delete_workspace.
Drop(h) ==
  /\ At(h, "drop")
  /\ exists' = FALSE
  /\ Answer(h)
  /\ UNCHANGED <<daemon, controller, layout, bound, sessions>>

-----------------------------------------------------------------------------
(* Shells and the daemon itself.                                           *)

ShellExits(s) ==
  /\ Alive(s)
  /\ shell' = [shell EXCEPT ![s] = "ended"]
  /\ UNCHANGED <<daemon, controller, document, handler, paneOf, registry, noted>>

\* The wait task, started once the session is registered.
NoticeExit(s) ==
  /\ registry[s] \in {"registered", "removed"} /\ ~Alive(s) /\ ~noted[s]
  /\ noted' = [noted EXCEPT ![s] = TRUE]
  /\ UNCHANGED <<daemon, controller, document, handler, paneOf, shell, registry>>

\* Every PTY master closes with the daemon; its memory is lost, the document stays.
DaemonEnds ==
  /\ up' = FALSE /\ draining' = FALSE /\ stopping' = FALSE
  /\ controller' = None
  /\ handler' = [h \in Connection |-> Idle]
  /\ paneOf' = [s \in Session |-> None]
  /\ shell' = [s \in Session |-> IF shell[s] = "none" THEN "none" ELSE "ended"]
  /\ registry' = [s \in Session |-> IF registry[s] = "none" THEN "none" ELSE "gone"]
  /\ noted' = [s \in Session |-> FALSE]
  /\ UNCHANGED document

\* The 100 ms after an acknowledged ShutdownAgent are over.
Shutdown == stopping /\ DaemonEnds

\* notify_waiters wakes nobody while run_daemon is between two waits.
ShutdownMissed ==
  /\ stopping /\ stopping' = FALSE
  /\ UNCHANGED <<up, draining, controller, document, handler, sessions>>

\* A crash, or the service manager's SIGTERM of a hot restart.
Crash == up /\ DaemonEnds

Restart ==
  /\ ~up /\ up' = TRUE
  /\ UNCHANGED <<draining, stopping, controller, document, handler, sessions>>

-----------------------------------------------------------------------------
Request(h) ==
  \/ TakeControl(h)
  \/ \E p \in Pane : SpawnSession(h, p) \/ SplitPane(h, p)
  \/ \E panes \in SUBSET Pane : RemovePanes(h, panes)
  \/ DeleteWorkspace(h)
  \/ \E s \in Session : KillSession(h, s)
  \/ \E value \in BOOLEAN : SetDraining(h, value)
  \/ ShutdownAgent(h)

Serve(h) ==
  \/ Lookup(h)
  \/ \E s \in Session : StartShell(h, s)
  \/ StartFails(h) \/ Register(h) \/ Bind(h) \/ Undo(h) \/ Kill(h)
  \/ Collect(h)
  \/ \E s \in Session : Terminate(h, s)
  \/ Unregister(h) \/ Purge(h) \/ Drop(h)

Next ==
  \/ \E h \in Connection : Request(h) \/ Serve(h)
  \/ \E s \in Session : ShellExits(s) \/ NoticeExit(s)
  \/ Shutdown \/ ShutdownMissed \/ Crash \/ Restart

Spec == Init /\ [][Next]_vars

-----------------------------------------------------------------------------
(* Properties.                                                             *)

\* A spawn has s and will bind it or undo it.
Spawning(h, s) == handler[h].op = "spawn" /\ s \in handler[h].held

\* A removal of s's pane has not read the registry yet, or is ending s.
Ending(h, s) ==
  /\ handler[h].op \in {"remove", "delete"} /\ paneOf[s] \in handler[h].panes
  /\ handler[h].at = "collect" \/ (handler[h].at = "terminate" /\ s \in handler[h].held)

\* No shell outlives its pane: while one does, some request has still to end it.
\* (ApplyWorkspaceOp removes the pane before terminate_panes reads the registry;
\* a spawn that registers later finds the pane gone when it binds.)
NoStrayShell ==
  \A s \in Session :
    exists /\ Alive(s) /\ layout[paneOf[s]] = "closed" =>
      \E h \in Connection : Spawning(h, s) \/ Ending(h, s)

\* The daemon ends no shell on its own account unless its pane was closed or its
\* workspace is being deleted.  (Terminations act on sessions read earlier.)
Deleting == ~exists \/ \E h \in Connection : handler[h].op = "delete"
SparesOpenPanes ==
  [][\A s \in Session : Alive(s) /\ shell'[s] = "terminated" =>
        layout[paneOf[s]] = "closed" \/ Deleting]_vars

\* An open pane with a live shell that no request still holds is bound to a
\* session of this daemon, never to one lost with an earlier daemon: a client
\* that follows the document reaches a shell.
LiveShellBound ==
  \A s \in Session :
    Alive(s) /\ Registered(s) /\ Mounted(paneOf[s]) /\ (\A h \in Connection : ~Spawning(h, s)) =>
      /\ bound[paneOf[s]] # None
      /\ registry[bound[paneOf[s]]] # "gone"

\* spawn's comment: a spawn for a pane with a live session attaches to it
\* "instead of creating a duplicate shell".
OneShellPerPane ==
  \A s, t \in Session :
    Alive(s) /\ Alive(t) /\ Registered(s) /\ Registered(t) /\ paneOf[s] = paneOf[t] => s = t

\* README: shutdown is "gated on zero sessions".
ShutdownEndsNoShell == [][Shutdown => \A s \in Session : ~Alive(s)]_vars

\* Nothing of a deleted workspace runs on once its deletion has been answered.
DeletedLeavesNoShell ==
  ~exists /\ (\A h \in Connection : handler[h] = Idle) => \A s \in Session : ~Alive(s)
=============================================================================

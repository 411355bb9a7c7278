----------------------------- MODULE PaneResize -----------------------------
(***************************************************************************)
(* The character grid of one shared session: the PTY's, the one the agent  *)
(* records and announces, and the one each attached window draws.  The     *)
(* controller's window fits its container and asks for that size, one      *)
(* request at a time; the other windows follow the announced size; a       *)
(* takeover makes a watcher the controller                                 *)
(* (src/src/lib/pty.ts, src/src/lib/terminal-manager.ts,                   *)
(* src/src/lib/host-transport.ts, src/src-tauri/src/agent/server.rs,       *)
(* src/src-tauri/src/agent/session_manager.rs).                            *)
(*                                                                         *)
(* Every client stays connected and no lease expires: ControlLease and     *)
(* OutputStream model those.                                               *)
(***************************************************************************)
EXTENDS Integers, Sequences

CONSTANTS Client, Size, FirstClient, FirstSize, MaxFits, MaxTakes, None

\* Lease epochs are counted from 1; an AgentPty without a lease has epoch 0.
Epoch == Nat \ {0}

\* The size of a request that waits for no size is None.
Serving ==
  [at : {"acquire", "list"}, size : {None}]
    \cup [at : {"announce", "granted"}, size : Epoch]
    \cup [at : {"compare", "set", "record", "recorded", "listed"}, size : Size]

Request ==
  [req : {"resize"}, size : Size, epoch : Nat] \cup [req : {"acquire", "list"}]

Event ==
  [ev : {"control", "granted"}, epoch : Epoch]
    \cup [ev : {"size", "sessions"}, size : Size] \cup [ev : {"ack", "refused"}]

\* The resize under way, or with a `refresh` the request for the recorded size.
Pump == [size : Size, epoch : Nat, refresh : Int]

AgentPty ==
  [want : Size, readOnly : BOOLEAN, epoch : Nat, lease : Nat,
   pending : Size \cup {None}, pump : Pump \cup {None}, generation : Nat,
   astray : BOOLEAN, missed : BOOLEAN]

ResizeAssumption ==
  /\ FirstClient \in Client /\ FirstSize \in Size
  /\ MaxFits \in Nat /\ MaxTakes \in Nat
  /\ None \notin Size \cup Client
  /\ None \notin Serving \cup Pump

VARIABLES
  ptySize,    \* the grid of the PTY itself
  recorded,   \* the grid in the session's data
  owner,      \* the holder and the epoch of the workspace's lease
  reqs,       \* each client's requests on their way, which the agent takes in turn
  serving,    \* the request of each client that is being handled
  feed,       \* what the agent sent to each client: events and answers, in order
  fit,        \* the grid each window's container has room for
  grid,       \* the grid of the window's xterm
  pty,        \* the window's AgentPty
  frames,     \* the windows with a fit scheduled for the next frame
  fits, takes, \* container changes and takeovers, bounded
  late        \* under a newer lease, a resize checked under an older one was
              \* carried out, or the older one announced last

vars == <<ptySize, recorded, owner, reqs, serving, feed, fit, grid, pty, frames,
          fits, takes, late>>

clientVars == <<fit, grid, pty, frames, fits, takes>>
agentVars == <<ptySize, recorded, owner, serving, late>>

NewPty(c) ==
  [want |-> FirstSize, readOnly |-> c # FirstClient,
   epoch |-> IF c = FirstClient THEN 1 ELSE 0, lease |-> IF c = FirstClient THEN 1 ELSE 0,
   pending |-> None, pump |-> None, generation |-> 0, astray |-> FALSE,
   missed |-> FALSE]

Init ==
  /\ ptySize = FirstSize /\ recorded = FirstSize
  /\ owner = [client |-> FirstClient, epoch |-> 1]
  /\ reqs = [c \in Client |-> <<>>]
  /\ serving = [c \in Client |-> None]
  /\ feed = [c \in Client |-> <<>>]
  /\ fit = [c \in Client |-> FirstSize]
  /\ grid = [c \in Client |-> FirstSize]
  /\ pty = [c \in Client |-> NewPty(c)]
  /\ frames = {}
  /\ fits = 0 /\ takes = 0 /\ late = FALSE

-----------------------------------------------------------------------------
(***************************************************************************)
(* The agent.                                                              *)
(***************************************************************************)
Announce(event) == [c \in Client |-> Append(feed[c], event)]

Answer(c, event) ==
  /\ feed' = [feed EXCEPT ![c] = Append(@, event)]
  /\ serving' = [serving EXCEPT ![c] = None]

\* The next request of a connection; a resize must come with the live lease.
Take(c) ==
  /\ serving[c] = None /\ reqs[c] # <<>>
  /\ reqs' = [reqs EXCEPT ![c] = Tail(@)]
  /\ LET r == Head(reqs[c])
     IN  IF r.req = "resize" /\ owner # [client |-> c, epoch |-> r.epoch]
         THEN Answer(c, [ev |-> "refused"])
         ELSE /\ serving' = [serving EXCEPT ![c] =
                    IF r.req = "resize" THEN [at |-> "compare", size |-> r.size]
                    ELSE [at |-> r.req, size |-> None]]
              /\ UNCHANGED feed
  /\ UNCHANGED <<ptySize, recorded, owner, late>>
  /\ UNCHANGED clientVars

Compare(c) ==
  /\ serving[c] # None /\ serving[c].at = "compare"
  /\ IF serving[c].size = recorded
     THEN Answer(c, [ev |-> "ack"])
     ELSE serving' = [serving EXCEPT ![c].at = "set"] /\ UNCHANGED feed
  /\ UNCHANGED <<ptySize, recorded, owner, late, reqs>>
  /\ UNCHANGED clientVars

SetGrid(c) ==
  /\ serving[c] # None /\ serving[c].at = "set"
  /\ ptySize' = serving[c].size
  /\ serving' = [serving EXCEPT ![c].at = "record"]
  /\ late' = (late \/ owner.client # c)
  /\ UNCHANGED <<recorded, owner, reqs, feed>>
  /\ UNCHANGED clientVars

Record(c) ==
  /\ serving[c] # None /\ serving[c].at = "record"
  /\ recorded' = serving[c].size
  /\ feed' = Announce([ev |-> "size", size |-> serving[c].size])
  /\ serving' = [serving EXCEPT ![c].at = "recorded"]
  /\ late' = (late \/ owner.client # c)
  /\ UNCHANGED <<ptySize, owner, reqs>>
  /\ UNCHANGED clientVars

Acknowledge(c) ==
  /\ serving[c] # None /\ serving[c].at = "recorded"
  /\ Answer(c, [ev |-> "ack"])
  /\ UNCHANGED <<ptySize, recorded, owner, late, reqs>>
  /\ UNCHANGED clientVars

\* acquire_control by force: a live lease of the same client is handed out again,
\* otherwise the lease changes hands and that is announced to everybody.
Acquire(c) ==
  /\ serving[c] # None /\ serving[c].at = "acquire"
  /\ IF owner.client = c
     THEN Answer(c, [ev |-> "granted", epoch |-> owner.epoch]) /\ UNCHANGED owner
     ELSE /\ owner' = [client |-> c, epoch |-> owner.epoch + 1]
          /\ serving' = [serving EXCEPT ![c] = [at |-> "announce", size |-> owner.epoch + 1]]
          /\ UNCHANGED feed
  /\ UNCHANGED <<ptySize, recorded, late, reqs>>
  /\ UNCHANGED clientVars

\* The announcement of the lease in force is still to come.
Unannounced == serving[owner.client] # None /\ serving[owner.client].at = "announce"

AnnounceControl(c) ==
  /\ serving[c] # None /\ serving[c].at = "announce"
  /\ serving' = [serving EXCEPT ![c].at = "granted"]
  /\ feed' = Announce([ev |-> "control", epoch |-> serving[c].size])
  /\ late' = (late \/ ~Unannounced)
  /\ UNCHANGED <<ptySize, recorded, owner, reqs>>
  /\ UNCHANGED clientVars

Grant(c) ==
  /\ serving[c] # None /\ serving[c].at = "granted"
  /\ Answer(c, [ev |-> "granted", epoch |-> serving[c].size])
  /\ UNCHANGED <<ptySize, recorded, owner, late, reqs>>
  /\ UNCHANGED clientVars

\* list_sessions reads the recorded grid; its answer may leave after later events.
List(c) ==
  /\ serving[c] # None /\ serving[c].at = "list"
  /\ serving' = [serving EXCEPT ![c] = [at |-> "listed", size |-> recorded]]
  /\ UNCHANGED <<ptySize, recorded, owner, late, reqs, feed>>
  /\ UNCHANGED clientVars

Listed(c) ==
  /\ serving[c] # None /\ serving[c].at = "listed"
  /\ Answer(c, [ev |-> "sessions", size |-> serving[c].size])
  /\ UNCHANGED <<ptySize, recorded, owner, late, reqs>>
  /\ UNCHANGED clientVars

-----------------------------------------------------------------------------
(***************************************************************************)
(* AgentPty: one resize request under way, the newest size waiting.        *)
(***************************************************************************)
ResizeRequest(p) == [req |-> "resize", size |-> p.pending, epoch |-> p.epoch]

\* The pump takes the waiting size when it may; otherwise it ends.
PumpOn(p) ==
  IF p.pending # None /\ ~p.readOnly
  THEN [p EXCEPT !.pump = [size |-> p.pending, epoch |-> p.epoch, refresh |-> -1],
                 !.pending = None]
  ELSE [p EXCEPT !.pump = None, !.pending = None]

\* The client's pty becomes p, whose pump goes on.
Pumps(c, p) ==
  /\ pty' = [pty EXCEPT ![c] = PumpOn(p)]
  /\ reqs' = IF PumpOn(p).pump # None
             THEN [reqs EXCEPT ![c] = Append(@, ResizeRequest(p))] ELSE reqs

enqueueResize(c, p, size) ==
  IF p.pump = None THEN Pumps(c, [p EXCEPT !.pending = size])
  ELSE pty' = [pty EXCEPT ![c] = [p EXCEPT !.pending = size]] /\ UNCHANGED reqs

\* The control listener with no epoch: a size that was not sent yet is dropped.
LoseControl(p) ==
  [p EXCEPT !.lease = 0, !.pending = None, !.readOnly = TRUE,
            !.astray = @ \/ p.pending # None]

\* fitSession: a controller's xterm takes the size of its container, and its
\* onResize asks the agent for it.
fitSession(c) ==
  IF ~pty[c].readOnly /\ fit[c] # grid[c]
  THEN /\ grid' = [grid EXCEPT ![c] = fit[c]]
       /\ enqueueResize(c, [pty[c] EXCEPT !.want = fit[c]], fit[c])
  ELSE UNCHANGED <<grid, pty, reqs>>

\* A window or divider is dragged: the new container size is fitted in a frame.
ResizeContainer(c, size) ==
  /\ fits < MaxFits
  /\ size # fit[c]
  /\ fits' = fits + 1
  /\ fit' = [fit EXCEPT ![c] = size]
  /\ frames' = frames \cup {c}
  /\ UNCHANGED <<grid, pty, takes, reqs, feed>>
  /\ UNCHANGED agentVars

Frame(c) ==
  /\ c \in frames
  /\ frames' = frames \ {c}
  /\ fitSession(c)
  /\ UNCHANGED <<fit, fits, takes, feed>>
  /\ UNCHANGED agentVars

takeControl(c) ==
  /\ takes < MaxTakes
  /\ takes' = takes + 1
  /\ reqs' = [reqs EXCEPT ![c] = Append(@, [req |-> "acquire"])]
  /\ UNCHANGED <<fit, grid, pty, frames, fits, feed>>
  /\ UNCHANGED agentVars

Receives(c, kind) ==
  /\ feed[c] # <<>> /\ Head(feed[c]).ev = kind
  /\ feed' = [feed EXCEPT ![c] = Tail(@)]
  /\ UNCHANGED agentVars

\* The lease is granted: writable, a fit is scheduled, and the size the window
\* wants is asserted again (a request refused before may have been lost).
Granted(c) ==
  /\ Receives(c, "granted")
  /\ LET epoch == Head(feed[c]).epoch
         p == [pty[c] EXCEPT !.epoch = epoch, !.lease = epoch, !.readOnly = FALSE,
                           !.astray = FALSE]
     IN  enqueueResize(c, p, p.want)
  /\ frames' = frames \cup {c}
  /\ UNCHANGED <<fit, grid, fits, takes>>

ControlChanged(c) ==
  /\ Receives(c, "control")
  /\ pty' = [pty EXCEPT ![c] =
               IF @.lease = Head(feed[c]).epoch THEN @ ELSE LoseControl(@)]
  /\ UNCHANGED <<fit, grid, frames, fits, takes, reqs>>

\* applyCanonicalSize: xterm follows without asking the agent again.
Applies(c, size) ==
  /\ grid' = [grid EXCEPT ![c] = size]
  /\ pty' = [pty EXCEPT ![c].want = size, ![c].generation = @ + 1, ![c].astray = FALSE]

\* size_changed: while its own resize is under way, or its question for the recorded
\* size, a controller ignores a size that is not the one it wants (`missed`).
SizeChanged(c) ==
  /\ Receives(c, "size")
  /\ LET p == pty[c]
         size == Head(feed[c]).size
         busy == ~p.readOnly /\ (p.pump # None \/ p.pending # None)
     IN  IF busy /\ size # p.want
         THEN pty' = [pty EXCEPT ![c].missed = TRUE] /\ UNCHANGED grid
         ELSE Applies(c, size)
  /\ UNCHANGED <<fit, frames, fits, takes, reqs>>

Acknowledged(c) ==
  /\ Receives(c, "ack")
  /\ Pumps(c, pty[c])
  /\ UNCHANGED <<fit, grid, frames, fits, takes>>

\* The lease was not live.  The cached lease goes with it unless a newer one came
\* meanwhile; then the pump goes on with the waiting size, else the recorded size
\* is asked for before the pump ends.
Refused(c) ==
  /\ Receives(c, "refused")
  /\ LET p == pty[c]
         q == IF p.lease \in {0, p.pump.epoch} THEN LoseControl(p) ELSE p
         fails == p.lease \in {0, p.pump.epoch}
     IN  IF ~fails \/ (~q.readOnly /\ q.epoch # p.pump.epoch)
         THEN Pumps(c, q)
         ELSE /\ pty' = [pty EXCEPT ![c] = [q EXCEPT !.pump.refresh = q.generation,
                                                     !.missed = FALSE]]
              /\ reqs' = [reqs EXCEPT ![c] = Append(@, [req |-> "list"])]
  /\ UNCHANGED <<fit, grid, frames, fits, takes>>

\* Faulty: the answer is applied whatever was announced since.
SessionsAnyway(c) ==
  /\ Receives(c, "sessions")
  /\ LET size == Head(feed[c]).size
     IN  /\ grid' = [grid EXCEPT ![c] = size]
         /\ Pumps(c, [pty[c] EXCEPT !.want = size])
  /\ UNCHANGED <<fit, frames, fits, takes>>

\* refreshCanonicalSize: an answer older than an announced size is dropped; one
\* that comes after control was regained takes the window's own size back.
Sessions(c) ==
  /\ Receives(c, "sessions")
  /\ LET size == Head(feed[c]).size
         fresh == pty[c].pump.refresh = pty[c].generation
         p == IF fresh THEN [pty[c] EXCEPT !.want = size,
                                           !.astray = ~pty[c].readOnly \/ pty[c].missed]
              ELSE pty[c]
     IN  /\ grid' = IF fresh THEN [grid EXCEPT ![c] = size] ELSE grid
         /\ Pumps(c, p)
  /\ UNCHANGED <<fit, frames, fits, takes>>

AgentNext ==
  \E c \in Client :
    \/ Take(c) \/ Compare(c) \/ SetGrid(c) \/ Record(c) \/ Acknowledge(c)
    \/ Acquire(c) \/ AnnounceControl(c) \/ Grant(c) \/ List(c) \/ Listed(c)

ClientNext ==
  \E c \in Client :
    \/ Frame(c) \/ Granted(c) \/ ControlChanged(c) \/ SizeChanged(c)
    \/ Acknowledged(c) \/ Refused(c) \/ Sessions(c)

Next ==
  \/ AgentNext \/ ClientNext
  \/ \E c \in Client : takeControl(c) \/ \E size \in Size : ResizeContainer(c, size)

Spec == Init /\ [][Next]_vars

-----------------------------------------------------------------------------
TypeOK ==
  /\ ptySize \in Size /\ recorded \in Size
  /\ owner \in [client : Client, epoch : Epoch]
  /\ reqs \in [Client -> Seq(Request)] /\ feed \in [Client -> Seq(Event)]
  /\ serving \in [Client -> Serving \cup {None}]
  /\ fit \in [Client -> Size] /\ grid \in [Client -> Size]
  /\ pty \in [Client -> AgentPty] /\ frames \subseteq Client
  /\ fits \in 0..MaxFits /\ takes \in 0..MaxTakes /\ late \in BOOLEAN

Quiet ==
  /\ frames = {}
  /\ \A c \in Client : /\ feed[c] = <<>> /\ reqs[c] = <<>> /\ serving[c] = None
                       /\ pty[c].pump = None /\ pty[c].pending = None

\* When the drags and takeovers of all the windows have come to rest, every
\* window draws the grid that the PTY has, the controller is the window the agent
\* knows as such, and that grid fits its container; unless a resize checked
\* before a takeover was carried out after it, the announcements of two takeovers
\* crossed, or a window went astray: it lost control with a size it had not sent
\* yet, or regained it while it was asking for the recorded size and keeps the
\* answer, or ignored an announced size then (pty.ts resize pump, size_changed,
\* refreshCanonicalSize; server.rs Resize, acquire_control; session_manager.rs
\* resize).
GridsAgree ==
  Quiet /\ ~late =>
    /\ ptySize = recorded
    /\ \A c \in Client : pty[c].readOnly = (c # owner.client)
    /\ \A c \in Client :
         ~pty[c].astray => grid[c] = recorded /\ (c = owner.client => fit[c] = recorded)

\* Claimed by src/src/lib/pty.ts:591 ("Once control is lost pending resizes are
\* cleared before the new controller's ordered size_changed event, so a watcher
\* always projects the agent's canonical value"): with nothing under way and no
\* late resize, a window without control draws the recorded grid.
WatchersFollow ==
  Quiet /\ ~late =>
    \A c \in Client : c # owner.client => grid[c] = recorded

=============================================================================

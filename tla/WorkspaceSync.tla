--------------------------- MODULE WorkspaceSync ---------------------------
(***************************************************************************)
(* One GUI keeps its workspaces in step with the agent that owns them      *)
(* (workspace-sync.ts, the broadcasts of server.rs, the versions of        *)
(* repository.rs), while other clients edit the same documents.            *)
(*                                                                         *)
(* The user's edits show at once and wait in one queue per workspace.  The *)
(* running task of a queue stops at each of its awaits; answers and events *)
(* reach the GUI in any relative order, events among themselves in the     *)
(* order in which the agent sent them.  A document is a set of tabs; its   *)
(* version r is history[w][r].  Version 0 is the copy the GUI kept in      *)
(* localStorage, which has no tabs here; a workspace that was deleted and  *)
(* is imported from that copy begins anew with revision 1.                 *)
(***************************************************************************)
EXTENDS Naturals, Sequences, FiniteSets

CONSTANTS
  Workspace,
  Tab,
  None,       \* no document, no answer, no snapshot
  Conflict,   \* the answer workspace_revision_conflict
  Failed,     \* any other error
  MaxEdits,   \* bound: edits of the user
  MaxOthers,  \* bound: edits of the other clients
  MaxDrops,   \* bound: connections lost
  Races       \* the orders of AllRaces that the environment may choose

\* "listing": an event is sent while the answer to a list request is on its way;
\* "crossing": a workspace is deleted while the broadcast of, or the answer with,
\* an earlier version of it is still to reach the GUI;
\* "early": the user edits between a reconnection and the answer to its list;
\* "revival": a deleted workspace is imported while the GUI remembers it or has
\* still to hear of it.
AllRaces == {"listing", "crossing", "early", "revival"}

ASSUME ConstantsAssumption ==
  /\ {None, Conflict, Failed} \cap Nat = {}
  /\ None # Conflict /\ None # Failed /\ Conflict # Failed
  /\ \A tabs \in SUBSET Tab : tabs # None
  /\ None \notin [Workspace -> Nat]
  /\ MaxEdits \in Nat /\ MaxOthers \in Nat /\ MaxDrops \in Nat
  /\ Races \subseteq AllRaces

VARIABLES
  initial,    \* the workspaces of the GUI's copy, which it imports at its start
  history,    \* history[w]: the versions of w that were committed
  past,       \* past[w]: how many of them are from before it was deleted and imported
  deleted,    \* the workspaces whose row is gone
  working,    \* commits whose handler has not broadcast them yet
  link,       \* the host connection: "import", "down", "listing" or "up"
  snapshot,   \* the answer to the pending list or import request
  events,     \* workspace events on their way to the GUI
  documents,  \* documents and revisions: the version last remembered
  deferred,   \* deferredProjectionHosts
  view,       \* workspace-store: the tabs shown
  queue,      \* queue[w]: the operations of `queues`; the first one runs
  step,       \* step[w]: the await at which the running task of w stands
  base,       \* base[w]: its base_revision
  answer,     \* answer[w]: the answer to its request, once given
  shaken,     \* history: queued edits of w were overwritten on the screen
  edits, others, drops   \* how often the bounded things happened

agentVars == <<initial, history, past, deleted, working>>
wireVars == <<link, snapshot, events>>
shownVars == <<documents, deferred, view>>
taskVars == <<queue, step, base, answer>>
boundVars == <<edits, others, drops>>
vars == <<agentVars, wireVars, shownVars, taskVars, shaken, boundVars>>

----------------------------------------------------------------------------
(* Types.                                                                  *)

Operation == [op : {"create", "delete"}] \cup [op : {"add", "remove"}, tab : Tab]

Steps == {"start", "get", "control", "apply",
          "get again", "control again", "apply again"}

\* 0 stands for workspace_removed, and for a workspace the agent does not have.
Event == [ws : Workspace, rev : Nat]

TypeOK ==
  /\ history \in [Workspace -> Seq(SUBSET Tab)]
  /\ initial \subseteq Workspace /\ deleted \subseteq Workspace
  /\ past \in [Workspace -> Nat]
  /\ working \subseteq [ws : Workspace, rev : Nat, asked : BOOLEAN]
  /\ link \in {"import", "down", "listing", "up"}
  /\ snapshot \in [Workspace -> Nat] \cup {None}
  /\ events \in Seq(Event)
  /\ documents \in [Workspace -> Nat \cup {None}]
  /\ deferred \subseteq Workspace
  /\ view \in [Workspace -> (SUBSET Tab) \cup {None}]
  /\ queue \in [Workspace -> Seq(Operation)]
  /\ step \in [Workspace -> Steps]
  /\ base \in [Workspace -> Nat]
  /\ answer \in [Workspace -> Nat \cup {None, Conflict, Failed}]
  /\ shaken \subseteq Workspace
  /\ edits \in 0 .. MaxEdits /\ others \in 0 .. MaxOthers /\ drops \in 0 .. MaxDrops

----------------------------------------------------------------------------
(* What the agent has, and what the GUI does with it.                      *)

Present(w) == history[w] # <<>> /\ w \notin deleted

Listed == [w \in Workspace |-> IF Present(w) THEN Len(history[w]) ELSE 0]

Content(w, r) == IF r = 0 THEN {} ELSE history[w][r]

\* What the agent would show.
Actual == [w \in Workspace |-> IF Present(w) THEN Content(w, Len(history[w])) ELSE None]

Running(w) == queue[w] # <<>>

\* The number that version r of w bears.
Revision(w, r) == IF r > past[w] THEN r - past[w] ELSE r

\* Faulty: whatever arrives last is taken for the newest.
NewerAny(w, r) == TRUE

\* The check of `remember`: seeded documents (0) have no revision yet.
Newer(w, r) == documents[w] = None \/ Revision(w, r) >= Revision(w, documents[w])

\* Faulty: a document is shown although edits of the user are queued.
HeldNever(w) == FALSE

\* queues.has(w), as the projections of responses and events ask it.
Held(w) == Running(w)

\* remember, then projectOrDefer.
Accept(w, r) ==
  IF Newer(w, r)
  THEN /\ documents' = [documents EXCEPT ![w] = r]
       /\ deferred' = IF Held(w) THEN deferred \cup {w} ELSE deferred
       /\ view' = IF Held(w) THEN view ELSE [view EXCEPT ![w] = Content(w, r)]
  ELSE UNCHANGED shownVars

\* Faulty: what was deferred stays deferred when the queue drains.
FinishForgetful(w, docs, late, screen) ==
  /\ queue' = [queue EXCEPT ![w] = Tail(@)]
  /\ step' = [step EXCEPT ![w] = "start"]
  /\ answer' = [answer EXCEPT ![w] = None]
  /\ documents' = docs
  /\ deferred' = late
  /\ view' = screen
  /\ shaken' = IF Len(queue[w]) = 1 THEN shaken \ {w} ELSE shaken

\* The task is over, with these documents, deferrals and screen; the last one
\* of a queue projects what was deferred (the `finally` of enqueue).
Finish(w, docs, late, screen) ==
  LET drained == Len(queue[w]) = 1 IN
  /\ queue' = [queue EXCEPT ![w] = Tail(@)]
  /\ step' = [step EXCEPT ![w] = "start"]
  /\ answer' = [answer EXCEPT ![w] = None]
  /\ documents' = docs
  /\ deferred' = IF drained THEN late \ {w} ELSE late
  /\ view' = IF drained /\ w \in late /\ docs[w] # None
             THEN [screen EXCEPT ![w] = Content(w, docs[w])] ELSE screen
  /\ shaken' = IF drained THEN shaken \ {w} ELSE shaken \cup
                 (IF screen # view THEN {w} ELSE {})

\* Faulty: a refused edit stays on the screen.
RolledBackNot(w) == view

\* rollbackWorkspace.
RolledBack(w) ==
  IF documents[w] = None THEN view
  ELSE [view EXCEPT ![w] = Content(w, documents[w])]

----------------------------------------------------------------------------
(* The user's edits: shown at once, then queued.                           *)

MayEdit ==
  /\ edits < MaxEdits
  /\ link = "listing" => "early" \in Races

Enqueue(w, op, screen) ==
  /\ MayEdit
  /\ edits' = edits + 1
  /\ queue' = [queue EXCEPT ![w] = Append(@, op)]
  /\ view' = [view EXCEPT ![w] = screen]
  /\ UNCHANGED <<agentVars, wireVars, documents, deferred, step, base, answer,
                 shaken, others, drops>>

\* addWorkspace; a new workspace has an id that nobody has used.
Create(w) ==
  /\ history[w] = <<>> /\ view[w] = None /\ ~Running(w) /\ documents[w] = None
  /\ w \notin initial
  /\ Enqueue(w, [op |-> "create"], {})

\* uid: a tab id is new.
Fresh(w, t) ==
  /\ view[w] # None => t \notin view[w]
  /\ \A r \in 1 .. Len(history[w]) : t \notin history[w][r]
  /\ \A i \in 1 .. Len(queue[w]) : queue[w][i] # [op |-> "add", tab |-> t]

AddTab(w, t) ==
  /\ view[w] # None /\ Fresh(w, t)
  /\ Enqueue(w, [op |-> "add", tab |-> t], view[w] \cup {t})

RemoveTab(w, t) ==
  /\ view[w] # None /\ t \in view[w]
  /\ Enqueue(w, [op |-> "remove", tab |-> t], view[w] \ {t})

Delete(w) ==
  /\ view[w] # None
  /\ Enqueue(w, [op |-> "delete"], None)

----------------------------------------------------------------------------
(* The running task of a workspace, from one await to the next.            *)

Connected == link \in {"listing", "up"}

\* requireHost waits for startPromise: for what follows the answer to the import.
Started == link # "import"

\* The change itself is under way.
Applying(w) == step[w] \in {"apply", "apply again"}

Advance(w, next) ==
  /\ step' = [step EXCEPT ![w] = next]
  /\ answer' = [answer EXCEPT ![w] = None]
  /\ UNCHANGED <<agentVars, wireVars, shownVars, queue, shaken, boundVars>>

\* The catch clauses of the three kinds of task.
Fail(w) ==
  /\ Finish(w, documents, deferred,
       IF Head(queue[w]).op = "create" THEN [view EXCEPT ![w] = None]
       ELSE RolledBack(w))
  /\ UNCHANGED <<agentVars, wireVars, base, boundVars>>

\* Faulty: a workspace without a remembered document is not fetched first.
BeginUnread(w) ==
  /\ Running(w) /\ step[w] = "start" /\ Started
  /\ IF ~Connected THEN Fail(w)
     ELSE IF Head(queue[w]).op = "create" THEN Advance(w, "apply") /\ UNCHANGED base
     ELSE Advance(w, "control") /\ base' = [base EXCEPT ![w] = documents[w]]

\* requireHost, and for an operation the base revision.
Begin(w) ==
  /\ Running(w) /\ step[w] = "start" /\ Started
  /\ IF ~Connected THEN Fail(w)
     ELSE CASE Head(queue[w]).op = "create" -> Advance(w, "apply") /\ UNCHANGED base
            [] Head(queue[w]).op = "delete" -> Advance(w, "control") /\ UNCHANGED base
            [] OTHER ->
                 IF documents[w] \in {None, 0}
                 THEN Advance(w, "get") /\ UNCHANGED base
                 ELSE /\ Advance(w, "control")
                      /\ base' = [base EXCEPT ![w] = documents[w]]

\* ensureControl gave an epoch, from its cache or from the agent.
ControlGranted(w) ==
  /\ step[w] \in {"control", "control again"} /\ answer[w] = None
  /\ Advance(w, IF step[w] = "control" THEN "apply" ELSE "apply again")
  /\ UNCHANGED base

\* Held by another client, no such workspace, no answer within 8 s, or the
\* connection is gone.
ControlRefused(w) ==
  /\ step[w] \in {"control", "control again"}
  /\ Fail(w)

OnDocument(w) ==
  /\ step[w] \in {"get", "get again"} /\ answer[w] \in Nat
  /\ Accept(w, answer[w])
  /\ base' = [base EXCEPT ![w] = answer[w]]
  /\ step' = [step EXCEPT ![w] = IF step[w] = "get" THEN "control" ELSE "control again"]
  /\ answer' = [answer EXCEPT ![w] = None]
  /\ UNCHANGED <<agentVars, wireVars, queue, shaken, boundVars>>

\* workspace_revision_conflict: refresh and retry exactly once.
OnConflict(w) ==
  /\ step[w] = "apply" /\ answer[w] = Conflict
  /\ IF Connected THEN Advance(w, "get again") /\ UNCHANGED base ELSE Fail(w)

OnRefused(w) ==
  /\ step[w] \notin {"start", "control", "control again"}
  /\ \/ answer[w] = Failed
     \/ answer[w] = None /\ link = "down"
     \/ answer[w] = Conflict /\ step[w] = "apply again"
  /\ Fail(w)

\* Create, apply or delete succeeded.
OnApplied(w) ==
  LET r == answer[w] IN
  /\ Applying(w) /\ r \in Nat
  /\ CASE Head(queue[w]).op = "delete" ->
            Finish(w, [documents EXCEPT ![w] = None], deferred, [view EXCEPT ![w] = None])
       [] OTHER ->
            IF Newer(w, r)
            THEN Finish(w, [documents EXCEPT ![w] = r], deferred \cup {w}, view)
            ELSE Finish(w, documents, deferred, view)
  /\ UNCHANGED <<agentVars, wireVars, base, boundVars>>

----------------------------------------------------------------------------
(* The agent.                                                              *)

\* Unless they may cross, a removal follows what is still to be said of w.
MayDelete(w) ==
  "crossing" \in Races \/ (answer[w] \notin Nat /\ \A m \in working : m.ws # w)

CommitVersion(w, tabs, asked) ==
  /\ history' = [history EXCEPT ![w] = Append(@, tabs)]
  /\ working' = working \cup {[ws |-> w, rev |-> Len(history[w]) + 1, asked |-> asked]}
  /\ UNCHANGED <<initial, past, deleted>>

CommitRemoval(w, asked) ==
  /\ MayDelete(w)
  /\ deleted' = deleted \cup {w}
  /\ working' = working \cup {[ws |-> w, rev |-> 0, asked |-> asked]}
  /\ UNCHANGED <<initial, history, past>>

\* Nothing is committed; r is the answer.
Say(w, r) == answer' = [answer EXCEPT ![w] = r] /\ UNCHANGED agentVars

Requested(w) ==
  /\ link # "down" /\ step[w] \in {"get", "apply", "get again", "apply again"}
  /\ answer[w] = None
  /\ ~\E m \in working : m.ws = w /\ m.asked

\* WorkspaceDocument::apply: what the operation makes of these tabs; None if it
\* is refused.
Applied(op, tabs) ==
  CASE op.op = "add" -> IF op.tab \in tabs THEN None ELSE tabs \cup {op.tab}
    [] op.op = "remove" -> IF op.tab \in tabs THEN tabs \ {op.tab} ELSE None

\* get_workspace.
ServeGet(w) ==
  /\ step[w] \in {"get", "get again"}
  /\ Say(w, IF Present(w) THEN Len(history[w]) ELSE Failed)

\* create_workspace.
ServeCreate(w) ==
  /\ Applying(w) /\ Head(queue[w]).op = "create"
  /\ CommitVersion(w, {}, TRUE) /\ UNCHANGED answer

\* Faulty: the base revision is not compared.
ServeApplyUnchecked(w) ==
  /\ Applying(w) /\ Head(queue[w]).op \notin {"create", "delete"}
  /\ LET tabs == Applied(Head(queue[w]), Content(w, base[w])) IN
     IF ~Present(w) \/ tabs = None THEN Say(w, Failed)
     ELSE CommitVersion(w, tabs, TRUE) /\ UNCHANGED answer

\* apply_workspace_operation: a document to change, on the revision the
\* operation was made for, and an operation that applies to it.
ServeApply(w) ==
  /\ Applying(w) /\ Head(queue[w]).op \notin {"create", "delete"}
  /\ LET tabs == Applied(Head(queue[w]), Content(w, Len(history[w]))) IN
     IF ~Present(w) THEN Say(w, Failed)
     ELSE IF Revision(w, base[w]) # Revision(w, Len(history[w])) THEN Say(w, Conflict)
     ELSE IF tabs = None THEN Say(w, Failed)
     ELSE CommitVersion(w, tabs, TRUE) /\ UNCHANGED answer

\* delete_workspace.
ServeDelete(w) ==
  /\ Applying(w) /\ Head(queue[w]).op = "delete"
  /\ IF Present(w) THEN CommitRemoval(w, TRUE) /\ UNCHANGED answer ELSE Say(w, Failed)

\* The handlers of these requests up to the commit.
Serve(w) ==
  /\ Requested(w)
  /\ ServeGet(w) \/ ServeCreate(w) \/ ServeApply(w) \/ ServeDelete(w)
  /\ UNCHANGED <<wireVars, shownVars, queue, step, base, shaken, boundVars>>

\* validate_control: the lease ended between ensureControl and the request.
LeaseLost(w) ==
  /\ Requested(w) /\ Applying(w) /\ Head(queue[w]).op # "create"
  /\ Say(w, Failed)
  /\ UNCHANGED <<wireVars, shownVars, queue, step, base, shaken, boundVars>>

\* The handler broadcasts its commit, then answers.
Broadcast(m) ==
  /\ m \in working
  /\ snapshot # None => "listing" \in Races
  /\ working' = working \ {m}
  /\ events' = IF link = "down" THEN events
               ELSE Append(events, [ws |-> m.ws, rev |-> m.rev])
  /\ answer' = IF m.asked THEN [answer EXCEPT ![m.ws] = m.rev] ELSE answer
  /\ UNCHANGED <<initial, history, past, deleted, link, snapshot, shownVars, queue, step,
                 base, shaken, boundVars>>

Other(w) ==
  /\ others < MaxOthers /\ Present(w)
  /\ others' = others + 1
  /\ UNCHANGED <<wireVars, shownVars, taskVars, shaken, edits, drops>>

OtherEdit(w, t) ==
  /\ Other(w)
  /\ LET tabs == Content(w, Len(history[w])) IN
     /\ t \in tabs \/ Fresh(w, t)
     /\ CommitVersion(w, IF t \in tabs THEN tabs \ {t} ELSE tabs \cup {t}, FALSE)

OtherDelete(w) == Other(w) /\ CommitRemoval(w, FALSE)

----------------------------------------------------------------------------
(* Events, and the connection to the host.                                 *)

OnEvent ==
  /\ events # <<>>
  /\ events' = Tail(events)
  /\ LET w == Head(events).ws
         r == Head(events).rev
     IN IF r # 0
        THEN Accept(w, r) /\ UNCHANGED shaken
        ELSE /\ documents' = [documents EXCEPT ![w] = None]
             /\ deferred' = deferred \ {w}
             /\ view' = [view EXCEPT ![w] = None]
             /\ shaken' = IF Running(w) THEN shaken \cup {w} ELSE shaken
  /\ UNCHANGED <<agentVars, link, snapshot, taskVars, boundVars>>

\* The GUI remembers nothing of w and has nothing of it to hear.
Forgotten(w) ==
  /\ documents[w] = None /\ \A m \in working : m.ws # w
  /\ \A i \in 1 .. Len(events) : events[i].ws # w

\* import_workspaces: what the agent does not have, or no longer has, is inserted
\* (INSERT OR IGNORE), then every workspace is broadcast and listed.
ServeImport ==
  LET missing == {w \in initial : ~Present(w)} IN
  /\ link = "import" /\ snapshot = None
  /\ "revival" \in Races \/ \A w \in missing \cap deleted : Forgotten(w)
  /\ history' = [w \in Workspace |->
       IF w \in missing THEN Append(history[w], {}) ELSE history[w]]
  /\ past' = [w \in Workspace |-> IF w \in missing THEN Len(history[w]) ELSE past[w]]
  /\ deleted' = deleted \ missing
  /\ snapshot' = [w \in Workspace |-> IF w \in deleted' THEN 0 ELSE Len(history'[w])]
  /\ working' = working \cup
       {[ws |-> w, rev |-> snapshot'[w], asked |-> FALSE] :
          w \in {v \in Workspace : snapshot'[v] # 0}}
  /\ UNCHANGED <<initial, link, events, shownVars, taskVars, shaken, boundVars>>

ServeList ==
  /\ link = "listing" /\ snapshot = None
  /\ snapshot' = Listed
  /\ UNCHANGED <<agentVars, link, events, shownVars, taskVars, shaken, boundVars>>

\* Each listed document is remembered, all of them replace what is shown.
OnList ==
  /\ snapshot # None
  /\ snapshot' = None /\ link' = "up"
  /\ view' = [w \in Workspace |->
       IF snapshot[w] = 0 THEN None ELSE Content(w, snapshot[w])]
  /\ documents' = [w \in Workspace |->
       IF snapshot[w] # 0 /\ Newer(w, snapshot[w]) THEN snapshot[w] ELSE documents[w]]
  /\ shaken' = shaken \cup {w \in Workspace : Running(w) /\ view'[w] # view[w]}
  /\ UNCHANGED <<agentVars, events, deferred, taskVars, boundVars>>

\* The connection is lost: what was on it is gone, what the GUI waits for fails.
Drop ==
  /\ drops < MaxDrops /\ link \in {"listing", "up"}
  /\ drops' = drops + 1
  /\ link' = "down" /\ snapshot' = None /\ events' = <<>>
  /\ working' = {[m EXCEPT !.asked = FALSE] : m \in working}
  /\ UNCHANGED <<initial, history, past, deleted, shownVars, taskVars, shaken, edits,
                 others>>

\* reconnectLocalHost: connect and subscribe, then ask for the list.  Its timer
\* takes a second at least; without a host every task has ended long before.
Reconnect ==
  /\ link = "down" /\ \A w \in Workspace : ~Running(w)
  /\ link' = "listing"
  /\ UNCHANGED <<agentVars, snapshot, events, shownVars, taskVars, shaken, boundVars>>

----------------------------------------------------------------------------

Init ==
  /\ history \in [Workspace -> {<<>>, <<{}>>}]
  /\ past = [w \in Workspace |-> 0]
  /\ deleted = {} /\ working = {}
  /\ link = "import" /\ snapshot = None /\ events = <<>>
  /\ initial \in SUBSET Workspace
  /\ view = [w \in Workspace |-> IF w \in initial THEN {} ELSE None]
  /\ documents = [w \in Workspace |-> IF w \in initial THEN 0 ELSE None]
  /\ deferred = {}
  /\ queue = [w \in Workspace |-> <<>>]
  /\ step = [w \in Workspace |-> "start"]
  /\ base = [w \in Workspace |-> 0]
  /\ answer = [w \in Workspace |-> None]
  /\ shaken = {}
  /\ edits = 0 /\ others = 0 /\ drops = 0

User(w) == Create(w) \/ Delete(w) \/ \E t \in Tab : AddTab(w, t) \/ RemoveTab(w, t)

Task(w) ==
  \/ Begin(w) \/ ControlGranted(w) \/ ControlRefused(w) \/ OnDocument(w)
  \/ OnConflict(w) \/ OnRefused(w) \/ OnApplied(w)

Answering(w) == Serve(w) \/ LeaseLost(w)

Others(w) == OtherDelete(w) \/ \E t \in Tab : OtherEdit(w, t)

Connecting == ServeImport \/ ServeList \/ OnList \/ Reconnect

Next ==
  \/ \E w \in Workspace : User(w) \/ Task(w) \/ Answering(w) \/ Others(w)
  \/ \E m \in working : Broadcast(m)
  \/ OnEvent \/ Connecting \/ Drop

\* The event loops of both sides run, handlers end, and the reconnection timer
\* is set again after every failure (scheduleLocalReconnect).
Fairness ==
  /\ \A w \in Workspace : WF_vars(Task(w)) /\ WF_vars(Answering(w))
  /\ WF_vars(\E m \in working : Broadcast(m))
  /\ WF_vars(OnEvent) /\ WF_vars(Connecting)

Spec == Init /\ [][Next]_vars /\ Fairness

----------------------------------------------------------------------------
(* Properties.                                                             *)

\* Nothing is under way between the GUI and the agent.
Quiet ==
  /\ link = "up" /\ events = <<>> /\ working = {}
  /\ \A w \in Workspace : ~Running(w)

\* Whenever nothing is under way, the screen shows exactly the agent's
\* workspaces with the agent's tabs: no refused edit, no workspace that was
\* deleted, nothing older than the last event (acceptWorkspaceResponse,
\* rollbackWorkspace, the deferral of projectOrDefer, replaceHost).
Converged == Quiet => view = Actual

\* What the user added and the agent has not yet judged stays on the screen,
\* unless an error rolled back or a removal or a new list replaced the whole
\* document (the comment in acceptWorkspaceResponse).
EditsShown ==
  \A w \in Workspace \ shaken : \A i \in 1 .. Len(queue[w]) :
    LET op == queue[w][i] IN
    (/\ op.op = "add"
     /\ \A j \in i + 1 .. Len(queue[w]) :
          queue[w][j].op # "delete" /\ queue[w][j] # [op |-> "remove", tab |-> op.tab])
    => view[w] # None /\ op.tab \in view[w]

\* The agent loses no edit: a version differs from the one before it by the
\* single operation that made it, whoever else was editing, but for the first one
\* after an import of what was deleted (apply_workspace_operation_inner).
OneEditPerVersion ==
  \A w \in Workspace : \A r \in 2 .. Len(history[w]) :
    r # past[w] + 1 =>
    Cardinality((history[w][r] \ history[w][r - 1]) \cup
                (history[w][r - 1] \ history[w][r])) = 1

\* The documents the GUI remembers are versions the agent committed, taken in
\* the order of their revisions (remember).
Copies == INSTANCE VersionedCopy WITH
  committed <- [w \in Workspace |-> Len(history[w])],
  copy <- documents

CopySpec == Copies!Spec

\* The screen ends up showing the agent's documents: every queue drains, every
\* connection that was lost is made again, and nothing remains deferred.
Settles == <>[](view = Actual /\ Quiet)
=============================================================================

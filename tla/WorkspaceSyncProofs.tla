------------------------ MODULE WorkspaceSyncProofs ------------------------
(***************************************************************************)
(* The safety properties of WorkspaceSync, for every set of workspaces and *)
(* tabs and every value of the bounds.                                     *)
(***************************************************************************)
EXTENDS WorkspaceSync, FiniteSetTheorems, SequenceTheorems, TLAPS

\* No revision is about that was not committed.
VersionsKnown ==
  /\ \A m \in working : m.rev <= Len(history[m.ws])
  /\ \A i \in 1 .. Len(events) : events[i].rev <= Len(history[events[i].ws])
  /\ \A w \in Workspace : documents[w] # None => documents[w] <= Len(history[w])
  /\ snapshot # None => \A w \in Workspace : snapshot[w] <= Len(history[w])
  /\ \A w \in Workspace : answer[w] \in Nat => answer[w] <= Len(history[w])
  /\ \A w \in Workspace : past[w] <= Len(history[w])

\* A task that has not begun waits for nothing, and a removal answers a delete.
TasksStand ==
  \A w \in Workspace :
    /\ queue[w] = <<>> => step[w] = "start"
    /\ step[w] = "start" => answer[w] = None
    /\ answer[w] = 0 => Applying(w) /\ Head(queue[w]).op = "delete"
    /\ Applying(w) /\ answer[w] \in Nat /\ Head(queue[w]).op = "delete" => answer[w] = 0

\* A commit that was asked for is still awaited by the task that asked.
CommitsAwaited ==
  /\ \A m \in working : m.asked =>
       /\ Applying(m.ws) /\ answer[m.ws] = None /\ link # "down"
       /\ m.rev = 0 <=> Head(queue[m.ws]).op = "delete"
  /\ \A m, n \in working : m.asked /\ n.asked /\ m.ws = n.ws => m = n

\* A workspace is created by its first operation, and the agent is asked once.
CreatedOnce ==
  \A w \in Workspace :
    /\ link = "import" => step[w] = "start"
    /\ \A i \in 2 .. Len(queue[w]) : queue[w][i].op # "create"
    /\ Running(w) /\ Head(queue[w]).op = "create" =>
         /\ step[w] \in {"start", "apply"} /\ answer[w] \in Nat \cup {None}
         /\ w \notin initial
         /\ history[w] # <<>> =>
              /\ step[w] = "apply"
              /\ \/ answer[w] # None \/ link = "down"
                 \/ \E m \in working : m.ws = w /\ m.asked

\* An answer to a list request belongs to a connection, and nothing was imported
\* before the import.
Listing ==
  /\ snapshot # None => link \in {"import", "listing"}
  /\ link = "import" /\ snapshot = None => \A w \in Workspace : past[w] = 0

\* The inductive invariant behind the properties that hold whatever the order.
SyncInv ==
  /\ TypeOK /\ VersionsKnown /\ Listing /\ TasksStand /\ CommitsAwaited /\ CreatedOnce

-----------------------------------------------------------------------------
(* What Converged needs beside it, when none of the orders of AllRaces      *)
(* happens.                                                                *)

Announced(w, r) == \E m \in working : m.ws = w /\ m.rev = r

OnTheWay(w, r) == \E i \in 1 .. Len(events) : events[i] = [ws |-> w, rev |-> r]

\* No task runs while the list is fetched, and a lost connection carries nothing.
Phases ==
  /\ link = "listing" => \A w \in Workspace : ~Running(w)
  /\ link = "down" => events = <<>>

\* The removal is the last that is said of a workspace.
RemovalsLast ==
  /\ \A w \in deleted : history[w] # <<>>
  /\ \A m \in working : m.rev = 0 <=> m.ws \in deleted
  /\ \A w \in Workspace : answer[w] \in Nat => (answer[w] = 0 <=> w \in deleted)
  /\ \A i \in 1 .. Len(events) :
       IF events[i].rev = 0 THEN events[i].ws \in deleted
       ELSE events[i].ws \in deleted =>
              \/ Announced(events[i].ws, 0)
              \/ \E j \in i + 1 .. Len(events) : events[j] = [ws |-> events[i].ws, rev |-> 0]
  /\ \A i, j \in 1 .. Len(events) :
       i < j /\ events[i].ws = events[j].ws /\ events[i].rev = 0 => events[j].rev = 0

\* A deleted workspace is off the screen, unless its removal is still to come.
DeletedGone ==
  /\ link = "up" => \A w \in deleted :
       \/ Announced(w, 0) \/ OnTheWay(w, 0)
       \/ view[w] = None /\ (documents[w] = None \/ ~Running(w))
  /\ link = "import" => \A w \in deleted :
       Announced(w, 0) \/ OnTheWay(w, 0) \/ documents[w] = None

\* A workspace the agent never had is shown only while it is being created.
NeverCommitted ==
  \A w \in Workspace : history[w] = <<>> =>
    /\ documents[w] # None => link = "import" /\ snapshot = None /\ w \in initial
    /\ link = "up" => view[w] = None \/ (Running(w) /\ Head(queue[w]).op = "create")

\* What happened after the answer to a list request is still to be broadcast.
SnapshotRecent ==
  snapshot # None => \A w \in Workspace :
    /\ snapshot[w] # 0 =>
         /\ documents[w] # None => documents[w] <= snapshot[w]
         /\ \A i \in 1 .. Len(events) : events[i].ws = w => events[i].rev <= snapshot[w]
         /\ w \in deleted => Announced(w, 0)
    /\ w \notin deleted =>
         \/ snapshot[w] = Len(history[w])
         \/ snapshot[w] # 0 /\ Announced(w, Len(history[w]))

\* The newest version is remembered or on its way, and without queued edits the
\* screen shows what is remembered.
PresentShown ==
  link = "up" => \A w \in Workspace : Present(w) =>
    /\ \/ documents[w] = Len(history[w])
       \/ Announced(w, Len(history[w])) \/ OnTheWay(w, Len(history[w]))
    /\ ~Running(w) /\ documents[w] # None => view[w] = Content(w, documents[w])

\* A version that overtook the answer of the running task is deferred.
OvertakenDeferred ==
  /\ \A m \in working :
       m.asked /\ m.rev # 0 /\ documents[m.ws] # None /\ documents[m.ws] >= m.rev
       => m.ws \in deferred
  /\ \A w \in Workspace :
       Applying(w) /\ answer[w] \in Nat \ {0} /\ documents[w] # None
         /\ documents[w] >= answer[w]
       => w \in deferred

\* A version from before the last import of its workspace is not about.
NoRelic ==
  /\ \A m \in working : m.rev # 0 => m.rev > past[m.ws]
  /\ \A i \in 1 .. Len(events) : events[i].rev # 0 => events[i].rev > past[events[i].ws]
  /\ \A w \in Workspace : documents[w] \notin {None, 0} => documents[w] > past[w]
  /\ snapshot # None => \A w \in Workspace : snapshot[w] # 0 => snapshot[w] > past[w]
  /\ \A w \in Workspace : answer[w] \in Nat \ {0} => answer[w] > past[w]
  /\ \A w \in Workspace : Present(w) => Len(history[w]) > past[w]

ConvergedInv ==
  /\ SyncInv /\ NoRelic /\ Phases /\ RemovalsLast /\ DeletedGone /\ NeverCommitted
  /\ SnapshotRecent /\ PresentShown /\ OvertakenDeferred

-----------------------------------------------------------------------------
(* Types, and the versions that are known.                                 *)

LEMMA HistoryType ==
  ASSUME TypeOK, NEW w \in Workspace
  PROVE  history[w] \in Seq(SUBSET Tab) /\ Len(history[w]) \in Nat
  BY DEF TypeOK

LEMMA ContentType ==
  ASSUME TypeOK, NEW w \in Workspace, NEW r \in 0 .. Len(history[w])
  PROVE  Content(w, r) \in SUBSET Tab
<1>1. history[w] \in Seq(SUBSET Tab)  BY DEF TypeOK
<1>. QED  BY <1>1 DEF Content

\* An operation that the agent does not refuse changes one tab.
LEMMA AppliedChange ==
  ASSUME NEW op \in Operation, op.op \notin {"create", "delete"},
         NEW tabs \in SUBSET Tab, Applied(op, tabs) # None
  PROVE  /\ Applied(op, tabs) \in SUBSET Tab
         /\ \E t \in Tab : \/ t \notin tabs /\ Applied(op, tabs) = tabs \cup {t}
                           \/ t \in tabs /\ Applied(op, tabs) = tabs \ {t}
<1>1. op.op \in {"add", "remove"} /\ op.tab \in Tab  BY DEF Operation
<1>. QED  BY <1>1 DEF Applied

LEMMA EventType ==
  ASSUME NEW es \in Seq(Event), NEW i \in 1 .. Len(es)
  PROVE  es[i].ws \in Workspace /\ es[i].rev \in Nat
<1>1. es[i] \in Event  OBVIOUS
<1>. QED  BY <1>1 DEF Event

LEMMA AcceptType ==
  ASSUME TypeOK, VersionsKnown, NEW w \in Workspace, NEW r \in 0 .. Len(history[w]), Accept(w, r)
  PROVE  /\ documents' \in [Workspace -> Nat \cup {None}]
         /\ deferred' \subseteq Workspace
         /\ view' \in [Workspace -> (SUBSET Tab) \cup {None}]
         /\ \A v \in Workspace : documents'[v] # None => documents'[v] <= Len(history[v])
<1>1. Content(w, r) \in SUBSET Tab  BY ContentType
<1>2. r \in Nat  BY DEF TypeOK
<1>3. documents' \in [Workspace -> Nat \cup {None}]  BY <1>2 DEF Accept, TypeOK, shownVars
<1>4. deferred' \subseteq Workspace  BY DEF Accept, TypeOK, shownVars
<1>5. view' \in [Workspace -> (SUBSET Tab) \cup {None}]
  <2>1. view' = view \/ view' = [view EXCEPT ![w] = Content(w, r)]  BY DEF Accept, shownVars
  <2>. QED  BY <1>1, <2>1 DEF TypeOK
<1>6. \A v \in Workspace : documents'[v] # None => documents'[v] <= Len(history[v])
  <2>1. documents' = documents \/ documents' = [documents EXCEPT ![w] = r]
    BY DEF Accept, shownVars
  <2>2. documents \in [Workspace -> Nat \cup {None}]  BY DEF TypeOK
  <2>3. \A v \in Workspace : documents'[v] = documents[v] \/ (v = w /\ documents'[v] = r)
    BY <2>1, <2>2
  <2>. QED  BY <2>3 DEF VersionsKnown
<1>. QED  BY <1>3, <1>4, <1>5, <1>6

LEMMA FinishType ==
  ASSUME TypeOK, VersionsKnown, NEW w \in Workspace, Running(w),
         NEW docs \in [Workspace -> Nat \cup {None}], NEW late \in SUBSET Workspace,
         NEW screen \in [Workspace -> (SUBSET Tab) \cup {None}],
         \A v \in Workspace : docs[v] # None => docs[v] <= Len(history[v]),
         Finish(w, docs, late, screen)
  PROVE  /\ queue' \in [Workspace -> Seq(Operation)]
         /\ step' \in [Workspace -> Steps]
         /\ answer' \in [Workspace -> Nat \cup {None, Conflict, Failed}]
         /\ documents' = docs
         /\ deferred' \subseteq Workspace
         /\ view' \in [Workspace -> (SUBSET Tab) \cup {None}]
         /\ shaken' \subseteq Workspace
<1>1. docs[w] # None => Content(w, docs[w]) \in SUBSET Tab  BY ContentType
<1>2. queue' \in [Workspace -> Seq(Operation)]  BY DEF Finish, TypeOK, Running
<1>3. step' \in [Workspace -> Steps]  BY DEF Finish, TypeOK, Steps
<1>4. view' \in [Workspace -> (SUBSET Tab) \cup {None}]
  <2>1. view' = screen \/ (docs[w] # None /\ view' = [screen EXCEPT ![w] = Content(w, docs[w])])
    BY DEF Finish
  <2>. QED  BY <1>1, <2>1
<1>5. answer' \in [Workspace -> Nat \cup {None, Conflict, Failed}]  BY DEF Finish, TypeOK
<1>6. documents' = docs /\ deferred' \subseteq Workspace /\ shaken' \subseteq Workspace
  BY DEF Finish, TypeOK
<1>. QED  BY <1>2, <1>3, <1>4, <1>5, <1>6

LEMMA RolledBackType ==
  ASSUME TypeOK, VersionsKnown, NEW w \in Workspace
  PROVE  RolledBack(w) \in [Workspace -> (SUBSET Tab) \cup {None}]
<1>1. documents[w] # None => Content(w, documents[w]) \in SUBSET Tab
  BY ContentType DEF TypeOK, VersionsKnown
<1>. QED  BY SMTT(30), <1>1 DEF RolledBack, TypeOK

Typed == TypeOK /\ VersionsKnown

LEMMA FailType ==
  ASSUME Typed, NEW w \in Workspace, Running(w), Fail(w)
  PROVE  Typed'
<1> DEFINE screen == IF Head(queue[w]).op = "create" THEN [view EXCEPT ![w] = None]
                     ELSE RolledBack(w)
<1>1. screen \in [Workspace -> (SUBSET Tab) \cup {None}]
  BY RolledBackType DEF TypeOK, Typed
<1>2. Finish(w, documents, deferred, screen)  BY DEF Fail
<1> HIDE DEF screen
<1>3. /\ queue' \in [Workspace -> Seq(Operation)] /\ step' \in [Workspace -> Steps]
      /\ answer' \in [Workspace -> Nat \cup {None, Conflict, Failed}]
      /\ documents' = documents /\ deferred' \subseteq Workspace
      /\ view' \in [Workspace -> (SUBSET Tab) \cup {None}] /\ shaken' \subseteq Workspace
  BY <1>1, <1>2, FinishType DEF TypeOK, VersionsKnown, Typed
<1>4. UNCHANGED <<initial, history, past, deleted, working, link, snapshot, events, base, edits, others, drops>>
      /\ \A v \in Workspace : answer'[v] \in {None, answer[v]}
  BY <1>2 DEF Fail, Finish, agentVars, wireVars, boundVars, Typed, TypeOK
<1>5. TypeOK'  BY <1>3, <1>4 DEF TypeOK, Typed
<1>6. VersionsKnown'  BY <1>3, <1>4, ConstantsAssumption DEF VersionsKnown, Typed
<1>. QED  BY <1>5, <1>6 DEF Typed

LEMMA AdvanceType ==
  ASSUME Typed, NEW w \in Workspace, NEW next \in Steps, Advance(w, next),
         base' \in [Workspace -> Nat]
  PROVE  Typed'
  BY ConstantsAssumption
     DEF Typed, TypeOK, VersionsKnown, Advance, agentVars, wireVars, shownVars, boundVars

LEMMA EnqueueType ==
  ASSUME Typed, NEW w \in Workspace, NEW op \in Operation,
         NEW screen \in (SUBSET Tab) \cup {None}, Enqueue(w, op, screen)
  PROVE  Typed'
<1>1. queue' \in [Workspace -> Seq(Operation)]  BY DEF Typed, TypeOK, Enqueue
<1>2. view' \in [Workspace -> (SUBSET Tab) \cup {None}]  BY DEF Typed, TypeOK, Enqueue
<1>3. edits' \in 0 .. MaxEdits  BY ConstantsAssumption DEF Typed, TypeOK, Enqueue, MayEdit
<1>4. TypeOK'
  BY <1>1, <1>2, <1>3 DEF Typed, TypeOK, Enqueue, agentVars, wireVars
<1>5. VersionsKnown'  BY DEF Typed, VersionsKnown, Enqueue, agentVars, wireVars
<1>. QED  BY <1>4, <1>5 DEF Typed

\* Versions are only added.
LEMMA CommitVersionType ==
  ASSUME Typed, NEW w \in Workspace, NEW tabs \in SUBSET Tab, NEW asked \in BOOLEAN,
         CommitVersion(w, tabs, asked)
  PROVE  /\ history' \in [Workspace -> Seq(SUBSET Tab)]
         /\ working' \subseteq [ws : Workspace, rev : Nat, asked : BOOLEAN]
         /\ \A m \in working' : m.rev <= Len(history'[m.ws])
         /\ Len(history'[w]) = Len(history[w]) + 1
         /\ \A r \in 1 .. Len(history[w]) : history'[w][r] = history[w][r]
         /\ history'[w][Len(history[w]) + 1] = tabs
         /\ \A v \in Workspace \ {w} : history'[v] = history[v]
         /\ UNCHANGED <<initial, past, deleted>>
<1>1. history[w] \in Seq(SUBSET Tab)  BY DEF Typed, TypeOK
<1>2. /\ Append(history[w], tabs) \in Seq(SUBSET Tab)
      /\ Len(Append(history[w], tabs)) = Len(history[w]) + 1
      /\ \A r \in 1 .. Len(history[w]) : Append(history[w], tabs)[r] = history[w][r]
      /\ Append(history[w], tabs)[Len(history[w]) + 1] = tabs
  BY <1>1
<1> DEFINE longer == Append(history[w], tabs)
<1>3. history' = [history EXCEPT ![w] = longer]  BY DEF CommitVersion
<1> HIDE DEF longer
<1>4. /\ history' \in [Workspace -> Seq(SUBSET Tab)] /\ history'[w] = longer
      /\ \A v \in Workspace \ {w} : history'[v] = history[v]
  BY <1>2, <1>3 DEF Typed, TypeOK, longer
<1>5. Len(history'[w]) = Len(history[w]) + 1  BY <1>2, <1>4 DEF longer
<1>6. working' = working \cup {[ws |-> w, rev |-> Len(history[w]) + 1, asked |-> asked]}
  BY DEF CommitVersion
<1>7. working' \subseteq [ws : Workspace, rev : Nat, asked : BOOLEAN]
  BY <1>1, <1>6 DEF Typed, TypeOK
<1>8. \A m \in working' : m.rev <= Len(history'[m.ws])
  <2> SUFFICES ASSUME NEW m \in working' PROVE m.rev <= Len(history'[m.ws])  OBVIOUS
  <2>1. m \in working => m.rev <= Len(history[m.ws]) /\ m.rev \in Nat /\ m.ws \in Workspace
    BY DEF Typed, TypeOK, VersionsKnown
  <2>2. m \in working \/ (m.ws = w /\ m.rev = Len(history[w]) + 1)  BY <1>6
  <2>. QED  BY <2>1, <2>2, <1>1, <1>4, <1>5
<1>. QED  BY <1>2, <1>4, <1>5, <1>7, <1>8 DEF longer, CommitVersion

LEMMA CommitRemovalType ==
  ASSUME Typed, NEW w \in Workspace, NEW asked \in BOOLEAN, CommitRemoval(w, asked)
  PROVE  /\ deleted' \subseteq Workspace
         /\ working' \subseteq [ws : Workspace, rev : Nat, asked : BOOLEAN]
         /\ \A m \in working' : m.rev <= Len(history[m.ws])
         /\ UNCHANGED <<initial, history, past>>
<1>1. working' = working \cup {[ws |-> w, rev |-> 0, asked |-> asked]}  BY DEF CommitRemoval
<1>2. \A m \in working' : m.rev <= Len(history[m.ws])
  <2> SUFFICES ASSUME NEW m \in working' PROVE m.rev <= Len(history[m.ws])  OBVIOUS
  <2>1. history[w] \in Seq(SUBSET Tab)  BY DEF Typed, TypeOK
  <2>2. m \in working \/ (m.ws = w /\ m.rev = 0)  BY <1>1
  <2>. QED  BY <2>1, <2>2 DEF Typed, VersionsKnown
<1>. QED  BY <1>1, <1>2 DEF Typed, TypeOK, CommitRemoval

\* A commit leaves what else is known of versions true.
LEMMA CommitKeeps ==
  ASSUME Typed,
         history' \in [Workspace -> Seq(SUBSET Tab)],
         \A w \in Workspace : Len(history'[w]) >= Len(history[w]),
         \A m \in working' : m.rev <= Len(history'[m.ws]),
         \A w \in Workspace : answer'[w] \in Nat => answer'[w] <= Len(history'[w]),
         \A w \in Workspace : past'[w] <= Len(history'[w]),
         snapshot' = snapshot \/ \A w \in Workspace : snapshot'[w] <= Len(history'[w]),
         events' = events, documents' = documents
  PROVE  VersionsKnown'
<1>1. \A w \in Workspace : Len(history[w]) \in Nat /\ Len(history'[w]) \in Nat  BY DEF Typed, TypeOK
<1>2. \A i \in 1 .. Len(events) : events[i].ws \in Workspace /\ events[i].rev \in Nat
  <2>1. events \in Seq(Event)  BY DEF Typed, TypeOK
  <2>. QED  BY <2>1, EventType
<1>3. \A i \in 1 .. Len(events') : events'[i].rev <= Len(history'[events'[i].ws])
  BY <1>1, <1>2 DEF Typed, VersionsKnown
<1>4. \A w \in Workspace : documents'[w] # None => documents'[w] <= Len(history'[w])
  BY <1>1 DEF Typed, VersionsKnown, TypeOK
<1>5. snapshot' # None => \A w \in Workspace : snapshot'[w] <= Len(history'[w])
  BY <1>1 DEF Typed, VersionsKnown, TypeOK
<1>. QED  BY <1>3, <1>4, <1>5 DEF VersionsKnown

LEMMA SayType ==
  ASSUME Typed, NEW w \in Workspace, NEW r \in Nat \cup {Failed, Conflict}, Say(w, r),
         r \in Nat => r <= Len(history[w])
  PROVE  /\ answer' \in [Workspace -> Nat \cup {None, Conflict, Failed}]
         /\ \A v \in Workspace : answer'[v] \in Nat => answer'[v] <= Len(history[v])
         /\ UNCHANGED agentVars
  BY DEF Typed, TypeOK, VersionsKnown, Say

-----------------------------------------------------------------------------
(* Each action keeps the types.                                            *)

LEMMA UserType ==
  ASSUME Typed, NEW w \in Workspace, User(w)
  PROVE  Typed'
<1>1. CASE Create(w)
  BY <1>1, EnqueueType DEF Create, Operation
<1>2. CASE Delete(w)
  BY <1>2, EnqueueType DEF Delete, Operation
<1>3. ASSUME NEW t \in Tab, AddTab(w, t) PROVE Typed'
  <2>1. view[w] \in SUBSET Tab  BY <1>3 DEF AddTab, Typed, TypeOK
  <2>. QED  BY <1>3, <2>1, EnqueueType DEF AddTab, Operation
<1>4. ASSUME NEW t \in Tab, RemoveTab(w, t) PROVE Typed'
  <2>1. view[w] \in SUBSET Tab  BY <1>4 DEF RemoveTab, Typed, TypeOK
  <2>. QED  BY <1>4, <2>1, EnqueueType DEF RemoveTab, Operation
<1>. QED  BY <1>1, <1>2, <1>3, <1>4 DEF User

LEMMA TaskType ==
  ASSUME Typed, TasksStand, NEW w \in Workspace, Task(w)
  PROVE  Typed'
<1>1. Running(w)
  <2>1. step[w] # "start" => Running(w)  BY DEF TasksStand, Running
  <2>. QED  BY <2>1 DEF Task, Begin, ControlGranted, ControlRefused, OnDocument,
                        OnConflict, OnRefused, OnApplied, Applying
<1>2. base \in [Workspace -> Nat] /\ documents \in [Workspace -> Nat \cup {None}]
  BY DEF Typed, TypeOK
<1>3. CASE Fail(w)  BY <1>1, <1>3, FailType
<1>4. CASE Begin(w) /\ ~Fail(w)
  <2>1. PICK next \in Steps : Advance(w, next)  BY <1>4 DEF Begin, Steps
  <2>2. base' \in [Workspace -> Nat]
    <3>1. base' = base \/ (documents[w] \in Nat /\ base' = [base EXCEPT ![w] = documents[w]])
      BY <1>2, <1>4 DEF Begin
    <3>. QED  BY <1>2, <3>1
  <2>. QED  BY <2>1, <2>2, AdvanceType
<1>5. CASE ControlGranted(w)
  <2>1. PICK next \in Steps : Advance(w, next)  BY <1>5 DEF ControlGranted, Steps
  <2>. QED  BY <1>2, <1>5, <2>1, AdvanceType DEF ControlGranted
<1>6. CASE OnConflict(w) /\ ~Fail(w)
  BY <1>2, <1>6, AdvanceType DEF OnConflict, Steps
<1>7. CASE OnDocument(w)
  <2>1. answer[w] \in 0 .. Len(history[w])
    <3>1. answer[w] \in Nat  BY <1>7 DEF OnDocument
    <3>2. answer[w] <= Len(history[w])  BY <3>1 DEF Typed, VersionsKnown
    <3>3. Len(history[w]) \in Nat  BY HistoryType DEF Typed
    <3>. QED  BY <3>1, <3>2, <3>3
  <2>2. /\ documents' \in [Workspace -> Nat \cup {None}]
        /\ deferred' \subseteq Workspace
        /\ view' \in [Workspace -> (SUBSET Tab) \cup {None}]
        /\ \A v \in Workspace : documents'[v] # None => documents'[v] <= Len(history[v])
    BY <1>7, <2>1, AcceptType DEF OnDocument, Typed
  <2>3. base' \in [Workspace -> Nat]  BY <1>2, <1>7, <2>1 DEF OnDocument
  <2>4. step' \in [Workspace -> Steps]  BY <1>7 DEF OnDocument, Typed, TypeOK, Steps
  <2>5. answer' \in [Workspace -> Nat \cup {None, Conflict, Failed}]
        /\ \A v \in Workspace : answer'[v] \in {None, answer[v]}
    BY <1>7 DEF OnDocument, Typed, TypeOK
  <2>6. UNCHANGED <<initial, history, past, deleted, working, link, snapshot, events, queue, shaken, edits, others, drops>>
    BY <1>7 DEF OnDocument, agentVars, wireVars, boundVars
  <2>7. TypeOK'  BY <2>2, <2>3, <2>4, <2>5, <2>6 DEF Typed, TypeOK
  <2>8. VersionsKnown'  BY <2>2, <2>5, <2>6, ConstantsAssumption DEF Typed, VersionsKnown
  <2>. QED  BY <2>7, <2>8 DEF Typed
<1>8. CASE OnApplied(w)
  <2>1. PICK docs \in [Workspace -> Nat \cup {None}], late \in SUBSET Workspace,
             screen \in [Workspace -> (SUBSET Tab) \cup {None}] :
          /\ Finish(w, docs, late, screen)
          /\ \A v \in Workspace : docs[v] \in {documents[v], None, answer[v]}
    <3>1. deferred \cup {w} \in SUBSET Workspace /\ deferred \in SUBSET Workspace
          /\ view \in [Workspace -> (SUBSET Tab) \cup {None}]
          /\ [view EXCEPT ![w] = None] \in [Workspace -> (SUBSET Tab) \cup {None}]
      BY DEF Typed, TypeOK
    <3>2. [documents EXCEPT ![w] = None] \in [Workspace -> Nat \cup {None}]
          /\ \A v \in Workspace : [documents EXCEPT ![w] = None][v] \in {documents[v], None}
      BY <1>2
    <3>3. answer[w] \in Nat  BY <1>8 DEF OnApplied
    <3>4. [documents EXCEPT ![w] = answer[w]] \in [Workspace -> Nat \cup {None}]
          /\ \A v \in Workspace : [documents EXCEPT ![w] = answer[w]][v] \in {documents[v], answer[v]}
      BY <1>2, <3>3
    <3>5. \/ Finish(w, [documents EXCEPT ![w] = None], deferred, [view EXCEPT ![w] = None])
          \/ Finish(w, [documents EXCEPT ![w] = answer[w]], deferred \cup {w}, view)
          \/ Finish(w, documents, deferred, view)
      BY <1>8 DEF OnApplied
    <3>. QED  BY <1>2, <3>1, <3>2, <3>4, <3>5
  <2>2. \A v \in Workspace : docs[v] # None => docs[v] <= Len(history[v])
    BY <2>1 DEF Typed, VersionsKnown
  <2>3. /\ queue' \in [Workspace -> Seq(Operation)] /\ step' \in [Workspace -> Steps]
        /\ answer' \in [Workspace -> Nat \cup {None, Conflict, Failed}]
        /\ documents' = docs /\ deferred' \subseteq Workspace
        /\ view' \in [Workspace -> (SUBSET Tab) \cup {None}] /\ shaken' \subseteq Workspace
    BY <1>1, <2>1, <2>2, FinishType DEF Typed
  <2>4. UNCHANGED <<initial, history, past, deleted, working, link, snapshot, events, base, edits, others, drops>>
        /\ \A v \in Workspace : answer'[v] \in {None, answer[v]}
    BY <1>8, <2>1 DEF OnApplied, Finish, agentVars, wireVars, boundVars, Typed, TypeOK
  <2>5. TypeOK'  BY <2>3, <2>4 DEF TypeOK, Typed
  <2>6. VersionsKnown'  BY <2>2, <2>3, <2>4, ConstantsAssumption DEF VersionsKnown, Typed
  <2>. QED  BY <2>5, <2>6 DEF Typed
<1>. QED
  BY <1>3, <1>4, <1>5, <1>6, <1>7, <1>8 DEF Task, ControlRefused, OnRefused

LEMMA AnsweringType ==
  ASSUME Typed, TasksStand, NEW w \in Workspace, Answering(w)
  PROVE  Typed'
<1>1. ASSUME NEW r \in Nat \cup {Failed, Conflict}, Say(w, r), r \in Nat => r <= Len(history[w]),
             UNCHANGED <<wireVars, shownVars, queue, step, base, shaken, boundVars>>
      PROVE  Typed'
  <2>1. /\ answer' \in [Workspace -> Nat \cup {None, Conflict, Failed}]
        /\ \A v \in Workspace : answer'[v] \in Nat => answer'[v] <= Len(history[v])
        /\ UNCHANGED agentVars
    BY <1>1, SayType
  <2>2. TypeOK'
    BY <1>1, <2>1 DEF Typed, TypeOK, agentVars, wireVars, shownVars, boundVars
  <2>3. VersionsKnown'
    BY <1>1, <2>1 DEF Typed, VersionsKnown, agentVars, wireVars, shownVars, boundVars
  <2>. QED  BY <2>2, <2>3 DEF Typed
<1>2. CASE LeaseLost(w)
  <2>1. Failed \notin Nat  BY ConstantsAssumption
  <2>. QED  BY <1>1, <1>2, <2>1 DEF LeaseLost
<1>3. CASE Serve(w)
  <2> DEFINE op == Head(queue[w])
             r == Len(history[w])
  <2>1. op \in Operation /\ r \in Nat
    <3>1. queue[w] # <<>>  BY <1>3 DEF Serve, Requested, TasksStand
    <3>. QED  BY <3>1, HistoryType DEF Typed, TypeOK
  <2>2. /\ UNCHANGED <<wireVars, shownVars, queue, step, base, shaken, boundVars>>
        /\ \/ \E s \in {r, Failed, Conflict} : Say(w, s)
           \/ UNCHANGED answer /\ CommitVersion(w, {}, TRUE)
           \/ UNCHANGED answer /\ CommitRemoval(w, TRUE)
           \/ /\ op.op \notin {"create", "delete"} /\ Present(w)
              /\ Applied(op, Content(w, r)) # None
              /\ UNCHANGED answer /\ CommitVersion(w, Applied(op, Content(w, r)), TRUE)
    BY <1>3 DEF Serve, ServeGet, ServeCreate, ServeApply, ServeDelete
  <2>3. CASE \E s \in {r, Failed, Conflict} : Say(w, s)
    <3>1. PICK s \in {r, Failed, Conflict} : Say(w, s)  BY <2>3
    <3>2. s \in Nat \cup {Failed, Conflict} /\ (s \in Nat => s <= Len(history[w]))
      BY <2>1, <3>1, ConstantsAssumption
    <3>. QED  BY <1>1, <2>2, <3>1, <3>2
  <2>4. CASE UNCHANGED answer /\ CommitRemoval(w, TRUE)
    <3>1. /\ deleted' \subseteq Workspace
          /\ working' \subseteq [ws : Workspace, rev : Nat, asked : BOOLEAN]
          /\ \A m \in working' : m.rev <= Len(history[m.ws])
          /\ UNCHANGED <<initial, history, past>>
      BY <2>4, CommitRemovalType
    <3>2. TypeOK'
      BY <2>2, <2>4, <3>1 DEF Typed, TypeOK, wireVars, shownVars, boundVars
    <3>3. VersionsKnown'
      BY <2>2, <2>4, <3>1 DEF Typed, VersionsKnown, wireVars, shownVars, boundVars
    <3>. QED  BY <3>2, <3>3 DEF Typed
  <2>5. ASSUME NEW tabs \in SUBSET Tab, UNCHANGED answer, CommitVersion(w, tabs, TRUE)
        PROVE  Typed'
    <3>1. /\ history' \in [Workspace -> Seq(SUBSET Tab)]
          /\ working' \subseteq [ws : Workspace, rev : Nat, asked : BOOLEAN]
          /\ \A m \in working' : m.rev <= Len(history'[m.ws])
          /\ Len(history'[w]) = Len(history[w]) + 1
          /\ \A v \in Workspace \ {w} : history'[v] = history[v]
      BY <2>5, CommitVersionType
    <3>2. UNCHANGED <<initial, past, deleted>>  BY <2>5 DEF CommitVersion
    <3>3. TypeOK'
      BY <2>2, <2>5, <3>1, <3>2 DEF Typed, TypeOK, wireVars, shownVars, boundVars
    <3>4. \A v \in Workspace : Len(history[v]) \in Nat /\ Len(history'[v]) >= Len(history[v])
      BY <3>1, HistoryType DEF Typed
    <3>5. \A v \in Workspace : answer'[v] \in Nat => answer'[v] <= Len(history'[v])
      <4>1. \A v \in Workspace : Len(history'[v]) \in Nat  BY <3>1
      <4>. QED  BY <2>5, <3>4, <4>1 DEF Typed, VersionsKnown
    <3>6. \A v \in Workspace : past'[v] <= Len(history'[v])
      BY <3>1, <3>2, <3>4 DEF Typed, VersionsKnown, TypeOK
    <3>7. VersionsKnown'
      BY <2>2, <3>1, <3>4, <3>5, <3>6, CommitKeeps DEF wireVars, shownVars
    <3>. QED  BY <3>3, <3>7 DEF Typed
  <2>6. CASE UNCHANGED answer /\ CommitVersion(w, {}, TRUE)  BY <2>5, <2>6
  <2>7. CASE /\ op.op \notin {"create", "delete"} /\ Applied(op, Content(w, r)) # None
             /\ UNCHANGED answer /\ CommitVersion(w, Applied(op, Content(w, r)), TRUE)
    <3>1. Content(w, r) \in SUBSET Tab  BY <2>1, ContentType DEF Typed
    <3>2. Applied(op, Content(w, r)) \in SUBSET Tab  BY <2>1, <2>7, <3>1, AppliedChange
    <3>. QED  BY <2>5, <2>7, <3>2
  <2>. QED  BY <2>2, <2>3, <2>4, <2>6, <2>7
<1>. QED  BY <1>2, <1>3 DEF Answering

LEMMA OthersType ==
  ASSUME Typed, NEW w \in Workspace, Others(w)
  PROVE  Typed'
<1>0. Other(w)  BY DEF Others, OtherDelete, OtherEdit
<1>1. /\ others' \in 0 .. MaxOthers
      /\ UNCHANGED <<link, snapshot, events, documents, deferred, view, queue, step, base,
                     answer, shaken, edits, drops>>
  BY <1>0, ConstantsAssumption DEF Other, wireVars, shownVars, taskVars, Typed, TypeOK
<1>2. CASE OtherDelete(w)
  <2>1. /\ deleted' \subseteq Workspace
        /\ working' \subseteq [ws : Workspace, rev : Nat, asked : BOOLEAN]
        /\ \A m \in working' : m.rev <= Len(history[m.ws])
        /\ UNCHANGED <<initial, history, past>>
    BY <1>2, CommitRemovalType DEF OtherDelete
  <2>2. TypeOK'  BY <1>1, <2>1 DEF Typed, TypeOK
  <2>3. VersionsKnown'  BY <1>1, <2>1 DEF Typed, VersionsKnown
  <2>. QED  BY <2>2, <2>3 DEF Typed
<1>3. ASSUME NEW t \in Tab, OtherEdit(w, t) PROVE Typed'
  <2>1. Content(w, Len(history[w])) \in SUBSET Tab  BY HistoryType, ContentType DEF Typed
  <2>2. PICK tabs \in SUBSET Tab : CommitVersion(w, tabs, FALSE)
    BY <1>3, <2>1 DEF OtherEdit
  <2>3. /\ history' \in [Workspace -> Seq(SUBSET Tab)]
        /\ working' \subseteq [ws : Workspace, rev : Nat, asked : BOOLEAN]
        /\ \A m \in working' : m.rev <= Len(history'[m.ws])
        /\ Len(history'[w]) = Len(history[w]) + 1
        /\ \A v \in Workspace \ {w} : history'[v] = history[v]
    BY <2>2, CommitVersionType
  <2>4. UNCHANGED <<initial, past, deleted>>  BY <2>2 DEF CommitVersion
  <2>5. TypeOK'  BY <1>1, <2>3, <2>4 DEF Typed, TypeOK
  <2>6. \A v \in Workspace : Len(history[v]) \in Nat /\ Len(history'[v]) >= Len(history[v])
    BY <2>3, HistoryType DEF Typed
  <2>7. \A v \in Workspace : answer'[v] \in Nat => answer'[v] <= Len(history'[v])
    <3>1. \A v \in Workspace : Len(history'[v]) \in Nat  BY <2>3
    <3>. QED  BY <1>1, <2>6, <3>1 DEF Typed, VersionsKnown
  <2>8. \A v \in Workspace : past'[v] <= Len(history'[v])
    BY <2>3, <2>4, <2>6 DEF Typed, VersionsKnown, TypeOK
  <2>9. VersionsKnown'  BY <1>1, <2>3, <2>6, <2>7, <2>8, CommitKeeps
  <2>. QED  BY <2>5, <2>9 DEF Typed
<1>. QED  BY <1>2, <1>3 DEF Others

LEMMA BroadcastType ==
  ASSUME Typed, NEW m \in working, Broadcast(m)
  PROVE  Typed'
<1>1. m.ws \in Workspace /\ m.rev \in Nat /\ m.rev <= Len(history[m.ws])
  BY DEF Typed, TypeOK, VersionsKnown
<1> DEFINE e == [ws |-> m.ws, rev |-> m.rev]
<1>2. e \in Event  BY <1>1 DEF Event
<1>3. UNCHANGED <<initial, history, past, deleted, link, snapshot, documents, deferred, view, queue, step, base,
                  shaken, edits, others, drops>>
  BY DEF Broadcast, shownVars, boundVars
<1>4. working' \subseteq working  BY DEF Broadcast
<1>5. /\ answer' \in [Workspace -> Nat \cup {None, Conflict, Failed}]
      /\ \A w \in Workspace : answer'[w] = answer[w] \/ (w = m.ws /\ answer'[w] = m.rev)
  BY <1>1 DEF Broadcast, Typed, TypeOK
<1>6. events' \in Seq(Event)
  <2>1. events \in Seq(Event)  BY DEF Typed, TypeOK
  <2>2. events' = events \/ events' = Append(events, e)  BY DEF Broadcast
  <2>. QED  BY <1>2, <2>1, <2>2
<1>7. \A i \in 1 .. Len(events') : events'[i].rev <= Len(history[events'[i].ws])
  <2>1. events \in Seq(Event)  BY DEF Typed, TypeOK
  <2>2. CASE events' = events  BY <2>2 DEF Typed, VersionsKnown
  <2>3. CASE events' = Append(events, e)
    <3>1. \A i \in 1 .. Len(events') : events'[i] = e \/ (i \in 1 .. Len(events) /\ events'[i] = events[i])
      BY <2>1, <2>3
    <3>2. \A i \in 1 .. Len(events) : events[i].rev <= Len(history[events[i].ws])
      BY DEF Typed, VersionsKnown
    <3>3. e.rev <= Len(history[e.ws])  BY <1>1
    <3> HIDE DEF e
    <3>. QED  BY <3>1, <3>2, <3>3
  <2>. QED  BY <2>2, <2>3 DEF Broadcast
<1>8. TypeOK'  BY <1>3, <1>4, <1>5, <1>6 DEF Typed, TypeOK
<1>9. VersionsKnown'
  <2>1. \A w \in Workspace : answer'[w] \in Nat => answer'[w] <= Len(history[w])
    BY <1>1, <1>5 DEF Typed, VersionsKnown
  <2>. QED  BY <1>3, <1>4, <1>7, <2>1 DEF Typed, VersionsKnown
<1>. QED  BY <1>8, <1>9 DEF Typed

\* The events that remain are those that were behind the first one.
LEMMA TailOfEvents ==
  ASSUME TypeOK, events # <<>>, events' = Tail(events)
  PROVE  /\ events' \in Seq(Event) /\ Len(events') = Len(events) - 1 /\ Len(events) \in Nat \ {0}
         /\ \A i \in 1 .. Len(events') : i + 1 \in 1 .. Len(events) /\ events'[i] = events[i + 1]
         /\ Head(events) = events[1] /\ 1 \in 1 .. Len(events)
<1>1. events \in Seq(Event)  BY DEF TypeOK
<1>. QED  BY <1>1

LEMMA OnEventType ==
  ASSUME Typed, OnEvent
  PROVE  Typed'
<1> DEFINE w == Head(events).ws
           r == Head(events).rev
<1>1. /\ events' \in Seq(Event)
      /\ \A i \in 1 .. Len(events') : i + 1 \in 1 .. Len(events) /\ events'[i] = events[i + 1]
      /\ Head(events) = events[1] /\ 1 \in 1 .. Len(events)
  BY TailOfEvents DEF OnEvent, Typed
<1>2. w \in Workspace /\ r \in 0 .. Len(history[w])
  <2>1. w \in Workspace /\ r \in Nat  BY <1>1, EventType DEF Typed, TypeOK
  <2>2. r <= Len(history[w])  BY <1>1 DEF Typed, VersionsKnown
  <2>. QED  BY <2>1, <2>2, HistoryType DEF Typed
<1>3. \A i \in 1 .. Len(events') : events'[i].rev <= Len(history[events'[i].ws])
  BY <1>1 DEF Typed, VersionsKnown
<1>4. UNCHANGED <<initial, history, past, deleted, working, link, snapshot, queue, step, base, answer, edits, others, drops>>
  BY DEF OnEvent, agentVars, taskVars, boundVars
<1>5. /\ documents' \in [Workspace -> Nat \cup {None}]
      /\ deferred' \subseteq Workspace
      /\ view' \in [Workspace -> (SUBSET Tab) \cup {None}]
      /\ \A v \in Workspace : documents'[v] # None => documents'[v] <= Len(history[v])
      /\ shaken' \subseteq Workspace
  <2>1. CASE r # 0
    BY <1>2, <2>1, AcceptType DEF OnEvent, Typed, TypeOK
  <2>2. CASE r = 0
    <3>1. /\ documents' = [documents EXCEPT ![w] = None]
          /\ deferred' = deferred \ {w}
          /\ view' = [view EXCEPT ![w] = None]
          /\ shaken' \subseteq shaken \cup {w}
      BY <2>2 DEF OnEvent
    <3>2. documents \in [Workspace -> Nat \cup {None}]  BY DEF Typed, TypeOK
    <3> HIDE DEF w, r
    <3>3. /\ documents' \in [Workspace -> Nat \cup {None}]
          /\ \A v \in Workspace : documents'[v] \in {None, documents[v]}
      BY <3>1, <3>2
    <3>. QED  BY <1>2, <3>1, <3>3 DEF Typed, TypeOK, VersionsKnown
  <2>. QED  BY <2>1, <2>2
<1>6. TypeOK'  BY <1>1, <1>4, <1>5 DEF Typed, TypeOK
<1>7. VersionsKnown'  BY <1>3, <1>4, <1>5 DEF Typed, VersionsKnown
<1>. QED  BY <1>6, <1>7 DEF Typed

LEMMA ListedType ==
  ASSUME Typed
  PROVE  Listed \in [Workspace -> Nat] /\ \A w \in Workspace : Listed[w] <= Len(history[w])
<1>1. \A w \in Workspace : Len(history[w]) \in Nat  BY HistoryType DEF Typed
<1>. QED  BY <1>1 DEF Listed

\* What an import commits: a first version of what was missing.
Imported(w) ==
  /\ w \in initial /\ ~Present(w) /\ w \notin deleted'
  /\ Len(history'[w]) = Len(history[w]) + 1 /\ history'[w][Len(history[w]) + 1] = {}
  /\ \A r \in 1 .. Len(history[w]) : history'[w][r] = history[w][r]
  /\ past'[w] = Len(history[w])

Untouched(w) ==
  /\ w \notin initial \/ Present(w)
  /\ history'[w] = history[w] /\ past'[w] = past[w] /\ (w \in deleted' <=> w \in deleted)

LEMMA ImportCommits ==
  ASSUME Typed, ServeImport
  PROVE  /\ UNCHANGED <<initial, link, events, documents, deferred, view, queue, step, base,
                        answer, shaken, edits, others, drops>>
         /\ history' \in [Workspace -> Seq(SUBSET Tab)] /\ past' \in [Workspace -> Nat]
         /\ deleted' \subseteq deleted
         /\ \A w \in Workspace : Imported(w) \/ Untouched(w)
         /\ snapshot' = [w \in Workspace |-> IF w \in deleted' THEN 0 ELSE Len(history'[w])]
         /\ working' = working \cup {[ws |-> w, rev |-> snapshot'[w], asked |-> FALSE] :
                                        w \in {v \in Workspace : snapshot'[v] # 0}}
<1> DEFINE missing == {w \in initial : ~Present(w)}
           longer(w) == Append(history[w], {})
<1>1. /\ history' = [w \in Workspace |-> IF w \in missing THEN longer(w) ELSE history[w]]
      /\ past' = [w \in Workspace |-> IF w \in missing THEN Len(history[w]) ELSE past[w]]
      /\ deleted' = deleted \ missing
  BY DEF ServeImport
<1>2. ASSUME NEW w \in Workspace
      PROVE  /\ longer(w) \in Seq(SUBSET Tab) /\ Len(longer(w)) = Len(history[w]) + 1
             /\ longer(w)[Len(history[w]) + 1] = {} /\ Len(history[w]) \in Nat
             /\ \A r \in 1 .. Len(history[w]) : longer(w)[r] = history[w][r]
  <2>1. history[w] \in Seq(SUBSET Tab)  BY HistoryType DEF Typed
  <2>. QED  BY <2>1
<1> HIDE DEF longer
<1>3. history' \in [Workspace -> Seq(SUBSET Tab)]
  <2>1. \A w \in Workspace : history[w] \in Seq(SUBSET Tab)  BY HistoryType DEF Typed
  <2>. QED  BY <1>1, <1>2, <2>1
<1>4. past' \in [Workspace -> Nat]  BY <1>1, <1>2 DEF Typed, TypeOK
<1>5. ASSUME NEW w \in Workspace PROVE Imported(w) \/ Untouched(w)
  <2>1. CASE w \in missing
    <3>1. history'[w] = longer(w) /\ past'[w] = Len(history[w]) /\ w \notin deleted'
      BY <1>1, <2>1
    <3>. QED  BY <1>2, <2>1, <3>1 DEF Imported
  <2>2. CASE w \notin missing  BY <1>1, <2>2 DEF Untouched
  <2>. QED  BY <2>1, <2>2
<1>. QED  BY <1>1, <1>3, <1>4, <1>5 DEF ServeImport, shownVars, taskVars, boundVars

LEMMA ImportType ==
  ASSUME Typed, ServeImport
  PROVE  Typed'
<1>1. /\ UNCHANGED <<initial, link, events, documents, deferred, view, queue, step, base,
                     answer, shaken, edits, others, drops>>
      /\ history' \in [Workspace -> Seq(SUBSET Tab)] /\ past' \in [Workspace -> Nat]
      /\ deleted' \subseteq deleted
      /\ \A w \in Workspace : Imported(w) \/ Untouched(w)
      /\ snapshot' = [w \in Workspace |-> IF w \in deleted' THEN 0 ELSE Len(history'[w])]
      /\ working' = working \cup {[ws |-> w, rev |-> snapshot'[w], asked |-> FALSE] :
                                     w \in {v \in Workspace : snapshot'[v] # 0}}
  BY ImportCommits
<1>2. \A w \in Workspace : /\ Len(history[w]) \in Nat /\ Len(history'[w]) \in Nat
                            /\ Len(history'[w]) >= Len(history[w])
                            /\ past'[w] <= Len(history'[w])
  <2> SUFFICES ASSUME NEW w \in Workspace
               PROVE  /\ Len(history[w]) \in Nat /\ Len(history'[w]) \in Nat
                      /\ Len(history'[w]) >= Len(history[w]) /\ past'[w] <= Len(history'[w])
    OBVIOUS
  <2>1. Len(history[w]) \in Nat /\ Len(history'[w]) \in Nat  BY <1>1, HistoryType DEF Typed
  <2>2. CASE Imported(w)  BY <2>1, <2>2 DEF Imported
  <2>3. CASE Untouched(w)  BY <2>1, <2>3 DEF Untouched, Typed, VersionsKnown, TypeOK
  <2>. QED  BY <1>1, <2>1, <2>2, <2>3
<1>3. snapshot' \in [Workspace -> Nat] /\ \A w \in Workspace : snapshot'[w] <= Len(history'[w])
  BY <1>1, <1>2
<1>4. working' \subseteq [ws : Workspace, rev : Nat, asked : BOOLEAN]
  <2>1. \A w \in Workspace : [ws |-> w, rev |-> snapshot'[w], asked |-> FALSE]
                                \in [ws : Workspace, rev : Nat, asked : BOOLEAN]
    BY <1>3
  <2>2. working \subseteq [ws : Workspace, rev : Nat, asked : BOOLEAN]  BY DEF Typed, TypeOK
  <2>. QED  BY <1>1, <2>1, <2>2
<1>5. \A m \in working' : m.rev <= Len(history'[m.ws])
  <2> SUFFICES ASSUME NEW m \in working' PROVE m.rev <= Len(history'[m.ws])  OBVIOUS
  <2>1. CASE m \in working
    <3>1. m.ws \in Workspace /\ m.rev \in Nat /\ m.rev <= Len(history[m.ws])
      BY <2>1 DEF Typed, TypeOK, VersionsKnown
    <3>. QED  BY <1>2, <3>1
  <2>2. CASE m \notin working
    <3>1. PICK w \in Workspace : m.ws = w /\ m.rev = snapshot'[w]  BY <1>1, <2>2
    <3>. QED  BY <1>3, <3>1
  <2>. QED  BY <2>1, <2>2
<1>6. TypeOK'  BY <1>1, <1>3, <1>4 DEF Typed, TypeOK
<1>7. \A w \in Workspace : answer'[w] \in Nat => answer'[w] <= Len(history'[w])
  <2>1. answer' = answer  BY <1>1
  <2>2. \A w \in Workspace : answer[w] \in Nat => answer[w] <= Len(history[w])
    BY DEF Typed, VersionsKnown
  <2>. QED  BY <1>2, <2>1, <2>2
<1>8. VersionsKnown'  BY <1>1, <1>2, <1>3, <1>5, <1>7, CommitKeeps
<1>. QED  BY <1>6, <1>8 DEF Typed

LEMMA ConnectingType ==
  ASSUME Typed, Connecting
  PROVE  Typed'
<1>1. CASE ServeImport  BY <1>1, ImportType
<1>2. CASE ServeList
  <2>1. TypeOK'
    BY <1>2, ListedType DEF ServeList, Typed, TypeOK, agentVars, shownVars, taskVars, boundVars
  <2>2. VersionsKnown'
    BY <1>2, ListedType DEF ServeList, Typed, VersionsKnown, agentVars, shownVars, taskVars, boundVars
  <2>. QED  BY <2>1, <2>2 DEF Typed
<1>3. CASE OnList
  <2>1. snapshot \in [Workspace -> Nat] /\ \A w \in Workspace : snapshot[w] <= Len(history[w])
    BY <1>3 DEF OnList, Typed, TypeOK, VersionsKnown
  <2>2. \A w \in Workspace : Content(w, snapshot[w]) \in SUBSET Tab
    BY <2>1, HistoryType, ContentType DEF Typed
  <2>3. view' \in [Workspace -> (SUBSET Tab) \cup {None}]  BY <1>3, <2>2 DEF OnList
  <2>4. /\ documents' \in [Workspace -> Nat \cup {None}]
        /\ \A w \in Workspace : documents'[w] \in {snapshot[w], documents[w]}
    BY <1>3, <2>1 DEF OnList, Typed, TypeOK
  <2>5. /\ UNCHANGED <<initial, history, past, deleted, working, events, deferred, queue, step, base, answer, edits, others, drops>>
        /\ snapshot' = None /\ link' = "up" /\ shaken' \subseteq Workspace
    BY <1>3 DEF OnList, agentVars, taskVars, boundVars, Typed, TypeOK
  <2>6. TypeOK'  BY <2>3, <2>4, <2>5 DEF Typed, TypeOK
  <2>7. VersionsKnown'  BY <2>1, <2>4, <2>5 DEF Typed, VersionsKnown
  <2>. QED  BY <2>6, <2>7 DEF Typed
<1>4. CASE Reconnect
  BY <1>4 DEF Reconnect, Typed, TypeOK, VersionsKnown, agentVars, shownVars, taskVars, boundVars
<1>. QED  BY <1>1, <1>2, <1>3, <1>4 DEF Connecting

LEMMA DropType ==
  ASSUME Typed, Drop
  PROVE  Typed'
<1>1. /\ UNCHANGED <<initial, history, past, deleted, documents, deferred, view, queue, step, base, answer,
                     shaken, edits, others>>
      /\ link' = "down" /\ snapshot' = None /\ events' = <<>> /\ drops' \in 0 .. MaxDrops
  BY ConstantsAssumption DEF Drop, shownVars, taskVars, Typed, TypeOK
<1>2. \A n \in working' : n \in [ws : Workspace, rev : Nat, asked : BOOLEAN]
                           /\ \E m \in working : n.ws = m.ws /\ n.rev = m.rev
  <2> SUFFICES ASSUME NEW m \in working
               PROVE  LET n == [m EXCEPT !.asked = FALSE] IN
                      n \in [ws : Workspace, rev : Nat, asked : BOOLEAN] /\ n.ws = m.ws /\ n.rev = m.rev
    BY DEF Drop
  <2>1. m \in [ws : Workspace, rev : Nat, asked : BOOLEAN]  BY DEF Typed, TypeOK
  <2>. QED  BY <2>1
<1>3. TypeOK'  BY <1>1, <1>2 DEF Typed, TypeOK
<1>4. VersionsKnown'  BY <1>1, <1>2 DEF Typed, VersionsKnown
<1>. QED  BY <1>3, <1>4 DEF Typed

\* Every step keeps the types.
LEMMA StepType ==
  ASSUME Typed, TasksStand, [Next]_vars
  PROVE  Typed'
<1>1. ASSUME NEW w \in Workspace, User(w) \/ Task(w) \/ Answering(w) \/ Others(w)
      PROVE  Typed'
  BY <1>1, UserType, TaskType, AnsweringType, OthersType
<1>2. ASSUME NEW m \in working, Broadcast(m) PROVE Typed'  BY <1>2, BroadcastType
<1>3. CASE UNCHANGED vars
  BY <1>3 DEF vars, agentVars, wireVars, shownVars, taskVars, boundVars, Typed, TypeOK, VersionsKnown
<1>. QED  BY <1>1, <1>2, <1>3, OnEventType, ConnectingType, DropType DEF Next

-----------------------------------------------------------------------------
(* Tasks and their answers.                                                *)

LEMMA QueueEnds ==
  ASSUME TypeOK, NEW w \in Workspace, Running(w)
  PROVE  /\ Head(queue[w]) \in Operation /\ Head(queue[w]) = queue[w][1]
         /\ Len(queue[w]) \in Nat \ {0}
         /\ Tail(queue[w]) \in Seq(Operation) /\ Len(Tail(queue[w])) = Len(queue[w]) - 1
         /\ \A i \in 1 .. Len(Tail(queue[w])) : Tail(queue[w])[i] = queue[w][i + 1]
         /\ Tail(queue[w]) = <<>> <=> Len(queue[w]) = 1
<1> DEFINE q == queue[w]
<1>1. q \in Seq(Operation) /\ q # <<>>  BY DEF TypeOK, Running
<1> HIDE DEF q
<1>2. Head(q) \in Operation /\ Head(q) = q[1] /\ Len(q) \in Nat \ {0}  BY <1>1
<1>3. Tail(q) \in Seq(Operation) /\ Len(Tail(q)) = Len(q) - 1  BY <1>1
<1>4. \A i \in 1 .. Len(Tail(q)) : Tail(q)[i] = q[i + 1]  BY <1>1
<1>5. Tail(q) = <<>> <=> Len(q) = 1
  <2>1. Tail(q) # <<>> => Len(Tail(q)) \in Nat \ {0}  BY <1>3, EmptySeq
  <2>2. Tail(q) = <<>> => Len(Tail(q)) = 0  BY EmptySeq
  <2>. QED  BY <1>2, <1>3, <2>1, <2>2
<1>. QED  BY <1>2, <1>3, <1>4, <1>5 DEF q

LEMMA QueueAppended ==
  ASSUME TypeOK, NEW w \in Workspace, NEW op \in Operation
  PROVE  LET q == Append(queue[w], op) IN
         /\ q \in Seq(Operation) /\ q # <<>> /\ Len(q) = Len(queue[w]) + 1 /\ Len(queue[w]) \in Nat
         /\ \A i \in 1 .. Len(queue[w]) : q[i] = queue[w][i]
         /\ q[Len(q)] = op
         /\ Head(q) = IF Running(w) THEN Head(queue[w]) ELSE op
<1> DEFINE q == queue[w]
<1>1. q \in Seq(Operation)  BY DEF TypeOK
<1>2. Running(w) <=> q # <<>>  BY DEF Running
<1> HIDE DEF q
<1>3. /\ Append(q, op) \in Seq(Operation) /\ Append(q, op) # <<>>
      /\ Len(Append(q, op)) = Len(q) + 1 /\ Len(q) \in Nat
  BY <1>1
<1>4. \A i \in 1 .. Len(q) : Append(q, op)[i] = q[i]  BY <1>1
<1>5. Append(q, op)[Len(q) + 1] = op  BY <1>1
<1>6. Head(Append(q, op)) = IF q # <<>> THEN Head(q) ELSE op
  <2>1. Head(Append(q, op)) = Append(q, op)[1]  BY <1>3
  <2>2. CASE q # <<>>
    <3>1. Len(q) \in Nat \ {0} /\ Head(q) = q[1]  BY <1>1, <2>2
    <3>. QED  BY <2>1, <2>2, <3>1, <1>4
  <2>3. CASE q = <<>>
    <3>1. Len(q) = 0  BY <2>3, EmptySeq
    <3>. QED  BY <2>1, <2>3, <3>1, <1>5
  <2>. QED  BY <2>2, <2>3
<1>. QED  BY <1>2, <1>3, <1>4, <1>5, <1>6 DEF q

\* No commit is on its way to the running task of w.
Unasked(w) == \A m \in working : m.ws = w => ~m.asked

\* What Finish does, workspace by workspace.
LEMMA FinishEffect ==
  ASSUME TypeOK, NEW w \in Workspace, Running(w),
         NEW docs, NEW late, NEW screen \in [Workspace -> (SUBSET Tab) \cup {None}],
         Finish(w, docs, late, screen)
  PROVE  /\ queue'[w] = Tail(queue[w]) /\ step'[w] = "start" /\ answer'[w] = None
         /\ documents' = docs
         /\ \A v \in Workspace \ {w} :
              /\ queue'[v] = queue[v] /\ step'[v] = step[v] /\ answer'[v] = answer[v]
              /\ view'[v] = screen[v] /\ (v \in deferred' <=> v \in late)
              /\ v \in shaken <=> v \in shaken'
         /\ Len(queue[w]) = 1 =>
              view'[w] = IF w \in late /\ docs[w] # None THEN Content(w, docs[w]) ELSE screen[w]
         /\ Len(queue[w]) # 1 =>
              /\ view' = screen /\ deferred' = late /\ (w \in shaken => w \in shaken')
              /\ screen # view => w \in shaken'
<1> DEFINE content == Content(w, docs[w])
<1>1. /\ queue \in [Workspace -> Seq(Operation)] /\ step \in [Workspace -> Steps]
      /\ answer \in [Workspace -> Nat \cup {None, Conflict, Failed}]
  BY DEF TypeOK
<1>2. /\ queue' = [queue EXCEPT ![w] = Tail(@)] /\ step' = [step EXCEPT ![w] = "start"]
      /\ answer' = [answer EXCEPT ![w] = None] /\ documents' = docs
      /\ deferred' = IF Len(queue[w]) = 1 THEN late \ {w} ELSE late
      /\ view' = IF Len(queue[w]) = 1 /\ w \in late /\ docs[w] # None
                 THEN [screen EXCEPT ![w] = content] ELSE screen
      /\ shaken' = IF Len(queue[w]) = 1 THEN shaken \ {w}
                   ELSE shaken \cup (IF screen # view THEN {w} ELSE {})
  BY DEF Finish
<1> HIDE DEF content
<1>3. /\ queue'[w] = Tail(queue[w]) /\ step'[w] = "start" /\ answer'[w] = None
      /\ \A v \in Workspace \ {w} :
           queue'[v] = queue[v] /\ step'[v] = step[v] /\ answer'[v] = answer[v]
  BY <1>1, <1>2
<1>4. \A v \in Workspace \ {w} : view'[v] = screen[v]  BY <1>2
<1>5. \A v \in Workspace \ {w} : (v \in deferred' <=> v \in late) /\ (v \in shaken <=> v \in shaken')
  BY <1>2
<1>6. Len(queue[w]) = 1 =>
        view'[w] = IF w \in late /\ docs[w] # None THEN content ELSE screen[w]
  BY <1>2
<1>7. Len(queue[w]) # 1 =>
              /\ view' = screen /\ deferred' = late /\ (w \in shaken => w \in shaken')
              /\ screen # view => w \in shaken'
  BY <1>2
<1>. QED  BY <1>2, <1>3, <1>4, <1>5, <1>6, <1>7 DEF content

\* What a step of the running task does to the tasks.
TaskMoves(w) ==
  /\ Running(w) /\ Unasked(w) /\ link # "import"
  /\ UNCHANGED <<initial, history, past, deleted, working, link, snapshot, events>>
  /\ \A v \in Workspace \ {w} : queue'[v] = queue[v] /\ step'[v] = step[v] /\ answer'[v] = answer[v]
  /\ answer'[w] = None
  /\ \/ queue'[w] = Tail(queue[w]) /\ step'[w] = "start"
     \/ /\ queue'[w] = queue[w] /\ step'[w] # "start"
        /\ \/ step[w] = "start" /\ (Head(queue[w]).op = "create" => step'[w] = "apply")
           \/ step[w] \in {"control", "control again", "get", "get again"}
           \/ answer[w] = Conflict

LEMMA FailEffect ==
  ASSUME Typed, NEW w \in Workspace, Running(w), Unasked(w), link # "import", Fail(w)
  PROVE  TaskMoves(w)
<1> DEFINE screen == IF Head(queue[w]).op = "create" THEN [view EXCEPT ![w] = None]
                     ELSE RolledBack(w)
<1>1. screen \in [Workspace -> (SUBSET Tab) \cup {None}]
  BY RolledBackType DEF TypeOK, Typed
<1>2. Finish(w, documents, deferred, screen)  BY DEF Fail
<1>3. UNCHANGED <<initial, history, past, deleted, working, link, snapshot, events>>
  BY DEF Fail, agentVars, wireVars
<1> HIDE DEF screen
<1>4. /\ queue'[w] = Tail(queue[w]) /\ step'[w] = "start" /\ answer'[w] = None
      /\ \A v \in Workspace \ {w} : queue'[v] = queue[v] /\ step'[v] = step[v] /\ answer'[v] = answer[v]
  BY <1>1, <1>2, FinishEffect DEF Typed
<1>. QED  BY <1>3, <1>4 DEF TaskMoves

LEMMA AdvanceEffect ==
  ASSUME Typed, NEW w \in Workspace, NEW next \in Steps, Advance(w, next)
  PROVE  /\ UNCHANGED <<initial, history, past, deleted, working, link, snapshot, events, documents, deferred,
                        view, queue, shaken, edits, others, drops>>
         /\ step'[w] = next /\ answer'[w] = None
         /\ \A v \in Workspace \ {w} : step'[v] = step[v] /\ answer'[v] = answer[v]
  BY DEF Typed, TypeOK, Advance, agentVars, wireVars, shownVars, boundVars

LEMMA TaskEffect ==
  ASSUME SyncInv, NEW w \in Workspace, Task(w)
  PROVE  TaskMoves(w)
<1>1. Running(w)
  <2>1. step[w] # "start" => Running(w)  BY DEF SyncInv, TasksStand, Running
  <2>. QED  BY <2>1 DEF Task, Begin, ControlGranted, ControlRefused, OnDocument,
                        OnConflict, OnRefused, OnApplied, Applying
<1>2. Unasked(w)
  <2> SUFFICES ASSUME NEW m \in working, m.ws = w, m.asked PROVE FALSE  BY DEF Unasked
  <2>1. Applying(w) /\ answer[w] = None /\ link # "down"
    BY DEF SyncInv, CommitsAwaited
  <2>. QED
    BY <2>1, ConstantsAssumption
       DEF Applying, Task, Begin, ControlGranted, ControlRefused, OnDocument, OnConflict,
           OnRefused, OnApplied
<1>3. Typed /\ link # "import"
  <2>1. link = "import" => step[w] = "start"  BY DEF SyncInv, CreatedOnce
  <2>2. step[w] = "start" => link # "import"
    BY DEF Task, Begin, Started, ControlGranted, ControlRefused, OnDocument, OnConflict,
           OnRefused, OnApplied, Applying
  <2>. QED  BY <2>1, <2>2 DEF SyncInv, Typed
<1>4. CASE Fail(w)  BY <1>1, <1>2, <1>3, <1>4, FailEffect
<1>5. CASE Begin(w) /\ ~Fail(w)
  <2>1. PICK next \in Steps : /\ Advance(w, next) /\ next # "start"
                              /\ Head(queue[w]).op = "create" => next = "apply"
    BY <1>5 DEF Begin, Steps
  <2>. QED  BY <1>1, <1>2, <1>3, <1>5, <2>1, AdvanceEffect DEF TaskMoves, Begin
<1>6. CASE ControlGranted(w)
  <2>1. PICK next \in Steps : Advance(w, next) /\ next # "start"  BY <1>6 DEF ControlGranted, Steps
  <2>. QED  BY <1>1, <1>2, <1>3, <1>6, <2>1, AdvanceEffect DEF TaskMoves, ControlGranted
<1>7. CASE OnConflict(w) /\ ~Fail(w)
  <2>1. Advance(w, "get again") /\ "get again" \in Steps  BY <1>7 DEF OnConflict, Steps
  <2>. QED  BY <1>1, <1>2, <1>3, <1>7, <2>1, AdvanceEffect DEF TaskMoves, OnConflict
<1>8. CASE OnDocument(w)
  <2>1. /\ step'[w] # "start" /\ answer'[w] = None
        /\ \A v \in Workspace \ {w} : step'[v] = step[v] /\ answer'[v] = answer[v]
    BY <1>8 DEF OnDocument, SyncInv, TypeOK
  <2>. QED  BY <1>1, <1>2, <1>3, <1>8, <2>1 DEF TaskMoves, OnDocument, agentVars, wireVars
<1>9. CASE OnApplied(w)
  <2>1. view \in [Workspace -> (SUBSET Tab) \cup {None}]
        /\ [view EXCEPT ![w] = None] \in [Workspace -> (SUBSET Tab) \cup {None}]
    BY DEF SyncInv, TypeOK
  <2>2. \/ Finish(w, [documents EXCEPT ![w] = None], deferred, [view EXCEPT ![w] = None])
        \/ Finish(w, [documents EXCEPT ![w] = answer[w]], deferred \cup {w}, view)
        \/ Finish(w, documents, deferred, view)
    BY <1>9 DEF OnApplied
  <2>3. /\ queue'[w] = Tail(queue[w]) /\ step'[w] = "start" /\ answer'[w] = None
        /\ \A v \in Workspace \ {w} : queue'[v] = queue[v] /\ step'[v] = step[v] /\ answer'[v] = answer[v]
    <3>1. ASSUME NEW docs, NEW late, NEW screen \in [Workspace -> (SUBSET Tab) \cup {None}],
                 Finish(w, docs, late, screen)
          PROVE  /\ queue'[w] = Tail(queue[w]) /\ step'[w] = "start" /\ answer'[w] = None
                 /\ \A v \in Workspace \ {w} : queue'[v] = queue[v] /\ step'[v] = step[v] /\ answer'[v] = answer[v]
      BY <1>1, <1>3, <3>1, FinishEffect DEF Typed
    <3>. QED  BY <2>1, <2>2, <3>1
  <2>4. UNCHANGED <<initial, history, past, deleted, working, link, snapshot, events>>
    BY <1>9 DEF OnApplied, agentVars, wireVars
  <2>. QED  BY <1>1, <1>2, <1>3, <2>3, <2>4 DEF TaskMoves
<1>. QED
  BY <1>4, <1>5, <1>6, <1>7, <1>8, <1>9 DEF Task, ControlRefused, OnRefused

\* The running task moves, and every task stands where it should.
LEMMA TaskKeeps ==
  ASSUME SyncInv, NEW w \in Workspace, TaskMoves(w)
  PROVE  TasksStand' /\ CommitsAwaited' /\ CreatedOnce'
<1>1. TasksStand'
  BY ZenonT(60), ConstantsAssumption, QueueEnds DEF SyncInv, TasksStand, TaskMoves, Running, Applying
<1>2. CommitsAwaited'
  <2>1. \A m \in working : m.ws \in Workspace /\ (m.asked => m.ws # w)
    BY DEF SyncInv, TypeOK, TaskMoves, Unasked
  <2>2. working' = working /\ link' = link
        /\ \A v \in Workspace \ {w} : queue'[v] = queue[v] /\ step'[v] = step[v] /\ answer'[v] = answer[v]
    BY DEF TaskMoves
  <2>. QED  BY ZenonT(60), <2>1, <2>2 DEF SyncInv, CommitsAwaited, Applying
<1>3. CreatedOnce'
  <2> SUFFICES ASSUME NEW v \in Workspace
               PROVE  /\ link' = "import" => step'[v] = "start"
                      /\ \A i \in 2 .. Len(queue'[v]) : queue'[v][i].op # "create"
                      /\ Running(v)' /\ Head(queue'[v]).op = "create" =>
                           /\ step'[v] \in {"start", "apply"} /\ answer'[v] \in Nat \cup {None}
                           /\ v \notin initial'
                           /\ history'[v] # <<>> =>
                                /\ step'[v] = "apply"
                                /\ \/ answer'[v] # None \/ link' = "down"
                                   \/ \E m \in working' : m.ws = v /\ m.asked
    BY DEF CreatedOnce
  <2>1. CASE v # w
    <3>1. /\ UNCHANGED <<initial, history, working, link>>
          /\ queue'[v] = queue[v] /\ step'[v] = step[v] /\ answer'[v] = answer[v]
      BY <2>1 DEF TaskMoves
    <3>. QED  BY <3>1 DEF SyncInv, CreatedOnce, Running
  <2>2. CASE v = w /\ queue'[w] = Tail(queue[w])
    <3>1. Running(w) /\ link' = link /\ link # "import"  BY <2>2 DEF TaskMoves
    <3>2. Tail(queue[w]) \in Seq(Operation) /\ Len(Tail(queue[w])) = Len(queue[w]) - 1
          /\ Len(queue[w]) \in Nat \ {0}
          /\ \A i \in 1 .. Len(Tail(queue[w])) : Tail(queue[w])[i] = queue[w][i + 1]
      BY <3>1, QueueEnds DEF SyncInv
    <3>3. \A i \in 1 .. Len(queue'[w]) : queue'[w][i].op # "create"
      BY <2>2, <3>2 DEF SyncInv, CreatedOnce
    <3>4. Running(w)' => Head(queue'[w]) = queue'[w][1] /\ 1 \in 1 .. Len(queue'[w])
      BY <2>2, <3>2 DEF Running
    <3>5. Len(queue'[w]) \in Nat  BY <2>2, <3>2
    <3>6. \A i \in 2 .. Len(queue'[w]) : i \in 1 .. Len(queue'[w])  BY <3>5
    <3>. QED  BY <2>2, <3>1, <3>3, <3>4, <3>6
  <2>3. CASE v = w /\ queue'[w] = queue[w]
    <3>1. /\ Running(w) /\ link' = link /\ link # "import" /\ history' = history
          /\ initial' = initial /\ answer'[w] = None
      BY DEF TaskMoves
    <3>2. CASE Head(queue[w]).op = "create"
      <4>1. step[w] \in {"start", "apply"} /\ answer[w] # Conflict
        BY <3>1, <3>2, ConstantsAssumption DEF SyncInv, CreatedOnce
      <4>2. queue'[w] # Tail(queue[w])
        <5> DEFINE n == Len(queue[w])
        <5>1. Len(Tail(queue[w])) = n - 1 /\ n \in Nat  BY <3>1, QueueEnds DEF SyncInv
        <5>2. queue'[w] = Tail(queue[w]) => Len(queue'[w]) = n - 1  BY <5>1
        <5>3. Len(queue'[w]) = n  BY <2>3
        <5> HIDE DEF n
        <5>. QED  BY <5>1, <5>2, <5>3
      <4>3. step[w] = "start" /\ step'[w] = "apply"  BY <3>2, <4>1, <4>2 DEF TaskMoves
      <4>. QED  BY <2>3, <3>1, <3>2, <4>3 DEF SyncInv, CreatedOnce, Running
    <3>. QED  BY <2>3, <3>1, <3>2 DEF SyncInv, CreatedOnce, Running
  <2>. QED  BY <2>1, <2>2, <2>3 DEF TaskMoves
<1>. QED  BY <1>1, <1>2, <1>3

\* What an edit of the user does to the queues.
UserMoves(w) ==
  /\ UNCHANGED <<initial, history, past, deleted, working, link, snapshot, events, documents, deferred,
                 step, base, answer, shaken>>
  /\ \E op \in Operation :
       /\ queue'[w] = Append(queue[w], op)
       /\ op.op = "create" => ~Running(w) /\ history[w] = <<>> /\ w \notin initial
  /\ \A v \in Workspace \ {w} : queue'[v] = queue[v] /\ view'[v] = view[v]

LEMMA UserEffect ==
  ASSUME TypeOK, NEW w \in Workspace, User(w)
  PROVE  UserMoves(w)
<1>1. ASSUME NEW op \in Operation, NEW screen, Enqueue(w, op, screen),
             op.op = "create" => ~Running(w) /\ history[w] = <<>> /\ w \notin initial
      PROVE  UserMoves(w)
  <2>1. /\ queue'[w] = Append(queue[w], op)
        /\ \A v \in Workspace \ {w} : queue'[v] = queue[v] /\ view'[v] = view[v]
    BY <1>1 DEF Enqueue, TypeOK
  <2>. QED  BY <1>1, <2>1 DEF Enqueue, UserMoves, agentVars, wireVars
<1>2. CASE Create(w)  BY <1>1, <1>2 DEF Create, Operation
<1>3. CASE Delete(w)  BY <1>1, <1>3 DEF Delete, Operation
<1>4. ASSUME NEW t \in Tab, AddTab(w, t) PROVE UserMoves(w)  BY <1>1, <1>4 DEF AddTab, Operation
<1>5. ASSUME NEW t \in Tab, RemoveTab(w, t) PROVE UserMoves(w)  BY <1>1, <1>5 DEF RemoveTab, Operation
<1>. QED  BY <1>2, <1>3, <1>4, <1>5 DEF User

LEMMA UserKeeps ==
  ASSUME SyncInv, NEW w \in Workspace, UserMoves(w)
  PROVE  TasksStand' /\ CommitsAwaited' /\ CreatedOnce'
<1>1. PICK op \in Operation : /\ queue'[w] = Append(queue[w], op)
                              /\ op.op = "create" =>
                                   ~Running(w) /\ history[w] = <<>> /\ w \notin initial
  BY DEF UserMoves
<1>2. /\ queue'[w] # <<>> /\ Len(queue'[w]) = Len(queue[w]) + 1 /\ Len(queue[w]) \in Nat
      /\ \A i \in 1 .. Len(queue[w]) : queue'[w][i] = queue[w][i]
      /\ queue'[w][Len(queue'[w])] = op
      /\ Head(queue'[w]) = IF Running(w) THEN Head(queue[w]) ELSE op
  BY <1>1, QueueAppended DEF SyncInv
<1>3. UNCHANGED <<initial, history, working, link, step, answer>>
      /\ \A v \in Workspace \ {w} : queue'[v] = queue[v]
  BY DEF UserMoves
<1>4. \A v \in Workspace : step[v] # "start" =>
        Running(v) /\ Running(v)' /\ Head(queue'[v]) = Head(queue[v])
  BY <1>2, <1>3 DEF SyncInv, TasksStand, Running
<1>5. TasksStand'
  <2>1. ASSUME NEW v \in Workspace PROVE queue'[v] = <<>> => step'[v] = "start"
    BY <1>2, <1>3 DEF SyncInv, TasksStand
  <2>2. ASSUME NEW v \in Workspace PROVE step'[v] = "start" => answer'[v] = None
    BY <1>3 DEF SyncInv, TasksStand
  <2>3. ASSUME NEW v \in Workspace, answer'[v] = 0
        PROVE  Applying(v)' /\ Head(queue'[v]).op = "delete"
    BY <1>3, <1>4, <2>3 DEF SyncInv, TasksStand, Applying
  <2>4. ASSUME NEW v \in Workspace, Applying(v)', answer'[v] \in Nat, Head(queue'[v]).op = "delete"
        PROVE  answer'[v] = 0
    BY <1>3, <1>4, <2>4 DEF SyncInv, TasksStand, Applying
  <2>. QED  BY <2>1, <2>2, <2>3, <2>4 DEF TasksStand
<1>6. CommitsAwaited'
  <2>1. \A m \in working : m.ws \in Workspace  BY DEF SyncInv, TypeOK
  <2>. QED  BY <1>3, <1>4, <2>1 DEF SyncInv, CommitsAwaited, Applying
<1>7. CreatedOnce'
  <2>1. ASSUME NEW v \in Workspace, NEW i \in 2 .. Len(queue'[v]) PROVE queue'[v][i].op # "create"
    <3>1. CASE v # w  BY <1>3, <2>1, <3>1 DEF SyncInv, CreatedOnce
    <3>2. CASE v = w /\ i \in 1 .. Len(queue[w])
      BY <1>2, <3>2, <2>1 DEF SyncInv, CreatedOnce
    <3>3. CASE v = w /\ i \notin 1 .. Len(queue[w])
      <4>1. i = Len(queue[w]) + 1 /\ Len(queue[w]) # 0  BY <1>2, <2>1, <3>3
      <4>2. Running(w)  BY <4>1, EmptySeq DEF Running
      <4>. QED  BY <1>1, <1>2, <3>3, <4>1, <4>2
    <3>. QED  BY <3>1, <3>2, <3>3
  <2>2. ASSUME NEW v \in Workspace, Running(v)', Head(queue'[v]).op = "create"
        PROVE  /\ step'[v] \in {"start", "apply"} /\ answer'[v] \in Nat \cup {None}
               /\ v \notin initial'
               /\ history'[v] # <<>> =>
                    /\ step'[v] = "apply"
                    /\ \/ answer'[v] # None \/ link' = "down"
                       \/ \E m \in working' : m.ws = v /\ m.asked
    <3>1. CASE Running(v)
      <4>1. Head(queue'[v]) = Head(queue[v])  BY <1>2, <1>3, <3>1
      <4>. QED  BY <1>3, <2>2, <3>1, <4>1 DEF SyncInv, CreatedOnce
    <3>2. CASE ~Running(v)
      <4>1. v = w /\ history[w] = <<>> /\ w \notin initial  BY <1>1, <1>2, <1>3, <2>2, <3>2 DEF Running
      <4>2. step[w] = "start" /\ answer[w] = None
        BY <3>2, <4>1 DEF SyncInv, TasksStand, Running
      <4>. QED  BY <1>3, <4>1, <4>2
    <3>. QED  BY <3>1, <3>2
  <2>3. ASSUME NEW v \in Workspace PROVE link' = "import" => step'[v] = "start"
    BY <1>3 DEF SyncInv, CreatedOnce
  <2>. QED  BY <2>1, <2>2, <2>3 DEF CreatedOnce
<1>. QED  BY <1>5, <1>6, <1>7

\* What a new version does, workspace by workspace.
CommitMoves(w, tabs, asked) ==
  /\ Len(history'[w]) = Len(history[w]) + 1
  /\ \A r \in 1 .. Len(history[w]) : history'[w][r] = history[w][r]
  /\ history'[w][Len(history[w]) + 1] = tabs
  /\ \A v \in Workspace \ {w} : history'[v] = history[v]
  /\ working' = working \cup {[ws |-> w, rev |-> Len(history[w]) + 1, asked |-> asked]}
  /\ UNCHANGED <<initial, past, deleted>>

LEMMA CommitEffect ==
  ASSUME Typed, NEW w \in Workspace, NEW tabs \in SUBSET Tab, NEW asked \in BOOLEAN,
         CommitVersion(w, tabs, asked)
  PROVE  CommitMoves(w, tabs, asked)
  BY CommitVersionType DEF CommitVersion, CommitMoves

Toggled(w, tabs) ==
  LET old == Content(w, Len(history[w])) IN
  \E t \in Tab : \/ t \notin old /\ tabs = old \cup {t}
                 \/ t \in old /\ tabs = old \ {t}

\* What the answer to the request of w does.
AnswerMoves(w) ==
  /\ Requested(w) /\ Running(w)
  /\ UNCHANGED <<link, snapshot, events, documents, deferred, view, queue, step, base, shaken>>
  /\ \/ /\ UNCHANGED agentVars
        /\ answer'[w] \in Nat \cup {Failed, Conflict}
        /\ answer'[w] \in Nat => /\ step[w] \in {"get", "get again"} /\ Present(w)
                                 /\ answer'[w] = Len(history[w])
        /\ Applying(w) => Head(queue[w]).op # "create"
        /\ \A v \in Workspace \ {w} : answer'[v] = answer[v]
     \/ /\ answer' = answer /\ Applying(w) /\ Head(queue[w]).op # "delete"
        /\ \E tabs \in SUBSET Tab :
             /\ CommitMoves(w, tabs, TRUE)
             /\ \/ Head(queue[w]).op = "create" /\ tabs = {}
                \/ Present(w) /\ Toggled(w, tabs)
     \/ /\ answer' = answer /\ Applying(w) /\ Head(queue[w]).op = "delete"
        /\ Present(w) /\ CommitRemoval(w, TRUE)

LEMMA AnswerEffect ==
  ASSUME SyncInv, NEW w \in Workspace, Answering(w)
  PROVE  AnswerMoves(w)
<1>1. Requested(w) /\ Running(w)
      /\ UNCHANGED <<link, snapshot, events, documents, deferred, view, queue, step, base, shaken>>
  <2>1. Requested(w)  BY DEF Answering, Serve, LeaseLost
  <2>2. Running(w)  BY <2>1 DEF Requested, SyncInv, TasksStand, Running
  <2>. QED  BY <2>1, <2>2 DEF Answering, Serve, LeaseLost, wireVars, shownVars
<1>2. ASSUME NEW r, Say(w, r)
      PROVE  UNCHANGED agentVars /\ answer'[w] = r /\ \A v \in Workspace \ {w} : answer'[v] = answer[v]
  BY <1>2 DEF Say, SyncInv, TypeOK
<1>3. CASE LeaseLost(w)
  BY <1>1, <1>2, <1>3, ConstantsAssumption DEF LeaseLost, AnswerMoves
<1>4. CASE Serve(w)
  <2> DEFINE op == Head(queue[w])
             r == Len(history[w])
             tabs == Applied(op, Content(w, r))
  <2>1. op \in Operation /\ r \in Nat /\ Typed
    BY <1>1, QueueEnds, HistoryType DEF SyncInv, Typed
  <2>0. \/ step[w] \in {"get", "get again"} /\ (Say(w, Failed) \/ (Present(w) /\ Say(w, r)))
        \/ Applying(w) /\ op.op = "create" /\ CommitVersion(w, {}, TRUE) /\ UNCHANGED answer
        \/ /\ Applying(w) /\ op.op = "delete" /\ Present(w)
           /\ CommitRemoval(w, TRUE) /\ UNCHANGED answer
        \/ /\ Applying(w) /\ op.op \notin {"create", "delete"} /\ Present(w)
           /\ tabs # None /\ CommitVersion(w, tabs, TRUE) /\ UNCHANGED answer
        \/ Applying(w) /\ op.op # "create" /\ (Say(w, Failed) \/ Say(w, Conflict))
    <3> HIDE DEF op, r, tabs
    <3>1. CASE ServeGet(w)  BY <3>1 DEF ServeGet, r
    <3>2. CASE ServeCreate(w)  BY <3>2 DEF ServeCreate, op
    <3>3. CASE ServeApply(w)  BY <3>3 DEF ServeApply, op, r, tabs
    <3>4. CASE ServeDelete(w)  BY <3>4 DEF ServeDelete, op
    <3>. QED  BY <1>4, <3>1, <3>2, <3>3, <3>4 DEF Serve
  <2>3. CASE step[w] \in {"get", "get again"} /\ (Say(w, Failed) \/ (Present(w) /\ Say(w, r)))
    BY <1>1, <1>2, <2>1, <2>3, ConstantsAssumption DEF AnswerMoves, Applying
  <2>4. CASE Applying(w) /\ op.op = "create" /\ CommitVersion(w, {}, TRUE) /\ UNCHANGED answer
    <3>2. CommitMoves(w, {}, TRUE)  BY <2>1, <2>4, CommitEffect
    <3>. QED  BY <1>1, <2>4, <3>2 DEF AnswerMoves
  <2>5. CASE /\ Applying(w) /\ op.op = "delete" /\ Present(w)
             /\ CommitRemoval(w, TRUE) /\ UNCHANGED answer
    BY <1>1, <2>5 DEF AnswerMoves
  <2>6. CASE /\ Applying(w) /\ op.op \notin {"create", "delete"} /\ Present(w)
             /\ tabs # None /\ CommitVersion(w, tabs, TRUE) /\ UNCHANGED answer
    <3>1. Content(w, r) \in SUBSET Tab  BY <2>1, ContentType DEF Typed
    <3>2. tabs \in SUBSET Tab /\ Toggled(w, tabs)
      BY <2>1, <2>6, <3>1, AppliedChange DEF Toggled
    <3>3. CommitMoves(w, tabs, TRUE)  BY <2>1, <2>6, <3>2, CommitEffect
    <3> HIDE DEF tabs
    <3>. QED  BY <1>1, <2>6, <3>2, <3>3 DEF AnswerMoves
  <2>7. CASE Applying(w) /\ op.op # "create" /\ (Say(w, Failed) \/ Say(w, Conflict))
    BY <1>1, <1>2, <2>7, ConstantsAssumption DEF AnswerMoves
  <2>. QED  BY <2>0, <2>3, <2>4, <2>5, <2>6, <2>7
<1>. QED  BY <1>3, <1>4 DEF Answering

LEMMA AnswerKeeps ==
  ASSUME SyncInv, NEW w \in Workspace, AnswerMoves(w)
  PROVE  TasksStand' /\ CommitsAwaited' /\ CreatedOnce'
<1>1. /\ Running(w) /\ answer[w] = None /\ link # "down" /\ Unasked(w)
      /\ step[w] # "start" /\ UNCHANGED <<link, queue, step>>
  BY DEF AnswerMoves, Requested, Unasked
<1>2. /\ \A m \in working : m.ws \in Workspace /\ m.asked \in BOOLEAN /\ m.rev \in Nat
      /\ \A v \in Workspace : Len(history[v]) \in Nat
  BY HistoryType DEF SyncInv, TypeOK
<1>3. CASE /\ UNCHANGED agentVars
           /\ answer'[w] \in Nat \cup {Failed, Conflict}
           /\ answer'[w] \in Nat => /\ step[w] \in {"get", "get again"} /\ Present(w)
                                    /\ answer'[w] = Len(history[w])
           /\ Applying(w) => Head(queue[w]).op # "create"
           /\ \A v \in Workspace \ {w} : answer'[v] = answer[v]
  <2>1. UNCHANGED <<initial, history, past, deleted, working>>  BY <1>3 DEF agentVars
  <2>2. answer'[w] # 0
    <3>1. Present(w) => Len(history[w]) # 0  BY HistoryType, EmptySeq DEF Present, SyncInv
    <3>2. SUFFICES ASSUME answer'[w] = 0 PROVE FALSE  OBVIOUS
    <3>3. answer'[w] \in Nat  BY <3>2
    <3>4. Present(w) /\ answer'[w] = Len(history[w])  BY <1>3, <3>3
    <3>. QED  BY <3>1, <3>2, <3>4
  <2>3. TasksStand'
    BY <1>1, <1>3, <2>2 DEF SyncInv, TasksStand, Applying
  <2>4. CommitsAwaited'
    BY <1>1, <1>2, <1>3, <2>1 DEF SyncInv, CommitsAwaited, Applying, Unasked
  <2>5. CreatedOnce'
    <3>1. ASSUME NEW v \in Workspace, Running(v), Head(queue[v]).op = "create"
          PROVE  v # w
      <4>1. SUFFICES ASSUME v = w PROVE FALSE  OBVIOUS
      <4>2. step[w] \in {"start", "apply"}  BY <3>1, <4>1 DEF SyncInv, CreatedOnce
      <4>. QED  BY <1>1, <1>3, <3>1, <4>1, <4>2 DEF Applying
    <3>. QED  BY ZenonT(60), <1>1, <1>3, <2>1, <3>1 DEF SyncInv, CreatedOnce, Running
  <2>. QED  BY <2>3, <2>4, <2>5
<1>4. ASSUME NEW n, n.ws = w, n.asked, n.rev \in Nat, n.rev = 0 <=> Head(queue[w]).op = "delete",
             working' = working \cup {n}, answer' = answer, Applying(w), initial' = initial,
             \A v \in Workspace \ {w} : history'[v] = history[v]
      PROVE  TasksStand' /\ CommitsAwaited' /\ CreatedOnce'
  <2>1. TasksStand'  BY <1>1, <1>4 DEF SyncInv, TasksStand, Applying
  <2>2. CommitsAwaited'
    <3>1. ASSUME NEW m \in working', m.asked
          PROVE  /\ Applying(m.ws)' /\ answer'[m.ws] = None /\ link' # "down"
                 /\ m.rev = 0 <=> Head(queue'[m.ws]).op = "delete"
      BY <1>1, <1>4, <3>1 DEF SyncInv, CommitsAwaited, Applying
    <3>2. ASSUME NEW m \in working', NEW k \in working', m.asked, k.asked, m.ws = k.ws
          PROVE  m = k
      BY <1>1, <1>4, <3>2 DEF SyncInv, CommitsAwaited, Unasked
    <3>. QED  BY <3>1, <3>2 DEF CommitsAwaited
  <2>3. CreatedOnce'
    <3>1. ASSUME NEW v \in Workspace, Running(v), Head(queue[v]).op = "create"
          PROVE  /\ step[v] \in {"start", "apply"} /\ answer[v] \in Nat \cup {None}
                 /\ v \notin initial
                 /\ history'[v] # <<>> =>
                      /\ step[v] = "apply"
                      /\ \/ answer[v] # None \/ link = "down"
                         \/ \E m \in working' : m.ws = v /\ m.asked
      <4>1. CASE v = w
        <5>1. step[w] = "apply"  BY <1>1, <3>1, <4>1 DEF SyncInv, CreatedOnce
        <5>2. n \in working' /\ n.ws = w /\ n.asked  BY <1>4
        <5>. QED  BY <3>1, <4>1, <5>1, <5>2 DEF SyncInv, CreatedOnce
      <4>2. CASE v # w
        <5>1. history'[v] = history[v]  BY <1>4, <4>2
        <5>2. \A m \in working : m \in working'  BY <1>4
        <5>. QED  BY <3>1, <5>1, <5>2 DEF SyncInv, CreatedOnce
      <4>. QED  BY <4>1, <4>2
    <3>. QED  BY <1>1, <1>4, <3>1 DEF SyncInv, CreatedOnce, Running
  <2>. QED  BY <2>1, <2>2, <2>3
<1>5. ASSUME NEW tabs \in SUBSET Tab, answer' = answer, Applying(w), Head(queue[w]).op # "delete",
             CommitMoves(w, tabs, TRUE)
      PROVE  TasksStand' /\ CommitsAwaited' /\ CreatedOnce'
  <2> DEFINE n == [ws |-> w, rev |-> Len(history[w]) + 1, asked |-> TRUE]
  <2>1. /\ n.ws = w /\ n.asked /\ n.rev \in Nat /\ n.rev # 0  BY <1>2
  <2>2. /\ working' = working \cup {n} /\ initial' = initial
        /\ \A v \in Workspace \ {w} : history'[v] = history[v]
    BY <1>5 DEF CommitMoves
  <2> HIDE DEF n
  <2>. QED  BY <1>4, <1>5, <2>1, <2>2
<1>6. CASE /\ answer' = answer /\ Applying(w) /\ Head(queue[w]).op = "delete"
           /\ CommitRemoval(w, TRUE)
  <2> DEFINE n == [ws |-> w, rev |-> 0, asked |-> TRUE]
  <2>1. working' = working \cup {n} /\ UNCHANGED <<initial, history>>  BY <1>6 DEF CommitRemoval
  <2>2. n.ws = w /\ n.asked /\ n.rev = 0  OBVIOUS
  <2> HIDE DEF n
  <2>. QED  BY <1>4, <1>6, <2>1, <2>2
<1>. QED  BY <1>3, <1>5, <1>6 DEF AnswerMoves

\* What another client's change does.
OtherMoves(w) ==
  /\ Present(w)
  /\ UNCHANGED <<link, snapshot, events, documents, deferred, view, queue, step, base, answer, shaken>>
  /\ \/ \E tabs \in SUBSET Tab : CommitMoves(w, tabs, FALSE) /\ Toggled(w, tabs)
     \/ CommitRemoval(w, FALSE)

LEMMA OthersEffect ==
  ASSUME Typed, NEW w \in Workspace, Others(w)
  PROVE  OtherMoves(w)
<1>1. /\ Present(w)
      /\ UNCHANGED <<link, snapshot, events, documents, deferred, view, queue, step, base, answer, shaken>>
  BY DEF Others, OtherDelete, OtherEdit, Other, wireVars, shownVars, taskVars
<1>2. CASE OtherDelete(w)  BY <1>1, <1>2 DEF OtherDelete, OtherMoves
<1>3. ASSUME NEW t \in Tab, OtherEdit(w, t) PROVE OtherMoves(w)
  <2> DEFINE old == Content(w, Len(history[w]))
             tabs == IF t \in old THEN old \ {t} ELSE old \cup {t}
  <2>1. old \in SUBSET Tab  BY HistoryType, ContentType DEF Typed
  <2>2. tabs \in SUBSET Tab /\ Toggled(w, tabs)  BY <2>1 DEF Toggled
  <2>3. CommitVersion(w, tabs, FALSE)  BY <1>3 DEF OtherEdit
  <2> HIDE DEF tabs
  <2>4. CommitMoves(w, tabs, FALSE)  BY <2>2, <2>3, CommitEffect
  <2>. QED  BY <1>1, <2>2, <2>4 DEF OtherMoves
<1>. QED  BY <1>2, <1>3 DEF Others

\* Commits that nobody waits for, and commits no longer waited for, change
\* nothing for the tasks.
LEMMA UnaskedKeep ==
  ASSUME SyncInv, UNCHANGED <<initial, queue, step, answer>>,
         \/ link' \in {link, "down"}
         \/ link' # "import" /\ (link # "down" \/ \A v \in Workspace : ~Running(v)),
         \A m \in working' : m.asked => m \in working,
         link' # "down" => \A m \in working : m.asked => m \in working',
         link' = "down" => \A m \in working' : ~m.asked,
         \A v \in Workspace : history'[v] = history[v] \/ history[v] # <<>> \/ v \in initial
  PROVE  TasksStand' /\ CommitsAwaited' /\ CreatedOnce'
<1>1. TasksStand'  BY DEF SyncInv, TasksStand, Applying
<1>2. CommitsAwaited'
  BY DEF SyncInv, TypeOK, CommitsAwaited, Applying
<1>3. CreatedOnce'
  BY DEF SyncInv, CreatedOnce, Running
<1>. QED  BY <1>1, <1>2, <1>3

LEMMA OthersKeep ==
  ASSUME SyncInv, NEW w \in Workspace, OtherMoves(w)
  PROVE  TasksStand' /\ CommitsAwaited' /\ CreatedOnce'
<1>1. UNCHANGED <<queue, step, answer, link>> /\ history[w] # <<>>  BY DEF OtherMoves, Present
<1>2. ASSUME NEW n, ~n.asked, working' = working \cup {n},
             initial' = initial, \A v \in Workspace \ {w} : history'[v] = history[v]
      PROVE  TasksStand' /\ CommitsAwaited' /\ CreatedOnce'
  <2>1. \A m \in working' : m.asked => m \in working  BY <1>2
  <2>2. \A m \in working : m.asked => m \in working'  BY <1>2
  <2>3. link' = "down" => \A m \in working' : ~m.asked
    BY <1>1, <1>2 DEF SyncInv, CommitsAwaited
  <2>. QED  BY <1>1, <1>2, <2>1, <2>2, <2>3, UnaskedKeep
<1>3. CASE \E tabs \in SUBSET Tab : CommitMoves(w, tabs, FALSE) /\ Toggled(w, tabs)
  <2> DEFINE n == [ws |-> w, rev |-> Len(history[w]) + 1, asked |-> FALSE]
  <2>1. ~n.asked  OBVIOUS
  <2>2. /\ working' = working \cup {n} /\ initial' = initial
        /\ \A v \in Workspace \ {w} : history'[v] = history[v]
    BY <1>3 DEF CommitMoves
  <2> HIDE DEF n
  <2>. QED  BY <1>2, <2>1, <2>2
<1>4. CASE CommitRemoval(w, FALSE)
  <2> DEFINE n == [ws |-> w, rev |-> 0, asked |-> FALSE]
  <2>1. ~n.asked  OBVIOUS
  <2>2. working' = working \cup {n} /\ UNCHANGED <<initial, history>>  BY <1>4 DEF CommitRemoval
  <2> HIDE DEF n
  <2>. QED  BY <1>2, <2>1, <2>2
<1>. QED  BY <1>3, <1>4 DEF OtherMoves

LEMMA BroadcastKeeps ==
  ASSUME SyncInv, NEW m \in working, Broadcast(m)
  PROVE  TasksStand' /\ CommitsAwaited' /\ CreatedOnce'
<1>1. /\ m.ws \in Workspace /\ m.rev \in Nat /\ m.asked \in BOOLEAN
      /\ UNCHANGED <<initial, history, link, queue, step>> /\ working' = working \ {m}
  BY DEF SyncInv, TypeOK, Broadcast
<1>2. CASE ~m.asked
  <2>1. answer' = answer  BY <1>2 DEF Broadcast
  <2>2. \A n \in working' : n.asked => n \in working  BY <1>1
  <2>3. \A n \in working : n.asked => n \in working'  BY <1>1, <1>2
  <2>4. link' = "down" => \A n \in working' : ~n.asked
    BY <1>1 DEF SyncInv, CommitsAwaited
  <2>. QED  BY <1>1, <2>1, <2>2, <2>3, <2>4, UnaskedKeep
<1>3. CASE m.asked
  <2>1. /\ answer'[m.ws] = m.rev
        /\ \A v \in Workspace \ {m.ws} : answer'[v] = answer[v]
    BY <1>1, <1>3 DEF Broadcast, SyncInv, TypeOK
  <2>2. /\ Applying(m.ws) /\ (m.rev = 0 <=> Head(queue[m.ws]).op = "delete")
        /\ \A n \in working' : n.asked => n.ws # m.ws
    BY <1>1, <1>3 DEF SyncInv, CommitsAwaited
  <2>3. TasksStand'
    BY <1>1, <2>1, <2>2 DEF SyncInv, TasksStand, Applying
  <2>4. \A n \in working : n.ws \in Workspace  BY DEF SyncInv, TypeOK
  <2>5. CommitsAwaited'
    BY <1>1, <2>1, <2>2, <2>4 DEF SyncInv, CommitsAwaited, Applying
  <2>6. CreatedOnce'
    <3>1. ASSUME NEW v \in Workspace, Running(v), Head(queue[v]).op = "create"
          PROVE  /\ step[v] \in {"start", "apply"} /\ answer'[v] \in Nat \cup {None}
                 /\ v \notin initial
                 /\ history[v] # <<>> =>
                      /\ step[v] = "apply"
                      /\ \/ answer'[v] # None \/ link = "down"
                         \/ \E n \in working' : n.ws = v /\ n.asked
      <4>1. CASE v = m.ws
        <5>1. step[v] = "apply"  BY <2>2, <3>1, <4>1 DEF SyncInv, CreatedOnce, Applying
        <5>2. answer'[v] \in Nat /\ answer'[v] # None  BY <1>1, <2>1, <4>1, ConstantsAssumption
        <5>. QED  BY <3>1, <5>1, <5>2 DEF SyncInv, CreatedOnce
      <4>2. CASE v # m.ws
        <5>1. answer'[v] = answer[v]  BY <2>1, <4>2
        <5>2. \A n \in working : n.ws = v => n \in working'  BY <1>1, <4>2
        <5>. QED  BY <3>1, <5>1, <5>2 DEF SyncInv, CreatedOnce
      <4>. QED  BY <4>1, <4>2
    <3>. QED  BY <1>1, <3>1 DEF SyncInv, CreatedOnce, Running
  <2>. QED  BY <2>3, <2>5, <2>6
<1>. QED  BY <1>1, <1>2, <1>3

LEMMA WireKeeps ==
  ASSUME SyncInv, OnEvent \/ Connecting \/ Drop \/ UNCHANGED vars
  PROVE  TasksStand' /\ CommitsAwaited' /\ CreatedOnce'
<1>0. link = "down" => \A m \in working : ~m.asked  BY DEF SyncInv, CommitsAwaited
<1>1. CASE OnEvent
  BY <1>0, <1>1, UnaskedKeep DEF OnEvent, agentVars, taskVars
<1>2. CASE ServeImport
  <2>1. UNCHANGED <<initial, queue, step, answer, link>> /\ link = "import"
    BY <1>2 DEF ServeImport, taskVars
  <2>2. \A v \in Workspace : history'[v] = history[v] \/ v \in initial
    BY <1>2, ImportCommits DEF SyncInv, Typed, Imported, Untouched
  <2>3. working' = working \cup {[ws |-> w, rev |-> snapshot'[w], asked |-> FALSE] :
                      w \in {v \in Workspace : snapshot'[v] # 0}}
    BY <1>2 DEF ServeImport
  <2>4. \A m \in working' : m.asked => m \in working  BY <2>3
  <2>5. \A m \in working : m \in working'  BY <2>3
  <2>. QED  BY <2>1, <2>2, <2>4, <2>5, UnaskedKeep
<1>3. CASE ServeList
  BY <1>0, <1>3, UnaskedKeep DEF ServeList, agentVars, taskVars
<1>4. CASE OnList
  <2>1. link # "down" /\ link' = "up" /\ UNCHANGED <<initial, history, working, queue, step, answer>>
    BY <1>4 DEF OnList, agentVars, taskVars, SyncInv, Listing
  <2>. QED  BY <2>1, UnaskedKeep
<1>5. CASE Reconnect
  BY <1>0, <1>5, UnaskedKeep DEF Reconnect, agentVars, taskVars
<1>6. CASE Drop
  <2>1. \A m \in working' : ~m.asked
    <3>1. \A m \in working : ~[m EXCEPT !.asked = FALSE].asked  BY DEF SyncInv, TypeOK
    <3>. QED  BY <1>6, <3>1 DEF Drop
  <2>. QED  BY <1>6, <2>1, UnaskedKeep DEF Drop, taskVars
<1>7. CASE UNCHANGED vars
  BY <1>0, <1>7, UnaskedKeep DEF vars, agentVars, wireVars, taskVars
<1>. QED  BY <1>1, <1>2, <1>3, <1>4, <1>5, <1>6, <1>7 DEF Connecting

LEMMA ListingKept ==
  ASSUME SyncInv, [Next]_vars
  PROVE  Listing'
<1>1. CASE UNCHANGED <<link, snapshot, past>>  BY <1>1 DEF SyncInv, Listing
<1>2. ASSUME NEW w \in Workspace, User(w) \/ Task(w) \/ Answering(w) \/ Others(w)
      PROVE  UNCHANGED <<link, snapshot, past>>
  <2>1. CASE User(w)  BY <2>1, UserEffect DEF SyncInv, UserMoves
  <2>2. CASE Task(w)  BY <2>2, TaskEffect DEF TaskMoves
  <2>3. CASE Answering(w)
    BY <2>3, AnswerEffect DEF AnswerMoves, CommitMoves, CommitRemoval, agentVars
  <2>4. CASE Others(w)
    BY <2>4, OthersEffect DEF SyncInv, Typed, OtherMoves, CommitMoves, CommitRemoval
  <2>. QED  BY <1>2, <2>1, <2>2, <2>3, <2>4
<1>3. ASSUME NEW m \in working, Broadcast(m) PROVE UNCHANGED <<link, snapshot, past>>
  BY <1>3 DEF Broadcast
<1>4. CASE OnEvent  BY <1>1, <1>4 DEF OnEvent, agentVars
<1>5. CASE ServeImport
  <2>1. snapshot' = [w \in Workspace |-> IF w \in deleted' THEN 0 ELSE Len(history'[w])]
    BY <1>5 DEF ServeImport
  <2>2. \A w \in Workspace : Len(history'[w]) \in Nat
    BY <1>5, ImportCommits DEF SyncInv, Typed
  <2>3. snapshot' \in [Workspace -> Nat]  BY <2>1, <2>2
  <2>. QED  BY <1>5, <2>3, ConstantsAssumption DEF Listing, ServeImport
<1>6. CASE ServeList \/ OnList \/ Reconnect \/ Drop
  BY <1>6 DEF ServeList, OnList, Reconnect, Drop, SyncInv, Listing
<1>. QED  BY <1>1, <1>2, <1>3, <1>4, <1>5, <1>6 DEF Next, Connecting, vars, wireVars, agentVars

LEMMA InitSync == Init => SyncInv
<1> SUFFICES ASSUME Init PROVE SyncInv  OBVIOUS
<1>1. TypeOK
  <2>1. <<>> \in Seq(SUBSET Tab) /\ <<{}>> \in Seq(SUBSET Tab)  OBVIOUS
  <2>2. history \in [Workspace -> Seq(SUBSET Tab)]  BY <2>1 DEF Init
  <2>3. /\ documents \in [Workspace -> Nat \cup {None}] /\ step \in [Workspace -> Steps]
        /\ answer \in [Workspace -> Nat \cup {None, Conflict, Failed}]
        /\ base \in [Workspace -> Nat] /\ queue \in [Workspace -> Seq(Operation)]
        /\ view \in [Workspace -> (SUBSET Tab) \cup {None}]
    BY DEF Init, Steps
  <2>4. events \in Seq(Event)  BY DEF Init
  <2>. QED  BY <2>2, <2>3, <2>4, ConstantsAssumption DEF Init, TypeOK
<1>2. VersionsKnown
  <2>1. \A w \in Workspace : Len(history[w]) \in Nat  BY <1>1, HistoryType
  <2>. QED  BY <2>1, ConstantsAssumption DEF Init, VersionsKnown
<1>3. TasksStand /\ CommitsAwaited /\ CreatedOnce /\ Listing
  <2>1. None \notin Nat  BY ConstantsAssumption
  <2>. QED  BY <2>1 DEF Init, TasksStand, CommitsAwaited, CreatedOnce, Listing, Running
<1>. QED  BY <1>1, <1>2, <1>3 DEF SyncInv

LEMMA StepSync ==
  ASSUME SyncInv, [Next]_vars
  PROVE  SyncInv'
<1>1. Typed'  BY StepType DEF SyncInv, Typed
<1>2. Listing'  BY ListingKept
<1>3. TasksStand' /\ CommitsAwaited' /\ CreatedOnce'
  <2>1. ASSUME NEW w \in Workspace, User(w) \/ Task(w) \/ Answering(w) \/ Others(w)
        PROVE  TasksStand' /\ CommitsAwaited' /\ CreatedOnce'
    <3>1. CASE User(w)  BY <3>1, UserEffect, UserKeeps DEF SyncInv
    <3>2. CASE Task(w)  BY <3>2, TaskEffect, TaskKeeps
    <3>3. CASE Answering(w)  BY <3>3, AnswerEffect, AnswerKeeps
    <3>4. CASE Others(w)  BY <3>4, OthersEffect, OthersKeep DEF SyncInv, Typed
    <3>. QED  BY <2>1, <3>1, <3>2, <3>3, <3>4
  <2>2. ASSUME NEW m \in working, Broadcast(m)
        PROVE  TasksStand' /\ CommitsAwaited' /\ CreatedOnce'
    BY <2>2, BroadcastKeeps
  <2>. QED  BY <2>1, <2>2, WireKeeps DEF Next
<1>. QED  BY <1>1, <1>2, <1>3 DEF SyncInv, Typed

LEMMA SyncInvariant == Spec => []SyncInv
  BY InitSync, StepSync, PTL DEF Spec

\* Every reachable state is well typed: what is remembered, awaited and shown
\* has the form the code gives it.
THEOREM TypeCorrect == Spec => []TypeOK
<1>1. SyncInv => TypeOK  BY DEF SyncInv
<1>. QED  BY <1>1, SyncInvariant, PTL

-----------------------------------------------------------------------------
(* Each version is one edit away from the one before it.                   *)

\* The versions of v before and after a step: the same, or one more.
VersionsMove(v) ==
  \/ history'[v] = history[v] /\ past'[v] = past[v]
  \/ \E tabs \in SUBSET Tab :
       /\ Len(history'[v]) = Len(history[v]) + 1
       /\ \A r \in 1 .. Len(history[v]) : history'[v][r] = history[v][r]
       /\ history'[v][Len(history[v]) + 1] = tabs
       /\ \/ past'[v] = past[v] /\ (history[v] # <<>> => Toggled(v, tabs))
          \/ past[v] = 0 /\ past'[v] = Len(history[v])

\* A create is served once, before anyone else can have edited the workspace.
LEMMA StepVersions ==
  ASSUME SyncInv, [Next]_vars, NEW v \in Workspace
  PROVE  VersionsMove(v)
<1>1. ASSUME NEW w \in Workspace, User(w) PROVE VersionsMove(v)
  BY <1>1, UserEffect DEF SyncInv, UserMoves, VersionsMove
<1>2. ASSUME NEW w \in Workspace, Task(w) PROVE VersionsMove(v)
  BY <1>2, TaskEffect DEF TaskMoves, VersionsMove
<1>3. ASSUME NEW w \in Workspace, Others(w) PROVE VersionsMove(v)
  <2>1. OtherMoves(w)  BY <1>3, OthersEffect DEF SyncInv, Typed
  <2>2. CASE CommitRemoval(w, FALSE)  BY <2>2 DEF CommitRemoval, VersionsMove
  <2>3. ASSUME NEW tabs \in SUBSET Tab, CommitMoves(w, tabs, FALSE), Toggled(w, tabs)
        PROVE  VersionsMove(v)
    BY <2>3 DEF CommitMoves, VersionsMove
  <2>. QED  BY <2>1, <2>2, <2>3 DEF OtherMoves
<1>4. ASSUME NEW w \in Workspace, Answering(w) PROVE VersionsMove(v)
  <2>1. AnswerMoves(w)  BY <1>4, AnswerEffect
  <2>2. CASE UNCHANGED agentVars \/ CommitRemoval(w, TRUE)
    BY <2>2 DEF agentVars, CommitRemoval, VersionsMove
  <2>3. ASSUME NEW tabs \in SUBSET Tab, CommitMoves(w, tabs, TRUE), Applying(w),
               \/ Head(queue[w]).op = "create" /\ tabs = {}
               \/ Present(w) /\ Toggled(w, tabs)
        PROVE  VersionsMove(v)
    <3>1. history[w] # <<>> => Toggled(w, tabs)
      <4>1. CASE Head(queue[w]).op = "create"
        <5>1. history[w] = <<>>
          BY <2>1, <4>1 DEF AnswerMoves, Requested, SyncInv, CreatedOnce
        <5>. QED  BY <5>1
      <4>. QED  BY <2>3, <4>1
    <3>. QED  BY <2>3, <3>1 DEF CommitMoves, VersionsMove
  <2>. QED  BY <2>1, <2>2, <2>3 DEF AnswerMoves
<1>5. ASSUME NEW m \in working, Broadcast(m) PROVE VersionsMove(v)
  BY <1>5 DEF Broadcast, VersionsMove
<1>6. CASE ServeImport
  <2>1. past[v] = 0  BY <1>6 DEF ServeImport, SyncInv, Listing
  <2>. QED  BY <1>6, <2>1, ImportCommits DEF SyncInv, Typed, Imported, Untouched, VersionsMove
<1>7. CASE OnEvent \/ ServeList \/ OnList \/ Reconnect \/ Drop \/ UNCHANGED vars
  BY <1>7 DEF OnEvent, ServeList, OnList, Reconnect, Drop, vars, agentVars, VersionsMove
<1>. QED  BY <1>1, <1>2, <1>3, <1>4, <1>5, <1>6, <1>7 DEF Next, Connecting

Change(new, old) == Cardinality((new \ old) \cup (old \ new))

LEMMA OneChange ==
  ASSUME NEW w \in Workspace, NEW tabs, Toggled(w, tabs)
  PROVE  Change(tabs, Content(w, Len(history[w]))) = 1
<1> DEFINE old == Content(w, Len(history[w]))
<1>1. PICK t \in Tab : \/ t \notin old /\ tabs = old \cup {t}
                       \/ t \in old /\ tabs = old \ {t}
  BY DEF Toggled
<1>2. (tabs \ old) \cup (old \ tabs) = {t}
  <2> HIDE DEF old
  <2>. QED  BY <1>1
<1>. QED  BY <1>2, FS_Singleton DEF Change

LEMMA StepOneEdit ==
  ASSUME SyncInv, OneEditPerVersion, [Next]_vars
  PROVE  OneEditPerVersion'
<1> SUFFICES ASSUME NEW w \in Workspace, NEW r \in 2 .. Len(history'[w]), r # past'[w] + 1
             PROVE  Change(history'[w][r], history'[w][r - 1]) = 1
  BY DEF OneEditPerVersion, Change
<1>1. VersionsMove(w) /\ Len(history[w]) \in Nat  BY StepVersions, HistoryType DEF SyncInv
<1>2. \A k \in 2 .. Len(history[w]) :
        k # past[w] + 1 => Change(history[w][k], history[w][k - 1]) = 1
  BY DEF OneEditPerVersion, Change
<1>3. CASE history'[w] = history[w] /\ past'[w] = past[w]  BY <1>2, <1>3
<1>4. ASSUME NEW tabs \in SUBSET Tab,
             Len(history'[w]) = Len(history[w]) + 1,
             \A k \in 1 .. Len(history[w]) : history'[w][k] = history[w][k],
             history'[w][Len(history[w]) + 1] = tabs,
             \/ past'[w] = past[w] /\ (history[w] # <<>> => Toggled(w, tabs))
             \/ past[w] = 0 /\ past'[w] = Len(history[w])
      PROVE  Change(history'[w][r], history'[w][r - 1]) = 1
  <2>1. CASE r \in 2 .. Len(history[w])
    <3>1. /\ r \in 1 .. Len(history[w]) /\ r - 1 \in 1 .. Len(history[w])
          /\ r # past[w] + 1
      BY <1>1, <1>4, <2>1
    <3>. QED  BY <1>2, <1>4, <2>1, <3>1
  <2>2. CASE r = Len(history[w]) + 1
    <3>1. Len(history[w]) \in 1 .. Len(history[w]) /\ r - 1 = Len(history[w]) /\ Len(history[w]) # 0
      BY <1>1, <2>2
    <3>2. history[w] # <<>>  BY <3>1, EmptySeq
    <3>3. history'[w][r - 1] = Content(w, Len(history[w]))  BY <1>4, <3>1 DEF Content
    <3>. QED  BY <1>4, <2>2, <3>2, <3>3, OneChange
  <2>. QED  BY <1>1, <1>4, <2>1, <2>2
<1>. QED  BY <1>1, <1>3, <1>4 DEF VersionsMove

\* The agent loses no edit: each version of a document is one operation away
\* from the version before it, whatever the clients do at once, but for the one
\* with which an import brings a deleted document back
\* (apply_workspace_operation_inner compares the base revision in the same
\* transaction that writes).
THEOREM NoEditLost == Spec => []OneEditPerVersion
<1>1. Init => OneEditPerVersion
  <2> SUFFICES ASSUME Init PROVE OneEditPerVersion  OBVIOUS
  <2>1. \A w \in Workspace : Len(history[w]) \in {0, 1}  BY DEF Init
  <2>. QED  BY <2>1 DEF OneEditPerVersion
<1>. QED  BY <1>1, StepOneEdit, SyncInvariant, PTL DEF Spec

-----------------------------------------------------------------------------
(* What is remembered implements VersionedCopy.                            *)

\* Then the numbers of the versions tell which one is newer.
LEMMA NewerPlain ==
  ASSUME SyncInv, NoRelic, NEW w \in Workspace, NEW r \in Nat, r = 0 \/ r > past[w]
  PROVE  Newer(w, r) <=> documents[w] = None \/ r >= documents[w]
<1> DEFINE p == past[w]
           d == documents[w]
<1>1. /\ p \in Nat /\ d \in Nat \cup {None} /\ (d \notin {None, 0} => d > p)
      /\ r = 0 \/ r > p
  BY DEF SyncInv, TypeOK, NoRelic
<1>2. Newer(w, r) <=> d = None \/ (IF r > p THEN r - p ELSE r) >= (IF d > p THEN d - p ELSE d)
  BY DEF Newer, Revision
<1>3. SUFFICES Newer(w, r) <=> d = None \/ r >= d  OBVIOUS
<1> HIDE DEF p, d
<1>4. CASE d = None  BY <1>2, <1>4
<1>5. CASE d \in Nat  BY <1>1, <1>2, <1>5, ConstantsAssumption
<1>. QED  BY <1>1, <1>4, <1>5

\* What a step may do to the copy of v.
CopyMoves(v) ==
  \/ documents'[v] \in {documents[v], None}
  \/ /\ documents'[v] \in 1 .. Len(history[v]) /\ UNCHANGED <<history, past>>
     /\ documents'[v] > past[v]
     /\ documents[v] # None => documents'[v] >= documents[v]

LEMMA AcceptCopy ==
  ASSUME SyncInv, NoRelic, NEW w \in Workspace, NEW r \in 1 .. Len(history[w]), r > past[w],
         Accept(w, r), UNCHANGED <<history, past>>
  PROVE  \A v \in Workspace : CopyMoves(v)
<1>1. r \in Nat /\ documents \in [Workspace -> Nat \cup {None}]
  BY DEF SyncInv, TypeOK
<1>2. documents' = documents \/ (Newer(w, r) /\ documents' = [documents EXCEPT ![w] = r])
  BY DEF Accept, shownVars
<1>3. Newer(w, r) => documents[w] = None \/ r >= documents[w]  BY <1>1, NewerPlain
<1>. QED  BY <1>1, <1>2, <1>3 DEF CopyMoves

LEMMA StepCopy ==
  ASSUME SyncInv, NoRelic, [Next]_vars, NEW v \in Workspace
  PROVE  CopyMoves(v)
<1>0. documents \in [Workspace -> Nat \cup {None}]  BY DEF SyncInv, TypeOK
<1>1. ASSUME NEW w \in Workspace, User(w) \/ Answering(w) \/ Others(w) PROVE documents' = documents
  BY <1>1, UserEffect, AnswerEffect, OthersEffect
     DEF UserMoves, AnswerMoves, OtherMoves, SyncInv, Typed
<1>2. ASSUME NEW w \in Workspace, Task(w) PROVE CopyMoves(v)
  <2>1. UNCHANGED <<history, past>> /\ Len(history[w]) \in Nat
    BY <1>2, TaskEffect, HistoryType DEF TaskMoves, SyncInv
  <2>2. CASE documents' = documents  BY <2>2 DEF CopyMoves
  <2>3. CASE Fail(w)  BY <2>2, <2>3 DEF Fail, Finish
  <2>4. CASE OnDocument(w)
    <3>1. answer[w] \in Nat /\ ~Applying(w)  BY <2>4 DEF OnDocument, Applying
    <3>2. answer[w] # 0 /\ answer[w] <= Len(history[w])
      BY <3>1 DEF SyncInv, TasksStand, VersionsKnown
    <3>3. answer[w] \in 1 .. Len(history[w])  BY <2>1, <3>1, <3>2
    <3>4. answer[w] > past[w]  BY <3>1, <3>2 DEF NoRelic
    <3>. QED  BY <2>1, <2>4, <3>3, <3>4, AcceptCopy DEF OnDocument
  <2>5. CASE OnApplied(w)
    <3>1. answer[w] \in Nat  BY <2>5 DEF OnApplied
    <3>2. \/ documents' = [documents EXCEPT ![w] = None]
          \/ /\ Head(queue[w]).op # "delete" /\ Newer(w, answer[w])
             /\ documents' = [documents EXCEPT ![w] = answer[w]]
          \/ documents' = documents
      BY <2>5 DEF OnApplied, Finish
    <3>3. Head(queue[w]).op # "delete" => answer[w] # 0
      BY DEF SyncInv, TasksStand
    <3>4. answer[w] <= Len(history[w])  BY <3>1 DEF SyncInv, VersionsKnown
    <3>5. answer[w] # 0 => answer[w] > past[w]  BY <3>1 DEF NoRelic
    <3>6. Newer(w, answer[w]) => documents[w] = None \/ answer[w] >= documents[w]
      BY <3>1, <3>5, NewerPlain
    <3>. QED  BY <1>0, <2>1, <3>1, <3>2, <3>3, <3>4, <3>5, <3>6 DEF CopyMoves
  <2>6. CASE \E next \in Steps : Advance(w, next)
    BY <2>2, <2>6 DEF Advance, shownVars
  <2>. QED
    BY <1>2, <2>3, <2>4, <2>5, <2>6
       DEF Task, Begin, ControlGranted, ControlRefused, OnConflict, OnRefused, Steps
<1>3. ASSUME NEW m \in working, Broadcast(m) PROVE documents' = documents
  BY <1>3 DEF Broadcast, shownVars
<1>4. CASE OnEvent
  <2> DEFINE w == Head(events).ws
             r == Head(events).rev
  <2>1. Head(events) = events[1] /\ 1 \in 1 .. Len(events) /\ UNCHANGED <<history, past>>
    BY <1>4, TailOfEvents DEF OnEvent, SyncInv, agentVars
  <2>2. w \in Workspace /\ r \in Nat  BY <2>1, EventType DEF SyncInv, TypeOK
  <2>3. r <= Len(history[w]) /\ Len(history[w]) \in Nat
    BY <2>1, <2>2, HistoryType DEF SyncInv, VersionsKnown
  <2>4. CASE r # 0
    <3>1. Accept(w, r)  BY <1>4, <2>4 DEF OnEvent
    <3>2. r \in 1 .. Len(history[w])  BY <2>2, <2>3, <2>4
    <3>3. r > past[w]  BY <2>1, <2>4 DEF NoRelic
    <3> HIDE DEF w, r
    <3>. QED  BY <2>1, <2>2, <3>1, <3>2, <3>3, AcceptCopy
  <2>5. CASE r = 0
    <3>1. documents' = [documents EXCEPT ![w] = None]  BY <1>4, <2>5 DEF OnEvent
    <3> HIDE DEF w
    <3>. QED  BY <1>0, <3>1 DEF CopyMoves
  <2>. QED  BY <2>4, <2>5
<1>5. CASE OnList
  <2>1. /\ snapshot \in [Workspace -> Nat] /\ snapshot[v] <= Len(history[v])
        /\ UNCHANGED <<history, past>> /\ (snapshot[v] # 0 => snapshot[v] > past[v])
    BY <1>5 DEF OnList, SyncInv, TypeOK, VersionsKnown, NoRelic, agentVars
  <2>2. documents'[v] = IF snapshot[v] # 0 /\ Newer(v, snapshot[v]) THEN snapshot[v] ELSE documents[v]
    BY <1>5 DEF OnList
  <2>3. Len(history[v]) \in Nat  BY HistoryType DEF SyncInv
  <2>4. Newer(v, snapshot[v]) => documents[v] = None \/ snapshot[v] >= documents[v]
    BY <2>1, NewerPlain
  <2>. QED  BY <2>1, <2>2, <2>3, <2>4 DEF CopyMoves
<1>6. CASE ServeImport \/ ServeList \/ Reconnect \/ Drop \/ UNCHANGED vars
  BY <1>6 DEF ServeImport, ServeList, Reconnect, Drop, vars, shownVars, CopyMoves
<1>. QED
  BY <1>1, <1>2, <1>3, <1>4, <1>5, <1>6 DEF Next, Connecting, CopyMoves

\* What a step that imports nothing must see to.
LEMMA RelicKept ==
  ASSUME SyncInv, NoRelic, past' = past, \A w \in Workspace : CopyMoves(w),
         \A m \in working' : \/ m.rev = 0 \/ m.rev > past[m.ws]
                             \/ \E n \in working : m.ws = n.ws /\ m.rev = n.rev,
         \A i \in 1 .. Len(events') : events'[i].rev # 0 => events'[i].rev > past[events'[i].ws],
         \/ snapshot' \in {snapshot, None}
         \/ \A w \in Workspace : snapshot'[w] # 0 => snapshot'[w] > past[w],
         \A w \in Workspace : answer'[w] \in Nat \ {0} => answer'[w] > past[w],
         \A w \in Workspace : Present(w)' =>
           (Present(w) /\ history'[w] = history[w]) \/ Len(history'[w]) > past[w]
  PROVE  NoRelic'
<1>1. \A m \in working' : m.rev # 0 => m.rev > past'[m.ws]  BY DEF NoRelic
<1>2. \A w \in Workspace : documents'[w] \notin {None, 0} => documents'[w] > past'[w]
  BY DEF NoRelic, CopyMoves
<1>3. snapshot' # None => \A w \in Workspace : snapshot'[w] # 0 => snapshot'[w] > past'[w]
  BY DEF NoRelic
<1>4. \A w \in Workspace : Present(w)' => Len(history'[w]) > past'[w]  BY DEF NoRelic
<1>. QED  BY <1>1, <1>2, <1>3, <1>4 DEF NoRelic

\* A commit adds to what was there before.
LEMMA CommitRelic ==
  ASSUME SyncInv, NoRelic, \A v \in Workspace : CopyMoves(v), NEW w \in Workspace,
         UNCHANGED <<events, snapshot, answer>>, Present(w) \/ history[w] = <<>>,
         \/ \E tabs \in SUBSET Tab, asked \in BOOLEAN : CommitMoves(w, tabs, asked)
         \/ \E asked \in BOOLEAN : CommitRemoval(w, asked)
  PROVE  NoRelic'
<1>1. Len(history[w]) \in Nat /\ past[w] \in Nat /\ past[w] <= Len(history[w])
  BY HistoryType DEF SyncInv, TypeOK, VersionsKnown
<1>2. \A i \in 1 .. Len(events') : events'[i].rev # 0 => events'[i].rev > past[events'[i].ws]
  BY DEF NoRelic
<1>3. \A v \in Workspace : answer'[v] \in Nat \ {0} => answer'[v] > past[v]  BY DEF NoRelic
<1>4. ASSUME NEW tabs \in SUBSET Tab, NEW asked \in BOOLEAN, CommitMoves(w, tabs, asked)
      PROVE  NoRelic'
  <2>1. /\ past' = past /\ deleted' = deleted
        /\ Len(history'[w]) = Len(history[w]) + 1
        /\ \A v \in Workspace \ {w} : history'[v] = history[v]
        /\ working' = working \cup {[ws |-> w, rev |-> Len(history[w]) + 1, asked |-> asked]}
    BY <1>4 DEF CommitMoves
  <2>2. \A m \in working' : \/ m.rev = 0 \/ m.rev > past[m.ws]
                            \/ \E n \in working : m.ws = n.ws /\ m.rev = n.rev
    BY <1>1, <2>1
  <2>3. \A v \in Workspace : Present(v)' =>
           (Present(v) /\ history'[v] = history[v]) \/ Len(history'[v]) > past[v]
    BY <1>1, <2>1 DEF Present
  <2>. QED  BY <1>2, <1>3, <2>1, <2>2, <2>3, RelicKept
<1>5. ASSUME NEW asked \in BOOLEAN, CommitRemoval(w, asked) PROVE NoRelic'
  <2>1. /\ past' = past /\ history' = history /\ deleted \subseteq deleted'
        /\ working' = working \cup {[ws |-> w, rev |-> 0, asked |-> asked]}
    BY <1>5 DEF CommitRemoval
  <2>. QED  BY <1>2, <1>3, <2>1, RelicKept DEF Present
<1>. QED  BY <1>4, <1>5

LEMMA ImportRelic ==
  ASSUME "revival" \notin Races, SyncInv, NoRelic, ServeImport
  PROVE  NoRelic'
<1>1. /\ UNCHANGED <<initial, link, events, documents, answer>> /\ deleted' \subseteq deleted
      /\ \A w \in Workspace : Imported(w) \/ Untouched(w)
      /\ snapshot' = [w \in Workspace |-> IF w \in deleted' THEN 0 ELSE Len(history'[w])]
      /\ working' = working \cup {[ws |-> w, rev |-> snapshot'[w], asked |-> FALSE] :
                                     w \in {v \in Workspace : snapshot'[v] # 0}}
  BY ImportCommits DEF SyncInv, Typed
<1>2. \A w \in Workspace : /\ Len(history[w]) \in Nat
                           /\ Imported(w) => past'[w] = 0 \/ Forgotten(w)
                           /\ Untouched(w) => past'[w] = past[w]
  <2> SUFFICES ASSUME NEW w \in Workspace, Imported(w), w \notin deleted PROVE past'[w] = 0
    BY HistoryType DEF ServeImport, Imported, Untouched, SyncInv
  <2>1. history[w] = <<>>  BY DEF Imported, Present
  <2>. QED  BY <2>1, EmptySeq DEF Imported
<1>3. \A w \in Workspace : Imported(w) \/ past'[w] = past[w]  BY <1>1, <1>2
<1>4. ASSUME NEW w \in Workspace, ~(w \in deleted') , history'[w] # <<>>
      PROVE  Len(history'[w]) > past'[w]
  <2>1. CASE Imported(w)  BY <1>2, <2>1 DEF Imported
  <2>2. CASE Untouched(w)  BY <1>4, <2>2 DEF Untouched, Present, NoRelic
  <2>. QED  BY <1>1, <2>1, <2>2
<1>5. ASSUME NEW w \in Workspace, snapshot'[w] # 0 PROVE snapshot'[w] > past'[w]
  <2>1. snapshot'[w] = Len(history'[w]) /\ w \notin deleted'  BY <1>1, <1>5
  <2>2. history'[w] # <<>>  BY <1>5, <2>1, EmptySeq
  <2>. QED  BY <1>4, <2>1, <2>2
<1>6. ASSUME NEW m \in working', m.rev # 0 PROVE m.rev > past'[m.ws]
  <2>1. CASE m \in working
    <3>1. m.ws \in Workspace /\ m.rev \in Nat  BY <2>1 DEF SyncInv, TypeOK
    <3>2. CASE past'[m.ws] = past[m.ws]  BY <1>6, <2>1, <3>2 DEF NoRelic
    <3>3. CASE Imported(m.ws) /\ past'[m.ws] = 0  BY <1>6, <3>1, <3>3
    <3>4. ~Forgotten(m.ws)  BY <2>1 DEF Forgotten
    <3>. QED  BY <1>2, <1>3, <3>1, <3>2, <3>3, <3>4
  <2>2. CASE m \notin working
    <3>1. PICK w \in Workspace : m.ws = w /\ m.rev = snapshot'[w]  BY <1>1, <2>2
    <3>. QED  BY <1>5, <1>6, <3>1
  <2>. QED  BY <2>1, <2>2
<1>7. ASSUME NEW i \in 1 .. Len(events'), events'[i].rev # 0
      PROVE  events'[i].rev > past'[events'[i].ws]
  <2> DEFINE w == events[i].ws
  <2>1. i \in 1 .. Len(events) /\ w \in Workspace /\ events[i].rev \in Nat /\ events' = events
    BY <1>1, <1>7, EventType DEF SyncInv, TypeOK
  <2>2. ~Forgotten(w)  BY <2>1 DEF Forgotten
  <2>3. past'[w] = past[w] \/ past'[w] = 0  BY <1>2, <1>3, <2>1, <2>2
  <2>4. events[i].rev # 0 /\ events[i].rev > past[w]  BY <1>7, <2>1 DEF NoRelic
  <2>. QED  BY <2>1, <2>3, <2>4
<1>8. ASSUME NEW w \in Workspace, documents'[w] \notin {None, 0} PROVE documents'[w] > past'[w]
  <2>1. ~Forgotten(w) /\ documents' = documents /\ documents[w] \in Nat
    BY <1>1, <1>8 DEF Forgotten, SyncInv, TypeOK
  <2>2. past'[w] = past[w] \/ past'[w] = 0  BY <1>2, <1>3, <2>1
  <2>3. documents[w] > past[w]  BY <1>8, <2>1 DEF NoRelic
  <2>. QED  BY <1>8, <2>1, <2>2, <2>3
<1>9. ASSUME NEW w \in Workspace PROVE answer'[w] \notin Nat \ {0}
  <2>1. answer[w] = None  BY DEF ServeImport, SyncInv, CreatedOnce, TasksStand
  <2>. QED  BY <1>1, <2>1, ConstantsAssumption
<1>. QED  BY <1>4, <1>5, <1>6, <1>7, <1>8, <1>9 DEF NoRelic, Present

LEMMA StepRelic ==
  ASSUME "revival" \notin Races, SyncInv, NoRelic, [Next]_vars
  PROVE  NoRelic'
<1>0. \A w \in Workspace : CopyMoves(w)  BY StepCopy
<1>1. /\ \A i \in 1 .. Len(events) : events[i].rev # 0 => events[i].rev > past[events[i].ws]
      /\ \A w \in Workspace : answer[w] \in Nat \ {0} => answer[w] > past[w]
      /\ \A m \in working : m.rev = 0 \/ m.rev > past[m.ws]
  BY DEF NoRelic
<1>2. CASE /\ UNCHANGED <<history, past, deleted, working, snapshot, events>>
           /\ \A w \in Workspace : answer'[w] \in {None, answer[w]}
  BY <1>0, <1>1, <1>2, RelicKept, ConstantsAssumption DEF Present
<1>3. ASSUME NEW w \in Workspace, User(w) PROVE NoRelic'
  BY <1>2, <1>3, UserEffect DEF SyncInv, UserMoves
<1>4. ASSUME NEW w \in Workspace, Task(w) PROVE NoRelic'
  BY <1>2, <1>4, TaskEffect DEF TaskMoves
<1>5. ASSUME NEW w \in Workspace, Others(w) PROVE NoRelic'
  BY <1>0, <1>5, OthersEffect, CommitRelic DEF SyncInv, Typed, OtherMoves
<1>6. ASSUME NEW w \in Workspace, Answering(w) PROVE NoRelic'
  <2>1. AnswerMoves(w)  BY <1>6, AnswerEffect
  <2>2. CASE answer' = answer
    <3>1. Head(queue[w]).op = "create" => history[w] = <<>> \/ UNCHANGED agentVars
      BY <2>1 DEF AnswerMoves, Requested, SyncInv, CreatedOnce
    <3>2. CASE UNCHANGED agentVars
      BY <1>2, <2>1, <2>2, <3>2 DEF AnswerMoves, agentVars
    <3>. QED  BY <1>0, <2>1, <2>2, <3>1, <3>2, CommitRelic DEF AnswerMoves
  <2>3. CASE /\ UNCHANGED agentVars
             /\ answer'[w] \in Nat \cup {Failed, Conflict}
             /\ answer'[w] \in Nat => Present(w) /\ answer'[w] = Len(history[w])
             /\ \A v \in Workspace \ {w} : answer'[v] = answer[v]
    <3>1. \A v \in Workspace : answer'[v] \in Nat \ {0} => answer'[v] > past[v]
      BY <1>1, <2>3 DEF NoRelic
    <3>2. UNCHANGED <<history, past, deleted, working, events, snapshot>>
      BY <2>1, <2>3 DEF AnswerMoves, agentVars
    <3>. QED  BY <1>0, <1>1, <3>1, <3>2, RelicKept DEF Present
  <2>. QED  BY <2>1, <2>2, <2>3 DEF AnswerMoves
<1>7. ASSUME NEW m \in working, Broadcast(m) PROVE NoRelic'
  <2> DEFINE e == [ws |-> m.ws, rev |-> m.rev]
  <2>1. /\ UNCHANGED <<history, past, deleted, snapshot>> /\ working' \subseteq working
        /\ events' = events \/ events' = Append(events, e)
        /\ m.ws \in Workspace /\ events \in Seq(Event)
    BY <1>7 DEF Broadcast, SyncInv, TypeOK
  <2>2. \A w \in Workspace : answer'[w] \in {answer[w], m.rev} /\ (w # m.ws => answer'[w] = answer[w])
    BY <1>7 DEF Broadcast, SyncInv, TypeOK
  <2>3. \A w \in Workspace : answer'[w] \in Nat \ {0} => answer'[w] > past[w]
    BY <1>1, <2>2
  <2>4. \A i \in 1 .. Len(events') : events'[i].rev # 0 => events'[i].rev > past[events'[i].ws]
    <3>1. CASE events' = events  BY <1>1, <3>1
    <3>2. CASE events' = Append(events, e)
      <4>1. \A i \in 1 .. Len(events') :
              events'[i] = e \/ (i \in 1 .. Len(events) /\ events'[i] = events[i])
        BY <2>1, <3>2
      <4>2. e.rev # 0 => e.rev > past[e.ws]  BY <1>1
      <4> HIDE DEF e
      <4>. QED  BY <1>1, <4>1, <4>2
    <3>. QED  BY <2>1, <3>1, <3>2
  <2>. QED  BY <1>0, <1>1, <2>1, <2>3, <2>4, RelicKept DEF Present
<1>8. CASE OnEvent
  <2>1. /\ UNCHANGED <<history, past, deleted, working, snapshot, answer>>
        /\ \A i \in 1 .. Len(events') : i + 1 \in 1 .. Len(events) /\ events'[i] = events[i + 1]
    BY <1>8, TailOfEvents DEF OnEvent, agentVars, taskVars, SyncInv
  <2>2. \A i \in 1 .. Len(events') : events'[i].rev # 0 => events'[i].rev > past[events'[i].ws]
    BY <1>1, <2>1
  <2>. QED  BY <1>0, <1>1, <2>1, <2>2, RelicKept DEF Present
<1>9. CASE ServeImport  BY <1>9, ImportRelic
<1>10. CASE ServeList
  <2>1. /\ UNCHANGED <<history, past, deleted, working, events, answer>> /\ snapshot' = Listed
    BY <1>10 DEF ServeList, agentVars, taskVars
  <2>2. \A w \in Workspace : Listed[w] # 0 => Listed[w] > past[w]  BY DEF Listed, NoRelic
  <2>. QED  BY <1>0, <1>1, <2>1, <2>2, RelicKept DEF Present
<1>11. CASE OnList \/ Reconnect \/ UNCHANGED vars
  <2>1. /\ UNCHANGED <<history, past, deleted, working, events, answer>>
        /\ snapshot' \in {snapshot, None}
    BY <1>11 DEF OnList, Reconnect, vars, agentVars, wireVars, taskVars
  <2>. QED  BY <1>0, <1>1, <2>1, RelicKept DEF Present
<1>12. CASE Drop
  <2>1. /\ UNCHANGED <<history, past, deleted, answer>> /\ snapshot' = None /\ events' = <<>>
        /\ working' = {[m EXCEPT !.asked = FALSE] : m \in working}
    BY <1>12 DEF Drop, taskVars
  <2>2. \A m \in working : [m EXCEPT !.asked = FALSE].rev = m.rev /\ [m EXCEPT !.asked = FALSE].ws = m.ws
    BY DEF SyncInv, TypeOK
  <2>3. \A n \in working' : \E m \in working : n.ws = m.ws /\ n.rev = m.rev  BY <2>1, <2>2
  <2>4. Len(events') = 0  BY <2>1, EmptySeq
  <2>5. \A i \in 1 .. Len(events') : FALSE  BY <2>4
  <2>. QED  BY <1>0, <1>1, <2>1, <2>3, <2>5, RelicKept DEF Present
<1>. QED
  BY <1>3, <1>4, <1>5, <1>6, <1>7, <1>8, <1>9, <1>10, <1>11, <1>12 DEF Next, Connecting

LEMMA InitRelic == Init => NoRelic
<1> SUFFICES ASSUME Init PROVE NoRelic  OBVIOUS
<1>1. \A w \in Workspace : history[w] # <<>> => Len(history[w]) = 1  BY DEF Init
<1>. QED  BY <1>1, ConstantsAssumption DEF Init, NoRelic, Present

LEMMA RelicInvariant ==
  ASSUME "revival" \notin Races
  PROVE  Spec => []NoRelic
  BY InitRelic, StepRelic, SyncInvariant, PTL DEF Spec

\* The documents that the GUI remembers are versions the agent committed, taken
\* in the order of their revisions: the whole protocol of queues, events and
\* lists implements VersionedCopy, step by step (remember), unless a deleted
\* document is imported anew while the GUI remembers it or is still to hear of it.
THEOREM RemembersForward ==
  ASSUME "revival" \notin Races
  PROVE  Spec => CopySpec
<1>1. Init => Copies!Init
  <2> SUFFICES ASSUME Init PROVE Copies!Init  OBVIOUS
  <2>1. TypeOK  BY InitSync DEF SyncInv
  <2>2. \A w \in Workspace : Len(history[w]) \in Nat  BY <2>1, HistoryType
  <2>. QED  BY <2>2 DEF Init, Copies!Init
<1>2. SyncInv /\ NoRelic /\ [Next]_vars => [Copies!Next]_(Copies!vars)
  <2> SUFFICES ASSUME SyncInv, NoRelic, [Next]_vars PROVE Copies!Next  OBVIOUS
  <2>1. SUFFICES ASSUME NEW w \in Workspace PROVE Copies!Commit(w) /\ Copies!Learn(w)
    BY DEF Copies!Next
  <2>2. VersionsMove(w) /\ CopyMoves(w) /\ Len(history[w]) \in Nat
    BY StepVersions, StepCopy, HistoryType DEF SyncInv
  <2>3. Len(history'[w]) \in {Len(history[w]), Len(history[w]) + 1}
    BY <2>2 DEF VersionsMove
  <2>4. Copies!Commit(w)  BY <2>3 DEF Copies!Commit
  <2>5. Copies!Learn(w)  BY <2>2 DEF CopyMoves, Copies!Learn
  <2>. QED  BY <2>4, <2>5
<1>. QED  BY <1>1, <1>2, SyncInvariant, RelicInvariant, PTL DEF Spec, CopySpec, Copies!Spec

-----------------------------------------------------------------------------
(* Additions that the agent has not judged stay on the screen.             *)

\* The operation at place i of w's queue adds a tab that no later one takes away.
Pending(w, i) ==
  /\ queue[w][i].op = "add"
  /\ \A j \in i + 1 .. Len(queue[w]) :
       queue[w][j].op # "delete" /\ queue[w][j] # [op |-> "remove", tab |-> queue[w][i].tab]

Shown(w, t) == view[w] # None /\ t \in view[w]

\* A workspace whose queue and screen a step leaves as they are, or whose task
\* ends without a change on the screen, still shows its additions.
LEMMA ShownKept ==
  ASSUME SyncInv, NEW w \in Workspace,
         \A i \in 1 .. Len(queue[w]) : Pending(w, i) => Shown(w, queue[w][i].tab),
         \/ queue'[w] = queue[w] /\ (view'[w] = view[w] \/ ~Running(w))
         \/ queue'[w] = Tail(queue[w]) /\ Running(w) /\ (view'[w] = view[w] \/ Len(queue[w]) = 1),
         NEW i \in 1 .. Len(queue'[w]), Pending(w, i)'
  PROVE  Shown(w, queue[w][i].tab)'
<1>1. CASE queue'[w] = queue[w] /\ view'[w] = view[w]
  BY <1>1 DEF Pending, Shown
<1>2. CASE queue'[w] = queue[w] /\ ~Running(w)
  <2>1. Len(queue'[w]) = 0  BY <1>2, EmptySeq DEF Running
  <2>. QED  BY <2>1
<1>3. CASE queue'[w] = Tail(queue[w]) /\ Running(w)
  <2>1. /\ Len(queue'[w]) = Len(queue[w]) - 1 /\ Len(queue[w]) \in Nat
        /\ \A k \in 1 .. Len(queue'[w]) : queue'[w][k] = queue[w][k + 1]
    BY <1>3, QueueEnds DEF SyncInv
  <2>2. Len(queue[w]) # 1 /\ i + 1 \in 1 .. Len(queue[w]) /\ i \in Nat  BY <2>1
  <2>3. Pending(w, i + 1)
    <3>1. queue[w][i + 1].op = "add"  BY <2>1 DEF Pending
    <3>2. ASSUME NEW j \in i + 2 .. Len(queue[w])
          PROVE  queue[w][j].op # "delete"
                 /\ queue[w][j] # [op |-> "remove", tab |-> queue[w][i + 1].tab]
      <4>1. j - 1 \in i + 1 .. Len(queue'[w]) /\ j - 1 \in 1 .. Len(queue'[w]) /\ (j - 1) + 1 = j
        BY <2>1, <2>2
      <4>2. queue'[w][j - 1] = queue[w][j] /\ queue'[w][i] = queue[w][i + 1]
        BY <2>1, <4>1
      <4>. QED  BY <4>1, <4>2 DEF Pending
    <3>. QED  BY <2>2, <3>1, <3>2 DEF Pending
  <2>4. view'[w] = view[w]  BY <1>3, <2>2
  <2>. QED  BY <2>1, <2>2, <2>3, <2>4 DEF Shown
<1>. QED  BY <1>1, <1>2, <1>3

\* An edit of the user is on the screen when it is queued.
LEMMA ShownAtOnce ==
  ASSUME SyncInv, NEW w \in Workspace, User(w),
         \A i \in 1 .. Len(queue[w]) : Pending(w, i) => Shown(w, queue[w][i].tab),
         NEW i \in 1 .. Len(queue'[w]), Pending(w, i)'
  PROVE  Shown(w, queue[w][i].tab)'
<1>1. ASSUME NEW op \in Operation, NEW screen, Enqueue(w, op, screen),
             op.op = "add" => screen # None /\ op.tab \in screen,
             op.op = "delete" \/ \A t \in Tab :
                Shown(w, t) => \/ screen # None /\ t \in screen
                               \/ op = [op |-> "remove", tab |-> t]
      PROVE  Shown(w, queue[w][i].tab)'
  <2> DEFINE n == Len(queue[w])
  <2>1. queue'[w] = Append(queue[w], op) /\ view'[w] = screen
    BY <1>1 DEF Enqueue, SyncInv, TypeOK
  <2>2. /\ Len(queue'[w]) = n + 1 /\ n \in Nat /\ queue'[w][n + 1] = op
        /\ \A k \in 1 .. n : queue'[w][k] = queue[w][k]
    BY <2>1, QueueAppended DEF SyncInv
  <2>3. CASE i = n + 1  BY <1>1, <2>1, <2>2, <2>3 DEF Pending, Shown
  <2>4. CASE i \in 1 .. n
    <3>1. /\ queue'[w][i] = queue[w][i] /\ n + 1 \in i + 1 .. Len(queue'[w])
          /\ \A j \in i + 1 .. n : j \in i + 1 .. Len(queue'[w]) /\ queue'[w][j] = queue[w][j]
      BY <2>2, <2>4
    <3>2. Pending(w, i)  BY <3>1 DEF Pending
    <3>3. Shown(w, queue[w][i].tab)  BY <2>4, <3>2
    <3>4. op.op # "delete" /\ op # [op |-> "remove", tab |-> queue[w][i].tab]
      BY <2>2, <3>1 DEF Pending
    <3>5. queue[w][i].tab \in Tab
      <4>1. queue[w][i] \in Operation  BY <2>4 DEF SyncInv, TypeOK
      <4>. QED  BY <3>2, <4>1 DEF Pending, Operation
    <3>. QED  BY <1>1, <2>1, <3>1, <3>3, <3>4, <3>5 DEF Shown
  <2>. QED  BY <2>2, <2>3, <2>4
<1>2. CASE Create(w)
  <2>1. ~\E t \in Tab : Shown(w, t)  BY <1>2 DEF Create, Shown
  <2>. QED  BY <1>1, <1>2, <2>1 DEF Create, Operation
<1>3. CASE Delete(w)  BY <1>1, <1>3 DEF Delete, Operation
<1>4. ASSUME NEW t \in Tab, AddTab(w, t) PROVE Shown(w, queue[w][i].tab)'
  <2> DEFINE screen == view[w] \cup {t}
             op == [op |-> "add", tab |-> t]
  <2>1. view[w] \in SUBSET Tab  BY <1>4 DEF AddTab, SyncInv, TypeOK
  <2>2. screen # None  BY <2>1, ConstantsAssumption
  <2>3. Enqueue(w, op, screen) /\ op \in Operation  BY <1>4 DEF AddTab, Operation
  <2>. QED  BY <1>1, <2>2, <2>3 DEF Shown
<1>5. ASSUME NEW t \in Tab, RemoveTab(w, t) PROVE Shown(w, queue[w][i].tab)'
  <2> DEFINE screen == view[w] \ {t}
             op == [op |-> "remove", tab |-> t]
  <2>1. view[w] \in SUBSET Tab  BY <1>5 DEF RemoveTab, SyncInv, TypeOK
  <2>2. screen # None  BY <2>1, ConstantsAssumption
  <2>3. Enqueue(w, op, screen) /\ op \in Operation  BY <1>5 DEF RemoveTab, Operation
  <2>. QED  BY <1>1, <2>2, <2>3 DEF Shown
<1>. QED  BY <1>2, <1>3, <1>4, <1>5 DEF User

\* What else may happen to the screen of a workspace with queued edits, unless
\* it counts as shaken.
Steady(w) ==
  \/ queue'[w] = queue[w] /\ (view'[w] = view[w] \/ ~Running(w) \/ w \in shaken')
  \/ /\ queue'[w] = Tail(queue[w]) /\ Running(w)
     /\ view'[w] = view[w] \/ Len(queue[w]) = 1 \/ w \in shaken'

LEMMA FinishSteady ==
  ASSUME SyncInv, NEW w \in Workspace, Running(w), NEW docs, NEW late,
         NEW screen \in [Workspace -> (SUBSET Tab) \cup {None}],
         \A u \in Workspace \ {w} : screen[u] = view[u],
         Finish(w, docs, late, screen)
  PROVE  \A v \in Workspace :
           Steady(v) /\ (v \in shaken => v \in shaken' \/ (v = w /\ Len(queue[v]) = 1))
<1> SUFFICES ASSUME NEW v \in Workspace
             PROVE  Steady(v) /\ (v \in shaken => v \in shaken' \/ (v = w /\ Len(queue[v]) = 1))
  OBVIOUS
<1>1. /\ queue'[w] = Tail(queue[w])
      /\ \A u \in Workspace \ {w} :
           queue'[u] = queue[u] /\ view'[u] = screen[u] /\ (u \in shaken <=> u \in shaken')
      /\ Len(queue[w]) # 1 =>
           view' = screen /\ (w \in shaken => w \in shaken') /\ (screen # view => w \in shaken')
  BY FinishEffect DEF SyncInv
<1>2. CASE v # w  BY <1>1, <1>2 DEF Steady
<1>3. CASE v = w
  <2>1. screen = view => screen[w] = view[w]  OBVIOUS
  <2>. QED  BY <1>1, <1>3, <2>1 DEF Steady
<1>. QED  BY <1>2, <1>3

LEMMA AcceptSteady ==
  ASSUME SyncInv, NEW w \in Workspace, NEW r, Accept(w, r), UNCHANGED <<queue, shaken>>
  PROVE  \A v \in Workspace : Steady(v)
<1>1. view' = view \/ (~Running(w) /\ view' = [view EXCEPT ![w] = Content(w, r)])
  BY DEF Accept, Held, shownVars
<1> DEFINE content == Content(w, r)
<1>2. view \in [Workspace -> (SUBSET Tab) \cup {None}]  BY DEF SyncInv, TypeOK
<1>3. \A v \in Workspace : view'[v] = view[v] \/ (v = w /\ ~Running(w))
  <2> HIDE DEF content
  <2>1. view' = view \/ (~Running(w) /\ view' = [view EXCEPT ![w] = content])  BY <1>1 DEF content
  <2>. QED  BY <1>2, <2>1
<1>. QED  BY <1>3 DEF Steady

LEMMA StepSteady ==
  ASSUME SyncInv, [Next]_vars, NEW w \in Workspace, ~User(w)
  PROVE  Steady(w) /\ (w \in shaken => w \in shaken' \/ (Running(w) /\ queue'[w] = <<>>))
<1>0. view \in [Workspace -> (SUBSET Tab) \cup {None}] /\ queue \in [Workspace -> Seq(Operation)]
  BY DEF SyncInv, TypeOK
<1>1. ASSUME NEW v \in Workspace, User(v), v # w
      PROVE  UNCHANGED <<shaken>> /\ queue'[w] = queue[w] /\ view'[w] = view[w]
  BY <1>1, UserEffect DEF SyncInv, UserMoves
<1>2. ASSUME NEW v \in Workspace, Answering(v) \/ Others(v) PROVE UNCHANGED <<shaken, queue, view>>
  BY <1>2, AnswerEffect, OthersEffect DEF AnswerMoves, OtherMoves, SyncInv, Typed
<1>3. ASSUME NEW m \in working, Broadcast(m) PROVE UNCHANGED <<shaken, queue, view>>
  BY <1>3 DEF Broadcast, shownVars
<1>4. ASSUME NEW v \in Workspace, Task(v)
      PROVE  Steady(w) /\ (w \in shaken => w \in shaken' \/ (Running(w) /\ queue'[w] = <<>>))
  <2>1. Running(v)  BY <1>4, TaskEffect DEF TaskMoves
  <2>2. ASSUME NEW docs, NEW late, NEW screen \in [Workspace -> (SUBSET Tab) \cup {None}],
               \A u \in Workspace \ {v} : screen[u] = view[u], Finish(v, docs, late, screen)
        PROVE  Steady(w) /\ (w \in shaken => w \in shaken' \/ (Running(w) /\ queue'[w] = <<>>))
    <3>1. Steady(w) /\ (w \in shaken => w \in shaken' \/ (w = v /\ Len(queue[w]) = 1))
      BY <2>1, <2>2, FinishSteady
    <3>2. queue'[v] = Tail(queue[v]) /\ (Tail(queue[v]) = <<>> <=> Len(queue[v]) = 1)
      BY <2>1, <2>2, FinishEffect, QueueEnds DEF SyncInv
    <3>. QED  BY <2>1, <3>1, <3>2
  <2>3. [view EXCEPT ![v] = None] \in [Workspace -> (SUBSET Tab) \cup {None}]
        /\ \A u \in Workspace \ {v} : [view EXCEPT ![v] = None][u] = view[u]
    BY <1>0
  <2>4. CASE Fail(v)
    <3> DEFINE screen == IF Head(queue[v]).op = "create" THEN [view EXCEPT ![v] = None]
                         ELSE RolledBack(v)
    <3>1. RolledBack(v) \in [Workspace -> (SUBSET Tab) \cup {None}]
      BY RolledBackType DEF SyncInv
    <3>2. \A u \in Workspace \ {v} : RolledBack(v)[u] = view[u]  BY <1>0 DEF RolledBack
    <3>3. screen \in [Workspace -> (SUBSET Tab) \cup {None}]
          /\ \A u \in Workspace \ {v} : screen[u] = view[u]
      BY <2>3, <3>1, <3>2
    <3>4. Finish(v, documents, deferred, screen)  BY <2>4 DEF Fail
    <3> HIDE DEF screen
    <3>. QED  BY <2>2, <3>3, <3>4
  <2>5. CASE OnDocument(v)
    <3>1. Accept(v, answer[v]) /\ UNCHANGED <<queue, shaken>>  BY <2>5 DEF OnDocument
    <3>. QED  BY <3>1, AcceptSteady
  <2>6. CASE OnApplied(v)
    <3>1. \/ Finish(v, [documents EXCEPT ![v] = None], deferred, [view EXCEPT ![v] = None])
          \/ Finish(v, [documents EXCEPT ![v] = answer[v]], deferred \cup {v}, view)
          \/ Finish(v, documents, deferred, view)
      BY <2>6 DEF OnApplied
    <3>. QED  BY <1>0, <2>2, <2>3, <3>1
  <2>7. CASE \E next \in Steps : Advance(v, next)
    BY <2>7 DEF Advance, shownVars, Steady
  <2>. QED
    BY <1>4, <2>4, <2>5, <2>6, <2>7
       DEF Task, Begin, ControlGranted, ControlRefused, OnConflict, OnRefused, Steps
<1>5. CASE OnEvent
  <2> DEFINE v == Head(events).ws
             r == Head(events).rev
  <2>1. Head(events) = events[1] /\ 1 \in 1 .. Len(events) /\ queue' = queue
    BY <1>5, TailOfEvents DEF OnEvent, SyncInv, taskVars
  <2>2. v \in Workspace  BY <2>1, EventType DEF SyncInv, TypeOK
  <2>3. CASE r # 0
    <3>1. Accept(v, r) /\ UNCHANGED shaken  BY <1>5, <2>3 DEF OnEvent
    <3> HIDE DEF v, r
    <3>. QED  BY <2>1, <2>2, <3>1, AcceptSteady
  <2>4. CASE r = 0
    <3>1. view' = [view EXCEPT ![v] = None]
          /\ shaken' = IF Running(v) THEN shaken \cup {v} ELSE shaken
      BY <1>5, <2>4 DEF OnEvent
    <3> HIDE DEF v
    <3>. QED  BY <1>0, <2>1, <2>2, <3>1 DEF Steady
  <2>. QED  BY <2>3, <2>4
<1>6. CASE OnList
  <2>1. queue' = queue /\ shaken' = shaken \cup {u \in Workspace : Running(u) /\ view'[u] # view[u]}
    BY <1>6 DEF OnList, taskVars
  <2>. QED  BY <2>1 DEF Steady
<1>7. CASE ServeImport \/ ServeList \/ Reconnect \/ Drop \/ UNCHANGED vars
  BY <1>7 DEF ServeImport, ServeList, Reconnect, Drop, vars, shownVars, taskVars, Steady
<1>. QED
  BY <1>1, <1>2, <1>3, <1>4, <1>5, <1>6, <1>7 DEF Next, Connecting, Steady

LEMMA ShownForm ==
  EditsShown <=> \A w \in Workspace \ shaken : \A i \in 1 .. Len(queue[w]) :
                   Pending(w, i) => Shown(w, queue[w][i].tab)
  BY DEF EditsShown, Pending, Shown

LEMMA StepShown ==
  ASSUME SyncInv, EditsShown, [Next]_vars
  PROVE  EditsShown'
<1> SUFFICES ASSUME NEW w \in Workspace \ shaken', NEW i \in 1 .. Len(queue'[w]), Pending(w, i)'
             PROVE  Shown(w, queue[w][i].tab)'
  BY DEF EditsShown, Pending, Shown
<1>1. w \notin shaken => \A k \in 1 .. Len(queue[w]) : Pending(w, k) => Shown(w, queue[w][k].tab)
  BY ShownForm
<1>2. CASE User(w)
  <2>1. shaken' = shaken  BY <1>2, UserEffect DEF SyncInv, UserMoves
  <2>. QED  BY <1>1, <1>2, <2>1, ShownAtOnce
<1>3. CASE ~User(w)
  <2>1. Steady(w) /\ (w \in shaken => w \in shaken' \/ (Running(w) /\ queue'[w] = <<>>))
    BY <1>3, StepSteady
  <2>2. queue'[w] # <<>>
    <3>1. queue'[w] = <<>> => Len(queue'[w]) = 0  BY EmptySeq
    <3>. QED  BY <3>1
  <2>3. w \notin shaken  BY <2>1, <2>2
  <2>. QED  BY <1>1, <2>1, <2>3, ShownKept DEF Steady
<1>. QED  BY <1>2, <1>3

\* What the user added and the agent has not judged stays on the screen, unless
\* an error, a removal or a new list replaced the whole document: no answer and
\* no event of another client's edit takes it away (acceptWorkspaceResponse,
\* projectOrDefer).
THEOREM AdditionsStay == Spec => []EditsShown
<1>1. Init => EditsShown
  <2>1. ASSUME Init, NEW w \in Workspace PROVE Len(queue[w]) = 0
    BY <2>1, EmptySeq DEF Init
  <2>. QED  BY <2>1 DEF EditsShown
<1>. QED  BY <1>1, StepShown, SyncInvariant, PTL DEF Spec

-----------------------------------------------------------------------------
(* Without the orders of AllRaces, the screen converges.                   *)

ShownParts ==
  /\ Phases /\ RemovalsLast /\ DeletedGone /\ NeverCommitted
  /\ SnapshotRecent /\ PresentShown /\ OvertakenDeferred

LEMMA UserConverges ==
  ASSUME ConvergedInv, Races = {}, NEW w \in Workspace, User(w)
  PROVE  ShownParts'
<1>1. /\ UNCHANGED <<initial, history, past, deleted, working, link, snapshot, events, documents, deferred,
                     step, base, answer>>
      /\ \A v \in Workspace \ {w} : queue'[v] = queue[v] /\ view'[v] = view[v]
  BY UserEffect DEF ConvergedInv, SyncInv, UserMoves
<1>2. /\ Running(w)' /\ link # "listing"
      /\ view[w] # None /\ Running(w) => Head(queue'[w]) = Head(queue[w])
      /\ view[w] # None \/ (history[w] = <<>> /\ ~Running(w) /\ Head(queue'[w]).op = "create")
  <2>1. ASSUME NEW op \in Operation, NEW screen, Enqueue(w, op, screen)
        PROVE  /\ Running(w)' /\ link # "listing"
               /\ Head(queue'[w]) = IF Running(w) THEN Head(queue[w]) ELSE op
    <3>1. queue'[w] = Append(queue[w], op)
      BY <2>1 DEF Enqueue, ConvergedInv, SyncInv, TypeOK
    <3>2. link # "listing"  BY <2>1 DEF Enqueue, MayEdit
    <3>. QED  BY <3>1, <3>2, QueueAppended DEF ConvergedInv, SyncInv, Running
  <2>2. CASE Create(w)  BY <2>1, <2>2 DEF Create, Operation
  <2>3. CASE Delete(w)  BY <2>1, <2>3 DEF Delete, Operation
  <2>4. ASSUME NEW t \in Tab, AddTab(w, t) \/ RemoveTab(w, t)
        PROVE  /\ Running(w)' /\ link # "listing" /\ view[w] # None
               /\ Running(w) => Head(queue'[w]) = Head(queue[w])
    BY <2>1, <2>4 DEF AddTab, RemoveTab, Operation
  <2>. QED  BY <2>1, <2>2, <2>3, <2>4 DEF User, Create, Delete
<1>3. Phases'  BY <1>1, <1>2 DEF ConvergedInv, Phases
<1>4. RemovalsLast'  BY <1>1 DEF ConvergedInv, RemovalsLast, Announced
<1>5. DeletedGone'
  <2>1. w \in deleted => history[w] # <<>>  BY DEF ConvergedInv, RemovalsLast
  <2>2. \A v \in deleted : v \in Workspace  BY DEF ConvergedInv, SyncInv, TypeOK
  <2>. QED
    BY <1>1, <1>2, <2>1, <2>2 DEF ConvergedInv, DeletedGone, Announced, OnTheWay, Running
<1>6. NeverCommitted'
  <2> SUFFICES ASSUME NEW v \in Workspace, history[v] = <<>>
               PROVE  /\ documents[v] # None => link = "import" /\ snapshot = None /\ v \in initial
                      /\ link = "up" => view'[v] = None \/ (Running(v)' /\ Head(queue'[v]).op = "create")
    BY <1>1 DEF NeverCommitted
  <2>1. documents[v] # None => link = "import" /\ snapshot = None /\ v \in initial
    BY DEF ConvergedInv, NeverCommitted
  <2>2. CASE v # w  BY <1>1, <2>1, <2>2 DEF ConvergedInv, NeverCommitted, Running
  <2>3. CASE v = w /\ link = "up" /\ view[w] # None
    BY <1>2, <2>1, <2>3 DEF ConvergedInv, NeverCommitted
  <2>. QED  BY <1>2, <2>1, <2>2, <2>3
<1>7. SnapshotRecent'  BY <1>1 DEF ConvergedInv, SnapshotRecent, Announced
<1>8. PresentShown'
  BY <1>1, <1>2 DEF ConvergedInv, PresentShown, Present, Announced, OnTheWay, Running, Content
<1>9. OvertakenDeferred'
  BY <1>1 DEF ConvergedInv, OvertakenDeferred, Applying
<1>. QED  BY <1>3, <1>4, <1>5, <1>6, <1>7, <1>8, <1>9 DEF ShownParts

\* What a step of the running task does to the screen and to what is remembered.
TaskWaits(w) ==
  /\ queue'[w] = queue[w] /\ documents'[w] = documents[w] /\ view'[w] = view[w]

TaskReads(w, r) ==
  /\ queue'[w] = queue[w] /\ view'[w] = view[w] /\ ~Applying(w) /\ r \in 1 .. Len(history[w])
  /\ documents'[w] = IF Newer(w, r) THEN r ELSE documents[w]

TaskFails(w) ==
  LET screen == IF Head(queue[w]).op = "create" THEN None
                ELSE IF documents[w] = None THEN view[w] ELSE Content(w, documents[w])
  IN /\ queue'[w] = Tail(queue[w]) /\ documents'[w] = documents[w]
     /\ link = "up" => Head(queue[w]).op # "create"
     /\ view'[w] = IF Len(queue[w]) = 1 /\ w \in deferred /\ documents[w] # None
                   THEN Content(w, documents[w]) ELSE screen

TaskDeletes(w) ==
  /\ answer[w] = 0 /\ queue'[w] = Tail(queue[w])
  /\ documents'[w] = None /\ view'[w] = None

TaskApplies(w, r) ==
  /\ queue'[w] = Tail(queue[w]) /\ Applying(w) /\ r \in 1 .. Len(history[w])
  /\ documents'[w] = IF Newer(w, r) THEN r ELSE documents[w]
  /\ view'[w] = IF Len(queue[w]) = 1 /\ (Newer(w, r) \/ w \in deferred)
                THEN Content(w, documents'[w]) ELSE view[w]

LEMMA TaskShows ==
  ASSUME SyncInv, NEW w \in Workspace, Task(w)
  PROVE  /\ \A v \in Workspace \ {w} : /\ documents'[v] = documents[v] /\ view'[v] = view[v]
                                       /\ v \in deferred' <=> v \in deferred
         /\ \/ TaskWaits(w) \/ TaskFails(w)
            \/ answer[w] \in Nat
               /\ (TaskReads(w, answer[w]) \/ TaskDeletes(w) \/ TaskApplies(w, answer[w]))
<1> DEFINE r == answer[w]
<1>0. /\ view \in [Workspace -> (SUBSET Tab) \cup {None}]
      /\ documents \in [Workspace -> Nat \cup {None}]
      /\ Len(history[w]) \in Nat
  BY HistoryType DEF SyncInv, TypeOK
<1>1. Running(w) /\ Unasked(w)  BY TaskEffect DEF TaskMoves
<1>2. \/ Fail(w) /\ (link = "up" => Head(queue[w]).op # "create")
      \/ OnDocument(w) \/ OnApplied(w) \/ \E next \in Steps : Advance(w, next)
  <2>1. Head(queue[w]).op = "create" =>
          step[w] \in {"start", "apply"} /\ answer[w] \notin {Conflict, Failed}
    BY <1>1, ConstantsAssumption DEF SyncInv, CreatedOnce
  <2>2. CASE Begin(w)  BY <2>2 DEF Begin, Connected, Steps
  <2>3. CASE ControlGranted(w)  BY <2>3 DEF ControlGranted, Steps
  <2>4. CASE ControlRefused(w)  BY <2>1, <2>4 DEF ControlRefused
  <2>5. CASE OnConflict(w)  BY <2>1, <2>5 DEF OnConflict, Steps
  <2>6. CASE OnRefused(w)  BY <2>1, <2>6 DEF OnRefused
  <2>. QED  BY <2>2, <2>3, <2>4, <2>5, <2>6 DEF Task
<1>3. CASE Fail(w) /\ (link = "up" => Head(queue[w]).op # "create")
  <2> DEFINE screen == IF Head(queue[w]).op = "create" THEN [view EXCEPT ![w] = None]
                       ELSE RolledBack(w)
  <2>1. RolledBack(w) \in [Workspace -> (SUBSET Tab) \cup {None}]
    BY RolledBackType DEF SyncInv
  <2>2. /\ screen \in [Workspace -> (SUBSET Tab) \cup {None}]
        /\ \A u \in Workspace \ {w} : screen[u] = view[u]
        /\ screen[w] = IF Head(queue[w]).op = "create" THEN None
                       ELSE IF documents[w] = None THEN view[w] ELSE Content(w, documents[w])
    BY <1>0, <2>1 DEF RolledBack
  <2>3. Finish(w, documents, deferred, screen)  BY <1>3 DEF Fail
  <2> HIDE DEF screen
  <2>4. /\ queue'[w] = Tail(queue[w]) /\ documents' = documents
        /\ \A v \in Workspace \ {w} : view'[v] = screen[v] /\ (v \in deferred' <=> v \in deferred)
        /\ Len(queue[w]) = 1 =>
             view'[w] = IF w \in deferred /\ documents[w] # None THEN Content(w, documents[w]) ELSE screen[w]
        /\ Len(queue[w]) # 1 => view' = screen
    BY <1>1, <2>2, <2>3, FinishEffect DEF SyncInv
  <2>. QED  BY <1>3, <2>2, <2>4 DEF TaskFails
<1>4. CASE \E next \in Steps : Advance(w, next)
  BY <1>4 DEF Advance, shownVars, TaskWaits
<1>5. CASE OnDocument(w)
  <2>1. r \in Nat /\ ~Applying(w)  BY <1>5 DEF OnDocument, Applying
  <2>2. r # 0 /\ r <= Len(history[w])
    BY <2>1 DEF SyncInv, TasksStand, VersionsKnown
  <2>3. r \in 1 .. Len(history[w])  BY <1>0, <2>1, <2>2
  <2>4. /\ queue' = queue /\ view' = view
        /\ IF Newer(w, r)
           THEN documents' = [documents EXCEPT ![w] = r] /\ deferred' = deferred \cup {w}
           ELSE documents' = documents /\ deferred' = deferred
    BY <1>1, <1>5 DEF OnDocument, Accept, Held, shownVars
  <2> HIDE DEF r
  <2>5. TaskReads(w, r)  BY <1>0, <2>1, <2>3, <2>4 DEF TaskReads
  <2>6. \A v \in Workspace \ {w} : /\ documents'[v] = documents[v] /\ view'[v] = view[v]
                                   /\ v \in deferred' <=> v \in deferred
    BY <1>0, <2>4
  <2>. QED  BY <2>1, <2>5, <2>6 DEF r
<1>6. CASE OnApplied(w)
  <2>1. r \in Nat /\ Applying(w)  BY <1>6 DEF OnApplied
  <2>2. r <= Len(history[w])  BY <2>1 DEF SyncInv, VersionsKnown
  <2>3. CASE Head(queue[w]).op = "delete"
    <3> DEFINE docs == [documents EXCEPT ![w] = None]
               screen == [view EXCEPT ![w] = None]
    <3>1. Finish(w, docs, deferred, screen)  BY <1>6, <2>3 DEF OnApplied
    <3>2. /\ docs[w] = None /\ \A v \in Workspace \ {w} : docs[v] = documents[v]
          /\ screen \in [Workspace -> (SUBSET Tab) \cup {None}] /\ screen[w] = None
          /\ \A v \in Workspace \ {w} : screen[v] = view[v]
      BY <1>0
    <3> HIDE DEF docs, screen
    <3>3. /\ queue'[w] = Tail(queue[w]) /\ documents' = docs
          /\ \A v \in Workspace \ {w} : view'[v] = screen[v] /\ (v \in deferred' <=> v \in deferred)
          /\ Len(queue[w]) = 1 =>
               view'[w] = IF w \in deferred /\ docs[w] # None THEN Content(w, docs[w]) ELSE screen[w]
          /\ Len(queue[w]) # 1 => view' = screen
      BY <1>1, <3>1, <3>2, FinishEffect DEF SyncInv
    <3>4. answer[w] = 0  BY <2>1, <2>3 DEF SyncInv, TasksStand
    <3>. QED  BY <2>1, <3>2, <3>3, <3>4 DEF TaskDeletes
  <2>4. CASE Head(queue[w]).op # "delete"
    <3> DEFINE docs == IF Newer(w, r) THEN [documents EXCEPT ![w] = r] ELSE documents
               late == IF Newer(w, r) THEN deferred \cup {w} ELSE deferred
    <3>1. Finish(w, docs, late, view)  BY <1>6, <2>4 DEF OnApplied
    <3>2. r \in 1 .. Len(history[w])
      BY <1>0, <2>1, <2>2, <2>4 DEF SyncInv, TasksStand
    <3>3. /\ docs[w] = IF Newer(w, r) THEN r ELSE documents[w]
          /\ docs[w] # None
          /\ \A v \in Workspace \ {w} : docs[v] = documents[v] /\ (v \in late <=> v \in deferred)
          /\ w \in late <=> Newer(w, r) \/ w \in deferred
      BY <1>0, <2>1, ConstantsAssumption DEF Newer
    <3> HIDE DEF docs, late, r
    <3>4. /\ queue'[w] = Tail(queue[w]) /\ documents' = docs
          /\ \A v \in Workspace \ {w} : view'[v] = view[v] /\ (v \in deferred' <=> v \in late)
          /\ Len(queue[w]) = 1 =>
               view'[w] = IF w \in late /\ docs[w] # None THEN Content(w, docs[w]) ELSE view[w]
          /\ Len(queue[w]) # 1 => view' = view
      BY <1>0, <1>1, <3>1, FinishEffect DEF SyncInv
    <3>5. TaskApplies(w, r)  BY <2>1, <3>2, <3>3, <3>4 DEF TaskApplies
    <3>. QED  BY <2>1, <3>3, <3>4, <3>5 DEF r
  <2>. QED  BY <2>3, <2>4
<1>. QED  BY <1>2, <1>3, <1>4, <1>5, <1>6

\* The newest version is not replaced by an older one.
LEMMA NewestKept ==
  ASSUME SyncInv, NoRelic, NEW w \in Workspace, NEW r \in 1 .. Len(history[w]), r > past[w],
         NEW d, d = IF Newer(w, r) THEN r ELSE documents[w]
  PROVE  documents[w] = Len(history[w]) => d = Len(history[w])
<1> DEFINE n == Len(history[w])
<1>1. n \in Nat /\ r \in 1 .. n  BY HistoryType DEF SyncInv
<1> SUFFICES ASSUME documents[w] = n PROVE d = n  OBVIOUS
<1> HIDE DEF n
<1>2. r \in Nat /\ r <= n  BY <1>1
<1>3. CASE Newer(w, r)
  <2>1. None \notin Nat  BY ConstantsAssumption
  <2>2. documents[w] = None \/ r >= documents[w]  BY <1>2, <1>3, NewerPlain
  <2>3. r >= n  BY <1>1, <2>1, <2>2
  <2>. QED  BY <1>1, <1>2, <1>3, <2>3
<1>. QED  BY <1>3

LEMMA TaskConverges ==
  ASSUME ConvergedInv, Races = {}, NEW w \in Workspace, Task(w)
  PROVE  ShownParts'
<1>1. /\ Running(w) /\ Unasked(w) /\ link # "import"
      /\ UNCHANGED <<initial, history, past, deleted, working, link, snapshot, events>>
      /\ \A v \in Workspace \ {w} :
           queue'[v] = queue[v] /\ step'[v] = step[v] /\ answer'[v] = answer[v]
      /\ answer'[w] = None
  BY TaskEffect DEF ConvergedInv, TaskMoves
<1>2. /\ \A v \in Workspace \ {w} :
           documents'[v] = documents[v] /\ view'[v] = view[v] /\ (v \in deferred' <=> v \in deferred)
      /\ \/ TaskWaits(w) \/ TaskFails(w)
         \/ answer[w] \in Nat
            /\ (TaskReads(w, answer[w]) \/ TaskDeletes(w) \/ TaskApplies(w, answer[w]))
  BY TaskShows DEF ConvergedInv
<1>3. link \in {"down", "up"} /\ snapshot = None
  BY <1>1 DEF ConvergedInv, SyncInv, TypeOK, Phases, Listing
<1>4. None \notin Nat  BY ConstantsAssumption
<1>5. /\ \A v \in Workspace : Len(history[v]) \in Nat
      /\ \A v \in Workspace : documents[v] \in Nat \cup {None}
      /\ \A v \in deleted : v \in Workspace
      /\ \A m \in working : m.ws \in Workspace
  BY HistoryType DEF ConvergedInv, SyncInv, TypeOK
<1>6. \/ TaskWaits(w) \/ TaskFails(w)
      \/ TaskReads(w, answer[w]) /\ w \notin deleted
      \/ TaskDeletes(w) /\ w \in deleted
      \/ TaskApplies(w, answer[w]) /\ w \notin deleted /\ answer[w] \in Nat
  <2>1. TaskReads(w, answer[w]) \/ TaskApplies(w, answer[w]) => answer[w] # 0
    BY <1>5 DEF TaskReads, TaskApplies
  <2>. QED  BY <1>2, <2>1 DEF ConvergedInv, RemovalsLast, TaskDeletes
<1>7. /\ Len(queue[w]) \in Nat \ {0} /\ Len(Tail(queue[w])) = Len(queue[w]) - 1
      /\ Tail(queue[w]) = <<>> <=> Len(queue[w]) = 1
  BY <1>1, QueueEnds DEF ConvergedInv, SyncInv
<1>15. answer[w] \in Nat \ {0} =>
         answer[w] > past[w]
         /\ (Newer(w, answer[w]) <=> documents[w] = None \/ answer[w] >= documents[w])
  <2>1. answer[w] \in Nat \ {0} => answer[w] > past[w]  BY DEF ConvergedInv, NoRelic
  <2>. QED  BY <2>1, NewerPlain DEF ConvergedInv
<1>8. Phases'  BY <1>1, <1>3 DEF ConvergedInv, Phases
<1>9. RemovalsLast'
  BY <1>1, <1>4 DEF ConvergedInv, RemovalsLast, Announced
<1>10. DeletedGone'
  <2> SUFFICES ASSUME link = "up", NEW v \in deleted, ~Announced(v, 0), ~OnTheWay(v, 0)
               PROVE  view'[v] = None /\ (documents'[v] = None \/ ~Running(v)')
    BY <1>1, <1>3 DEF DeletedGone, Announced, OnTheWay
  <2>1. view[v] = None /\ (documents[v] = None \/ ~Running(v))
    BY DEF ConvergedInv, DeletedGone
  <2>2. CASE v # w  BY <1>1, <1>2, <1>5, <2>1, <2>2 DEF Running
  <2>3. CASE v = w
    BY <1>1, <1>6, <2>1, <2>3 DEF TaskWaits, TaskFails, TaskDeletes
  <2>. QED  BY <2>2, <2>3
<1>11. NeverCommitted'
  <2> SUFFICES ASSUME NEW v \in Workspace, history[v] = <<>>
               PROVE  /\ documents'[v] = None
                      /\ link = "up" => view'[v] = None \/ (Running(v)' /\ Head(queue'[v]).op = "create")
    BY <1>1 DEF NeverCommitted
  <2>1. /\ documents[v] = None
        /\ link = "up" => view[v] = None \/ (Running(v) /\ Head(queue[v]).op = "create")
    BY <1>3 DEF ConvergedInv, NeverCommitted
  <2>2. CASE v # w  BY <1>1, <1>2, <2>1, <2>2 DEF Running
  <2>3. CASE v = w
    <3>1. w \notin deleted /\ Len(history[w]) = 0
      BY <2>3, EmptySeq DEF ConvergedInv, RemovalsLast
    <3>2. TaskWaits(w) \/ TaskFails(w)
      BY <1>6, <3>1 DEF TaskReads, TaskApplies
    <3>. QED  BY <1>1, <2>1, <2>3, <3>2 DEF TaskWaits, TaskFails, Running
  <2>. QED  BY <2>2, <2>3
<1>12. SnapshotRecent'  BY <1>1, <1>3 DEF SnapshotRecent
<1>13. PresentShown'
  <2> SUFFICES ASSUME link = "up", NEW v \in Workspace, Present(v)
               PROVE  /\ \/ documents'[v] = Len(history[v])
                         \/ Announced(v, Len(history[v])) \/ OnTheWay(v, Len(history[v]))
                      /\ ~Running(v)' /\ documents'[v] # None =>
                           view'[v] = Content(v, documents'[v])
    BY <1>1 DEF PresentShown, Present, Announced, OnTheWay, Content
  <2>1. /\ \/ documents[v] = Len(history[v])
           \/ Announced(v, Len(history[v])) \/ OnTheWay(v, Len(history[v]))
        /\ ~Running(v) /\ documents[v] # None => view[v] = Content(v, documents[v])
    BY DEF ConvergedInv, PresentShown
  <2>2. CASE v # w  BY <1>1, <1>2, <2>1, <2>2 DEF Running
  <2>3. CASE v = w
    <3>1. w \notin deleted  BY <2>3 DEF Present
    <3>2. CASE TaskWaits(w)  BY <1>1, <2>1, <2>3, <3>2 DEF TaskWaits, Running
    <3>3. CASE TaskFails(w)
      BY <1>7, <2>1, <2>3, <3>3 DEF TaskFails, Running
    <3>4. CASE TaskReads(w, answer[w])
      <4>1. Running(w)'  BY <1>1, <3>4 DEF TaskReads, Running
      <4>2. documents[w] = Len(history[w]) => documents'[w] = Len(history[w])
        BY <1>2, <1>5, <1>15, <3>4, NewestKept DEF ConvergedInv, TaskReads
      <4>. QED  BY <2>1, <2>3, <4>1, <4>2
    <3>5. CASE TaskApplies(w, answer[w]) /\ answer[w] \in Nat
      <4>1. documents[w] = Len(history[w]) => documents'[w] = Len(history[w])
        BY <1>5, <1>15, <3>5, NewestKept DEF ConvergedInv, TaskApplies
      <4>2. Newer(w, answer[w]) \/ w \in deferred
        <5>1. answer[w] # 0  BY <1>5, <3>5 DEF TaskApplies
        <5>2. Applying(w)  BY <3>5 DEF TaskApplies
        <5>. QED  BY <1>5, <1>15, <3>5, <5>1, <5>2 DEF ConvergedInv, OvertakenDeferred
      <4>3. ~Running(w)' => Len(queue[w]) = 1  BY <1>7, <3>5 DEF TaskApplies, Running
      <4>4. Len(queue[w]) = 1 => view'[w] = Content(w, documents'[w])
        BY <3>5, <4>2 DEF TaskApplies
      <4>. QED  BY <2>1, <2>3, <4>1, <4>3, <4>4
    <3>. QED  BY <1>6, <3>1, <3>2, <3>3, <3>4, <3>5
  <2>. QED  BY <2>2, <2>3
<1>14. OvertakenDeferred'
  <2>1. \A m \in working : m.asked => m.ws \in Workspace \ {w}
    BY <1>1, <1>5 DEF Unasked
  <2>2. \A m \in working' :
          m.asked /\ m.rev # 0 /\ documents'[m.ws] # None /\ documents'[m.ws] >= m.rev
          => m.ws \in deferred'
    BY <1>1, <1>2, <2>1 DEF ConvergedInv, OvertakenDeferred
  <2>3. ASSUME NEW v \in Workspace, Applying(v)', answer'[v] \in Nat \ {0},
               documents'[v] # None, documents'[v] >= answer'[v]
        PROVE  v \in deferred'
    <3>1. v # w  BY <1>1, <1>4, <2>3
    <3>. QED  BY <1>1, <1>2, <2>3, <3>1 DEF ConvergedInv, OvertakenDeferred, Applying
  <2>. QED  BY <2>2, <2>3 DEF OvertakenDeferred
<1>. QED  BY <1>8, <1>9, <1>10, <1>11, <1>12, <1>13, <1>14 DEF ShownParts

\* A new version: it is still to be announced, and nobody has it yet.
LEMMA CommitConverges ==
  ASSUME ConvergedInv, Races = {}, NEW w \in Workspace, NEW tabs, NEW asked \in BOOLEAN,
         CommitMoves(w, tabs, asked), w \notin deleted,
         history[w] # <<>> \/ (Running(w) /\ snapshot = None),
         UNCHANGED <<link, snapshot, events, documents, deferred, view, queue, step, answer>>
  PROVE  ShownParts'
<1> DEFINE n == Len(history[w])
           m0 == [ws |-> w, rev |-> n + 1, asked |-> asked]
<1>1. /\ \A v \in Workspace : Len(history[v]) \in Nat /\ documents[v] \in Nat \cup {None}
      /\ \A v \in deleted : v \in Workspace
      /\ \A m \in working : m.ws \in Workspace /\ m.rev \in Nat
  BY HistoryType DEF ConvergedInv, SyncInv, TypeOK
<1>2. /\ m0.ws = w /\ m0.rev = n + 1 /\ m0.rev # 0 /\ n \in Nat  BY <1>1
<1>3. /\ Len(history'[w]) = n + 1 /\ working' = working \cup {m0} /\ deleted' = deleted
      /\ \A v \in Workspace \ {w} : history'[v] = history[v]
      /\ \A r \in 1 .. n : history'[w][r] = history[w][r]
  BY DEF CommitMoves
<1> HIDE DEF n, m0
<1>4. history'[w] # <<>>
  <2>1. history'[w] = <<>> => Len(history'[w]) = 0  BY EmptySeq
  <2>. QED  BY <1>2, <1>3, <2>1
<1>5. \A v \in Workspace, r \in Nat : Announced(v, r) => Announced(v, r)'
  BY <1>3 DEF Announced
<1>6. Announced(w, Len(history[w]))'  BY <1>2, <1>3 DEF Announced
<1>7. \A v \in Workspace : documents[v] # None => Content(v, documents[v])' = Content(v, documents[v])
  <2> SUFFICES ASSUME NEW v \in Workspace, documents[v] # None
               PROVE  Content(v, documents[v])' = Content(v, documents[v])
    OBVIOUS
  <2>1. documents[v] \in 0 .. Len(history[v])
    BY <1>1 DEF ConvergedInv, SyncInv, VersionsKnown
  <2>2. documents[v] # 0 => history'[v][documents[v]] = history[v][documents[v]]
    BY <1>3, <2>1 DEF n
  <2>. QED  BY <2>2 DEF Content
<1>8. Phases'  BY DEF ConvergedInv, Phases, Running
<1>9. RemovalsLast'
  <2>1. \A v \in deleted : history'[v] # <<>>  BY <1>1, <1>3 DEF ConvergedInv, RemovalsLast
  <2>2. \A m \in working' : m.rev = 0 <=> m.ws \in deleted
    BY <1>2, <1>3 DEF ConvergedInv, RemovalsLast
  <2>3. ASSUME NEW i \in 1 .. Len(events)
        PROVE  IF events[i].rev = 0 THEN events[i].ws \in deleted
               ELSE events[i].ws \in deleted =>
                      \/ Announced(events[i].ws, 0)'
                      \/ \E j \in i + 1 .. Len(events) : events[j] = [ws |-> events[i].ws, rev |-> 0]
    BY <1>1, <1>5 DEF ConvergedInv, RemovalsLast
  <2>. QED  BY <1>3, <2>1, <2>2, <2>3 DEF ConvergedInv, RemovalsLast
<1>10. DeletedGone'
  BY <1>1, <1>3, <1>5 DEF ConvergedInv, DeletedGone, OnTheWay, Running
<1>11. NeverCommitted'
  <2>1. \A v \in Workspace : history'[v] = <<>> => history[v] = <<>>  BY <1>3, <1>4
  <2>. QED  BY <1>3, <2>1 DEF ConvergedInv, NeverCommitted, Running, CommitMoves
<1>12. SnapshotRecent'
  <2> SUFFICES ASSUME snapshot # None, NEW v \in Workspace
               PROVE  /\ snapshot[v] # 0 =>
                           /\ documents[v] # None => documents[v] <= snapshot[v]
                           /\ \A i \in 1 .. Len(events) : events[i].ws = v => events[i].rev <= snapshot[v]
                           /\ v \in deleted => Announced(v, 0)'
                      /\ v \notin deleted =>
                           \/ snapshot[v] = Len(history'[v])
                           \/ snapshot[v] # 0 /\ Announced(v, Len(history[v]))'
    BY <1>3 DEF SnapshotRecent
  <2>1. CASE v # w  BY <1>1, <1>3, <1>5, <2>1 DEF ConvergedInv, SnapshotRecent
  <2>2. CASE v = w
    <3>2. n # 0  BY <1>1, EmptySeq, HistoryType DEF n, ConvergedInv, SyncInv
    <3>3. snapshot[w] = Len(history[w]) \/ snapshot[w] # 0  BY DEF ConvergedInv, SnapshotRecent
    <3>4. snapshot[w] # 0  BY <3>2, <3>3 DEF n
    <3>. QED  BY <1>3, <1>6, <2>2, <3>4 DEF ConvergedInv, SnapshotRecent
  <2>. QED  BY <2>1, <2>2
<1>13. PresentShown'
  <2> SUFFICES ASSUME link = "up", NEW v \in Workspace, history'[v] # <<>>, v \notin deleted
               PROVE  /\ \/ documents[v] = Len(history'[v])
                         \/ Announced(v, Len(history[v]))' \/ OnTheWay(v, Len(history'[v]))
                      /\ ~Running(v) /\ documents[v] # None => view[v] = Content(v, documents[v])'
    BY <1>3 DEF PresentShown, Present, OnTheWay, Running
  <2>1. CASE v # w
    <3>1. history'[v] = history[v] /\ Present(v)  BY <1>3, <2>1 DEF Present
    <3>2. Len(history'[v]) \in Nat  BY <1>1, <3>1
    <3>. QED  BY <1>5, <1>7, <3>1, <3>2 DEF ConvergedInv, PresentShown
  <2>2. CASE v = w
    <3>1. ~Running(w) => Present(w)  BY DEF Present
    <3>. QED  BY <1>6, <1>7, <2>2, <3>1 DEF ConvergedInv, PresentShown
  <2>. QED  BY <2>1, <2>2
<1>14. OvertakenDeferred'
  <2>1. documents[w] # None => ~(documents[w] >= n + 1)
    BY <1>1, <1>2 DEF ConvergedInv, SyncInv, VersionsKnown, n
  <2>2. \A m \in working' :
          m.asked /\ m.rev # 0 /\ documents[m.ws] # None /\ documents[m.ws] >= m.rev
          => m.ws \in deferred
    BY <1>2, <1>3, <2>1 DEF ConvergedInv, OvertakenDeferred
  <2>. QED  BY <2>2 DEF ConvergedInv, OvertakenDeferred, Applying
<1>. QED  BY <1>8, <1>9, <1>10, <1>11, <1>12, <1>13, <1>14 DEF ShownParts

\* A removal: nothing else is still to be said of the workspace.
LEMMA RemovalConverges ==
  ASSUME ConvergedInv, Races = {}, NEW w \in Workspace, NEW asked \in BOOLEAN,
         CommitRemoval(w, asked), Present(w),
         UNCHANGED <<link, snapshot, events, documents, deferred, view, queue, step, answer>>
  PROVE  ShownParts'
<1> DEFINE m0 == [ws |-> w, rev |-> 0, asked |-> asked]
<1>1. /\ \A m \in working : m.ws # w
      /\ answer[w] \notin Nat
      /\ working' = working \cup {m0} /\ deleted' = deleted \cup {w} /\ history' = history
  BY DEF CommitRemoval, MayDelete
<1>2. m0.ws = w /\ m0.rev = 0  OBVIOUS
<1> HIDE DEF m0
<1>3. \A v, r : Announced(v, r) => Announced(v, r)'  BY <1>1 DEF Announced
<1>4. Announced(w, 0)'  BY <1>1, <1>2 DEF Announced
<1>5. \A v \in Workspace : Present(v)' => Present(v)  BY <1>1 DEF Present
<1>6. Phases'  BY DEF ConvergedInv, Phases, Running
<1>7. RemovalsLast'
  <2>1. \A v \in deleted' : history'[v] # <<>>
    BY <1>1 DEF ConvergedInv, RemovalsLast, Present
  <2>2. \A m \in working' : m.rev = 0 <=> m.ws \in deleted'
    BY <1>1, <1>2 DEF ConvergedInv, RemovalsLast
  <2>3. \A v \in Workspace : answer[v] \in Nat => (answer[v] = 0 <=> v \in deleted')
    BY <1>1 DEF ConvergedInv, RemovalsLast
  <2>4. ASSUME NEW i \in 1 .. Len(events)
        PROVE  IF events[i].rev = 0 THEN events[i].ws \in deleted'
               ELSE events[i].ws \in deleted' =>
                      \/ Announced(events[i].ws, 0)'
                      \/ \E j \in i + 1 .. Len(events) : events[j] = [ws |-> events[i].ws, rev |-> 0]
    BY <1>1, <1>3, <1>4 DEF ConvergedInv, RemovalsLast
  <2>. QED  BY <2>1, <2>2, <2>3, <2>4 DEF ConvergedInv, RemovalsLast
<1>8. DeletedGone'
  BY <1>1, <1>3, <1>4 DEF ConvergedInv, DeletedGone, OnTheWay, Running
<1>9. NeverCommitted'
  BY <1>1 DEF ConvergedInv, NeverCommitted, Running, CommitRemoval
<1>10. SnapshotRecent'
  BY <1>1, <1>3, <1>4 DEF ConvergedInv, SnapshotRecent
<1>11. PresentShown'
  <2>1. \A v \in Workspace, r \in Nat : Content(v, r)' = Content(v, r)  BY <1>1 DEF Content
  <2>2. \A v \in Workspace : documents[v] \in Nat \cup {None}
    BY DEF ConvergedInv, SyncInv, TypeOK
  <2>. QED  BY <1>1, <1>3, <1>5, <2>1, <2>2 DEF ConvergedInv, PresentShown, OnTheWay, Running
<1>12. OvertakenDeferred'
  BY <1>1, <1>2 DEF ConvergedInv, OvertakenDeferred, Applying
<1>. QED  BY <1>6, <1>7, <1>8, <1>9, <1>10, <1>11, <1>12 DEF ShownParts

LEMMA AnswerConverges ==
  ASSUME ConvergedInv, Races = {}, NEW w \in Workspace, Answering(w)
  PROVE  ShownParts'
<1>1. AnswerMoves(w)  BY AnswerEffect DEF ConvergedInv
<1>2. Running(w)
      /\ UNCHANGED <<link, snapshot, events, documents, deferred, view, queue, step>>
  BY <1>1 DEF AnswerMoves
<1>3. CASE /\ UNCHANGED agentVars
           /\ answer'[w] \in Nat => /\ step[w] \in {"get", "get again"} /\ Present(w)
                                    /\ answer'[w] = Len(history[w])
           /\ \A v \in Workspace \ {w} : answer'[v] = answer[v]
  <2>1. UNCHANGED <<initial, history, past, deleted, working>>  BY <1>3 DEF agentVars
  <2>2. answer'[w] \in Nat => w \notin deleted /\ answer'[w] # 0 /\ ~Applying(w)
    <3>1. history[w] # <<>> => Len(history[w]) # 0
      BY HistoryType, EmptySeq DEF ConvergedInv, SyncInv
    <3>. QED  BY <1>3, <3>1 DEF Present, Applying
  <2>3. Phases' /\ DeletedGone' /\ NeverCommitted' /\ SnapshotRecent'
    BY <1>2, <2>1
       DEF ConvergedInv, Phases, DeletedGone, NeverCommitted, SnapshotRecent, Announced, OnTheWay, Running
  <2>4. PresentShown'
    BY <1>2, <2>1
       DEF ConvergedInv, PresentShown, Present, Content, Announced, OnTheWay, Running
  <2>5. RemovalsLast'
    BY <1>2, <1>3, <2>1, <2>2 DEF ConvergedInv, RemovalsLast, Announced
  <2>6. OvertakenDeferred'
    BY <1>2, <1>3, <2>1, <2>2 DEF ConvergedInv, OvertakenDeferred, Applying
  <2>. QED  BY <2>3, <2>4, <2>5, <2>6 DEF ShownParts
<1>4. ASSUME NEW tabs \in SUBSET Tab, CommitMoves(w, tabs, TRUE), answer' = answer,
             Head(queue[w]).op = "create" \/ Present(w), Applying(w)
      PROVE  ShownParts'
  <2>1. w \notin deleted
    <3>1. Unasked(w) /\ answer[w] = None /\ link # "down"
      BY <1>1 DEF AnswerMoves, Requested, Unasked
    <3>2. Head(queue[w]).op = "create" => history[w] = <<>>
      BY <1>2, <3>1 DEF ConvergedInv, SyncInv, CreatedOnce, Unasked
    <3>. QED  BY <1>4, <3>2 DEF Present, ConvergedInv, RemovalsLast
  <2>2. snapshot = None
    <3>1. step[w] # "start"  BY <1>4 DEF Applying
    <3>. QED  BY <1>2, <3>1 DEF ConvergedInv, SyncInv, CreatedOnce, Listing, Phases
  <2>. QED  BY <1>2, <1>4, <2>1, <2>2, CommitConverges
<1>5. CASE answer' = answer /\ Present(w) /\ CommitRemoval(w, TRUE)
  BY <1>2, <1>5, RemovalConverges
<1>. QED  BY <1>1, <1>3, <1>4, <1>5 DEF AnswerMoves

LEMMA OthersConverge ==
  ASSUME ConvergedInv, Races = {}, NEW w \in Workspace, Others(w)
  PROVE  ShownParts'
<1>1. OtherMoves(w)  BY OthersEffect DEF ConvergedInv, SyncInv, Typed
<1>2. /\ Present(w) /\ history[w] # <<>> /\ w \notin deleted
      /\ UNCHANGED <<link, snapshot, events, documents, deferred, view, queue, step, answer>>
  BY <1>1 DEF OtherMoves, Present
<1>3. ASSUME NEW tabs \in SUBSET Tab, CommitMoves(w, tabs, FALSE) PROVE ShownParts'
  BY <1>2, <1>3, CommitConverges
<1>4. CASE CommitRemoval(w, FALSE)  BY <1>2, <1>4, RemovalConverges
<1>. QED  BY <1>1, <1>3, <1>4 DEF OtherMoves

\* The broadcast puts what was announced on its way.
LEMMA BroadcastConverges ==
  ASSUME ConvergedInv, Races = {}, NEW m \in working, Broadcast(m)
  PROVE  ShownParts'
<1> DEFINE w == m.ws
           r == m.rev
           n == Len(events)
           e == [ws |-> m.ws, rev |-> m.rev]
<1>1. /\ w \in Workspace /\ r \in Nat /\ m.asked \in BOOLEAN /\ events \in Seq(Event) /\ n \in Nat
      /\ \A v \in deleted : v \in Workspace
      /\ e \in Event /\ e.ws = w /\ e.rev = r
  BY DEF ConvergedInv, SyncInv, TypeOK, Event
<1>2. /\ UNCHANGED <<initial, history, past, deleted, link, snapshot, documents, deferred, view, queue, step>>
      /\ working' = working \ {m} /\ snapshot = None
  BY DEF Broadcast, shownVars
<1>3. /\ link = "down" => events' = <<>> /\ Len(events') = 0
      /\ link # "down" => /\ Len(events') = n + 1 /\ events'[n + 1] = e
                          /\ \A i \in 1 .. n : events'[i] = events[i]
  <2>1. link = "down" => events' = <<>>  BY DEF Broadcast, ConvergedInv, Phases
  <2>2. link # "down" => events' = Append(events, e)  BY DEF Broadcast
  <2> HIDE DEF e
  <2>. QED  BY <1>1, <2>1, <2>2, EmptySeq
<1>4. /\ m.asked => answer'[w] = r
      /\ \A v \in Workspace : answer'[v] = answer[v] \/ (m.asked /\ v = w)
  BY <1>1 DEF Broadcast, ConvergedInv, SyncInv, TypeOK
<1> HIDE DEF w, r, n
<1>5. \A v, x : Announced(v, x) =>
        (\E k \in working' : k.ws = v /\ k.rev = x) \/ (v = w /\ x = r)
  BY <1>2 DEF Announced, w, r
<1>6. link # "down" => \E i \in 1 .. n + 1 : i = n + 1 /\ events'[i] = [ws |-> w, rev |-> r]
  BY <1>1, <1>3 DEF w, r
<1>7. \A v, x : link # "down" /\ OnTheWay(v, x) =>
        \E i \in 1 .. Len(events') : events'[i] = [ws |-> v, rev |-> x]
  <2> SUFFICES ASSUME NEW v, NEW x, link # "down", NEW i \in 1 .. n, events[i] = [ws |-> v, rev |-> x]
               PROVE  \E k \in 1 .. Len(events') : events'[k] = [ws |-> v, rev |-> x]
    BY DEF OnTheWay, n
  <2>. QED  BY <1>1, <1>3
<1>8. Phases'  BY <1>2, <1>3 DEF ConvergedInv, Phases, Running
<1>9. RemovalsLast'
  <2>1. \A k \in working' : k.rev = 0 <=> k.ws \in deleted
    BY <1>2 DEF ConvergedInv, RemovalsLast
  <2>2. \A v \in Workspace : answer'[v] \in Nat => (answer'[v] = 0 <=> v \in deleted)
    BY <1>4 DEF ConvergedInv, RemovalsLast, w, r
  <2>3. r = 0 <=> w \in deleted  BY DEF ConvergedInv, RemovalsLast, w, r
  <2>4. ASSUME NEW i \in 1 .. Len(events')
        PROVE  IF events'[i].rev = 0 THEN events'[i].ws \in deleted
               ELSE events'[i].ws \in deleted =>
                      \/ \E k \in working' : k.ws = events'[i].ws /\ k.rev = 0
                      \/ \E j \in i + 1 .. Len(events') : events'[j] = [ws |-> events'[i].ws, rev |-> 0]
    <3>1. link # "down"  BY <1>3
    <3>2. CASE i = n + 1
      <4>1. events'[i] = e  BY <1>3, <3>1, <3>2
      <4>. QED  BY <1>1, <2>3, <4>1
    <3>3. CASE i \in 1 .. n
      <4>1. events'[i] = events[i]  BY <1>3, <3>1, <3>3
      <4>2. IF events[i].rev = 0 THEN events[i].ws \in deleted
            ELSE events[i].ws \in deleted =>
                   \/ Announced(events[i].ws, 0)
                   \/ \E j \in i + 1 .. n : events[j] = [ws |-> events[i].ws, rev |-> 0]
        BY <3>3 DEF ConvergedInv, RemovalsLast, n
      <4>3. \A j \in i + 1 .. n : j \in i + 1 .. Len(events') /\ events'[j] = events[j]
        BY <1>1, <1>3, <3>1, <3>3
      <4>4. n + 1 \in i + 1 .. Len(events')  BY <1>1, <1>3, <3>1, <3>3
      <4>5. events[i].ws = w /\ r = 0 =>
              \E j \in i + 1 .. Len(events') : events'[j] = [ws |-> events[i].ws, rev |-> 0]
        BY <1>6, <3>1, <4>4
      <4>. QED  BY <1>5, <4>1, <4>2, <4>3, <4>5
    <3>. QED  BY <1>1, <1>3, <3>1, <3>2, <3>3
  <2>5. ASSUME NEW i \in 1 .. Len(events'), NEW j \in 1 .. Len(events'), i < j,
               events'[i].ws = events'[j].ws, events'[i].rev = 0
        PROVE  events'[j].rev = 0
    <3>1. link # "down"  BY <1>3
    <3>2. i \in 1 .. n /\ events'[i] = events[i]  BY <1>1, <1>3, <2>5, <3>1
    <3>3. CASE j \in 1 .. n
      BY <1>3, <2>5, <3>1, <3>2, <3>3 DEF ConvergedInv, RemovalsLast, n
    <3>4. CASE j = n + 1
      <4>1. events'[j] = e  BY <1>3, <3>1, <3>4
      <4>2. events[i].ws \in deleted
        BY <2>5, <3>2 DEF ConvergedInv, RemovalsLast, n
      <4>. QED  BY <1>1, <2>3, <2>5, <3>2, <4>1, <4>2
    <3>. QED  BY <1>1, <1>3, <3>1, <3>3, <3>4
  <2>6. \A v \in deleted : history[v] # <<>>  BY DEF ConvergedInv, RemovalsLast
  <2>. QED  BY <1>2, <2>1, <2>2, <2>4, <2>5, <2>6 DEF RemovalsLast, Announced
<1>10. DeletedGone'
  <2> SUFFICES ASSUME link \in {"up", "import"}, NEW v \in deleted
               PROVE  \/ \E k \in working' : k.ws = v /\ k.rev = 0
                      \/ \E i \in 1 .. Len(events') : events'[i] = [ws |-> v, rev |-> 0]
                      \/ link = "up" /\ view[v] = None /\ (documents[v] = None \/ ~Running(v))
                      \/ link = "import" /\ documents[v] = None
    BY <1>2 DEF DeletedGone, Announced, OnTheWay, Running
  <2>1. CASE v = w /\ r = 0  BY <1>1, <1>3, <1>6, <2>1
  <2>2. CASE ~(v = w /\ r = 0)
    BY <1>5, <1>7, <2>2 DEF ConvergedInv, DeletedGone
  <2>. QED  BY <2>1, <2>2
<1>11. NeverCommitted'  BY <1>2 DEF ConvergedInv, NeverCommitted, Running
<1>12. SnapshotRecent'  BY <1>2 DEF SnapshotRecent
<1>13. PresentShown'
  <2> SUFFICES ASSUME link = "up", NEW v \in Workspace, Present(v)
               PROVE  /\ \/ documents[v] = Len(history[v])
                         \/ \E k \in working' : k.ws = v /\ k.rev = Len(history[v])
                         \/ \E i \in 1 .. Len(events') : events'[i] = [ws |-> v, rev |-> Len(history[v])]
                      /\ ~Running(v) /\ documents[v] # None => view[v] = Content(v, documents[v])
    BY <1>2 DEF PresentShown, Present, Announced, OnTheWay, Running, Content
  <2>1. /\ documents[v] = Len(history[v])
           \/ Announced(v, Len(history[v])) \/ OnTheWay(v, Len(history[v]))
        /\ ~Running(v) /\ documents[v] # None => view[v] = Content(v, documents[v])
    BY DEF ConvergedInv, PresentShown
  <2>2. CASE v = w /\ r = Len(history[v])  BY <1>1, <1>3, <1>6, <2>1, <2>2
  <2>3. CASE ~(v = w /\ r = Len(history[v]))  BY <1>5, <1>7, <2>1, <2>3
  <2>. QED  BY <2>2, <2>3
<1>14. OvertakenDeferred'
  <2>1. m.asked => Applying(w)  BY DEF ConvergedInv, SyncInv, CommitsAwaited, w
  <2>2. ASSUME NEW v \in Workspace, Applying(v), answer'[v] \in Nat \ {0}, documents[v] # None,
               documents[v] >= answer'[v]
        PROVE  v \in deferred
    <3>1. CASE answer'[v] = answer[v]  BY <2>2, <3>1 DEF ConvergedInv, OvertakenDeferred
    <3>2. CASE m.asked /\ v = w
      BY <1>4, <2>2, <3>2 DEF ConvergedInv, OvertakenDeferred, w, r
    <3>. QED  BY <1>4, <3>1, <3>2
  <2>. QED  BY <1>2, <2>2 DEF ConvergedInv, OvertakenDeferred, Applying
<1>. QED  BY <1>8, <1>9, <1>10, <1>11, <1>12, <1>13, <1>14 DEF ShownParts

\* What an event does, workspace by workspace.
LEMMA EventEffect ==
  ASSUME ConvergedInv, OnEvent,
         NEW w, w = Head(events).ws, NEW r, r = Head(events).rev
  PROVE  /\ w \in Workspace /\ r \in 0 .. Len(history[w])
         /\ UNCHANGED <<initial, history, past, deleted, working, link, snapshot, queue, step, answer>>
         /\ \A v \in Workspace \ {w} : /\ documents'[v] = documents[v] /\ view'[v] = view[v]
                                       /\ (v \in deferred' <=> v \in deferred)
         /\ \/ r = 0 /\ documents'[w] = None /\ view'[w] = None
            \/ r # 0 /\ Newer(w, r) /\ documents'[w] = r
               /\ IF Running(w) THEN w \in deferred' /\ view'[w] = view[w]
                  ELSE view'[w] = Content(w, r)
            \/ /\ r # 0 /\ ~Newer(w, r) /\ documents'[w] = documents[w] /\ view'[w] = view[w]
               /\ w \in deferred' <=> w \in deferred
<1>1. Head(events) = events[1] /\ 1 \in 1 .. Len(events) /\ events \in Seq(Event)
  BY TailOfEvents DEF OnEvent, ConvergedInv, SyncInv, TypeOK
<1>2. w \in Workspace /\ r \in Nat  BY <1>1, EventType
<1>3. r <= Len(history[w]) /\ Len(history[w]) \in Nat
  BY <1>1, <1>2, HistoryType DEF ConvergedInv, SyncInv, VersionsKnown
<1>4. UNCHANGED <<initial, history, past, deleted, working, link, snapshot, queue, step, answer>>
  BY DEF OnEvent, agentVars, taskVars
<1>5. view \in [Workspace -> (SUBSET Tab) \cup {None}] /\ documents \in [Workspace -> Nat \cup {None}]
  BY DEF ConvergedInv, SyncInv, TypeOK
<1> DEFINE content == Content(w, r)
<1>6. CASE r # 0
  <2>1. Accept(w, r)  BY <1>6 DEF OnEvent
  <2>2. /\ Newer(w, r) => documents' = [documents EXCEPT ![w] = r]
        /\ Newer(w, r) /\ Running(w) => deferred' = deferred \cup {w} /\ view' = view
        /\ Newer(w, r) /\ ~Running(w) => deferred' = deferred /\ view' = [view EXCEPT ![w] = content]
        /\ ~Newer(w, r) => documents' = documents /\ deferred' = deferred /\ view' = view
    BY <2>1 DEF Accept, Held, shownVars
  <2> HIDE DEF content
  <2>3. \A v \in Workspace \ {w} : /\ documents'[v] = documents[v] /\ view'[v] = view[v]
                                   /\ (v \in deferred' <=> v \in deferred)
    BY <1>5, <2>2
  <2>4. \/ Newer(w, r) /\ documents'[w] = r
           /\ IF Running(w) THEN w \in deferred' /\ view'[w] = view[w]
              ELSE view'[w] = content
        \/ /\ ~Newer(w, r) /\ documents'[w] = documents[w] /\ view'[w] = view[w]
           /\ w \in deferred' <=> w \in deferred
    BY <1>2, <1>5, <2>2
  <2>. QED  BY <1>2, <1>3, <1>4, <1>6, <2>3, <2>4 DEF content
<1>7. CASE r = 0
  <2>1. /\ documents' = [documents EXCEPT ![w] = None] /\ deferred' = deferred \ {w}
        /\ view' = [view EXCEPT ![w] = None]
    BY <1>7 DEF OnEvent
  <2>. QED  BY <1>2, <1>3, <1>4, <1>5, <1>7, <2>1
<1>. QED  BY <1>6, <1>7

LEMMA EventConverges ==
  ASSUME ConvergedInv, Races = {}, OnEvent
  PROVE  ShownParts'
<1> DEFINE w == Head(events).ws
           r == Head(events).rev
           n == Len(events)
<1>1. /\ w \in Workspace /\ r \in 0 .. Len(history[w])
      /\ UNCHANGED <<initial, history, past, deleted, working, link, snapshot, queue, step, answer>>
      /\ \A v \in Workspace \ {w} : /\ documents'[v] = documents[v] /\ view'[v] = view[v]
                                    /\ (v \in deferred' <=> v \in deferred)
      /\ \/ r = 0 /\ documents'[w] = None /\ view'[w] = None
         \/ r # 0 /\ Newer(w, r) /\ documents'[w] = r
            /\ IF Running(w) THEN w \in deferred' /\ view'[w] = view[w]
               ELSE view'[w] = Content(w, r)
         \/ /\ r # 0 /\ ~Newer(w, r) /\ documents'[w] = documents[w] /\ view'[w] = view[w]
            /\ w \in deferred' <=> w \in deferred
  BY EventEffect
<1>2. /\ events[1].ws = w /\ events[1].rev = r /\ n \in Nat \ {0} /\ Len(events') = n - 1
      /\ \A i \in 1 .. Len(events') : i + 1 \in 1 .. n /\ events'[i] = events[i + 1]
      /\ events # <<>>
  BY TailOfEvents DEF OnEvent, ConvergedInv, SyncInv
<1>3. /\ \A v \in Workspace : Len(history[v]) \in Nat /\ documents[v] \in Nat \cup {None}
      /\ \A v \in deleted : v \in Workspace
      /\ \A k \in working : k.ws \in Workspace
      /\ None \notin Nat
  BY HistoryType, ConstantsAssumption DEF ConvergedInv, SyncInv, TypeOK
<1> HIDE DEF w, r, n
<1>4. ASSUME NEW k \in 2 .. n
      PROVE  k - 1 \in 1 .. Len(events') /\ events'[k - 1] = events[k]
  <2>1. k - 1 \in 1 .. Len(events') /\ (k - 1) + 1 = k  BY <1>2, <1>4
  <2>. QED  BY <1>2, <2>1
<1>5. \A v, x : OnTheWay(v, x) =>
        (v = w /\ x = r) \/ \E i \in 1 .. Len(events') : events'[i] = [ws |-> v, rev |-> x]
  <2> SUFFICES ASSUME NEW v, NEW x, NEW i \in 1 .. n, events[i] = [ws |-> v, rev |-> x]
               PROVE  (v = w /\ x = r) \/ \E k \in 1 .. Len(events') : events'[k] = [ws |-> v, rev |-> x]
    BY DEF OnTheWay, n
  <2>1. CASE i = 1  BY <1>2, <2>1
  <2>2. CASE i \in 2 .. n  BY <1>4, <2>2
  <2>. QED  BY <1>2, <2>1, <2>2
<1>6. r = 0 => w \in deleted
  <2>1. 1 \in 1 .. n  BY <1>2
  <2>2. events[1].rev = 0 => events[1].ws \in deleted
    BY <2>1 DEF ConvergedInv, RemovalsLast, n
  <2>. QED  BY <1>2, <2>2
<1>7. \A v \in Workspace : Applying(v) => Running(v)
  BY DEF ConvergedInv, SyncInv, TasksStand, Applying, Running
<1>15. r # 0 => r > past[w]
  <2>1. 1 \in 1 .. n  BY <1>2
  <2>. QED  BY <1>2, <2>1 DEF ConvergedInv, NoRelic, n
<1>8. Phases'  BY <1>1, <1>2 DEF ConvergedInv, Phases, Running
<1>9. RemovalsLast'
  <2>1. ASSUME NEW i \in 1 .. Len(events')
        PROVE  IF events'[i].rev = 0 THEN events'[i].ws \in deleted
               ELSE events'[i].ws \in deleted =>
                      \/ Announced(events'[i].ws, 0)
                      \/ \E j \in i + 1 .. Len(events') : events'[j] = [ws |-> events'[i].ws, rev |-> 0]
    <3>1. events'[i] = events[i + 1] /\ i + 1 \in 1 .. n  BY <1>2
    <3>2. IF events[i + 1].rev = 0 THEN events[i + 1].ws \in deleted
          ELSE events[i + 1].ws \in deleted =>
                 \/ Announced(events[i + 1].ws, 0)
                 \/ \E j \in (i + 1) + 1 .. n : events[j] = [ws |-> events[i + 1].ws, rev |-> 0]
      BY <3>1 DEF ConvergedInv, RemovalsLast, n
    <3>3. ASSUME NEW j \in (i + 1) + 1 .. n
          PROVE  j - 1 \in i + 1 .. Len(events') /\ events'[j - 1] = events[j]
      <4>1. j \in 2 .. n /\ j - 1 >= i + 1  BY <1>2, <3>3
      <4>2. i \in Nat /\ j - 1 \in Nat  BY <4>1
      <4>. QED  BY <1>4, <4>1, <4>2
    <3>. QED  BY <3>1, <3>2, <3>3
  <2>2. ASSUME NEW i \in 1 .. Len(events'), NEW j \in 1 .. Len(events'), i < j,
               events'[i].ws = events'[j].ws, events'[i].rev = 0
        PROVE  events'[j].rev = 0
    <3>1. /\ events'[i] = events[i + 1] /\ i + 1 \in 1 .. n
          /\ events'[j] = events[j + 1] /\ j + 1 \in 1 .. n /\ i + 1 < j + 1
      BY <1>2, <2>2
    <3>. QED  BY <2>2, <3>1 DEF ConvergedInv, RemovalsLast, n
  <2>. QED  BY <1>1, <2>1, <2>2 DEF ConvergedInv, RemovalsLast, Announced
<1>10. DeletedGone'
  <2> SUFFICES ASSUME link \in {"up", "import"}, NEW v \in deleted, ~Announced(v, 0),
                      ~\E i \in 1 .. Len(events') : events'[i] = [ws |-> v, rev |-> 0]
               PROVE  \/ link = "up" /\ view'[v] = None /\ (documents'[v] = None \/ ~Running(v))
                      \/ link = "import" /\ documents'[v] = None
    BY <1>1 DEF DeletedGone, Announced, OnTheWay, Running
  <2>1. CASE v # w
    <3>1. ~OnTheWay(v, 0)  BY <1>5, <2>1
    <3>. QED  BY <1>1, <1>3, <2>1, <3>1 DEF ConvergedInv, DeletedGone
  <2>2. CASE v = w
    <3>1. r = 0
      <4> SUFFICES ASSUME r # 0 PROVE FALSE  OBVIOUS
      <4>1. \E j \in 1 + 1 .. n : events[j] = [ws |-> w, rev |-> 0]
        BY <1>2, <2>2 DEF ConvergedInv, RemovalsLast, n
      <4>. QED  BY <1>4, <2>2, <4>1
    <3>. QED  BY <1>1, <2>2, <3>1
  <2>. QED  BY <2>1, <2>2
<1>11. NeverCommitted'
  <2>1. history[w] # <<>>
    <3>1. history[w] = <<>> => r = 0  BY <1>1, EmptySeq
    <3>. QED  BY <1>6, <3>1 DEF ConvergedInv, RemovalsLast
  <2>. QED  BY <1>1, <2>1 DEF ConvergedInv, NeverCommitted, Running
<1>12. SnapshotRecent'
  <2> SUFFICES ASSUME snapshot # None, NEW v \in Workspace
               PROVE  /\ snapshot[v] # 0 =>
                           /\ documents'[v] # None => documents'[v] <= snapshot[v]
                           /\ \A i \in 1 .. Len(events') : events'[i].ws = v => events'[i].rev <= snapshot[v]
                           /\ v \in deleted => Announced(v, 0)
                      /\ v \notin deleted =>
                           \/ snapshot[v] = Len(history[v])
                           \/ snapshot[v] # 0 /\ Announced(v, Len(history[v]))
    BY <1>1 DEF SnapshotRecent, Announced
  <2>1. snapshot[v] # 0 =>
           \A i \in 1 .. Len(events') : events'[i].ws = v => events'[i].rev <= snapshot[v]
    BY <1>2 DEF ConvergedInv, SnapshotRecent, n
  <2>2. snapshot[v] # 0 /\ v = w => r <= snapshot[v]
    BY <1>2 DEF ConvergedInv, SnapshotRecent, n
  <2>. QED  BY <1>1, <2>1, <2>2 DEF ConvergedInv, SnapshotRecent
<1>13. PresentShown'
  <2> SUFFICES ASSUME link = "up", NEW v \in Workspace, Present(v)
               PROVE  /\ \/ documents'[v] = Len(history[v])
                         \/ Announced(v, Len(history[v]))
                         \/ \E i \in 1 .. Len(events') : events'[i] = [ws |-> v, rev |-> Len(history[v])]
                      /\ ~Running(v) /\ documents'[v] # None => view'[v] = Content(v, documents'[v])
    BY <1>1 DEF PresentShown, Present, Announced, OnTheWay, Running, Content
  <2>1. /\ \/ documents[v] = Len(history[v])
           \/ Announced(v, Len(history[v])) \/ OnTheWay(v, Len(history[v]))
        /\ ~Running(v) /\ documents[v] # None => view[v] = Content(v, documents[v])
    BY DEF ConvergedInv, PresentShown
  <2>2. CASE v # w  BY <1>1, <1>5, <2>1, <2>2
  <2>3. CASE v = w
    <3>1. r # 0 /\ r \in 1 .. Len(history[w]) /\ Len(history[w]) \in Nat
      BY <1>1, <1>3, <1>6, <2>3 DEF Present
    <3>2. documents'[w] = IF Newer(w, r) THEN r ELSE documents[w]  BY <1>1, <3>1
    <3>3. documents[w] = Len(history[w]) => documents'[w] = Len(history[w])
      BY <1>1, <1>15, <3>1, <3>2, NewestKept DEF ConvergedInv
    <3>4. r = Len(history[w]) => documents'[w] = Len(history[w])
      <4>1. documents[w] # None => documents[w] <= Len(history[w])
        BY <1>1 DEF ConvergedInv, SyncInv, VersionsKnown
      <4>2. r = Len(history[w]) => Newer(w, r)
        BY <1>1, <1>3, <1>15, <3>1, <4>1, NewerPlain DEF ConvergedInv
      <4>. QED  BY <3>2, <4>2
    <3>5. ~Running(w) /\ documents'[w] # None => view'[w] = Content(w, documents'[w])
      BY <1>1, <2>1, <2>3, <3>1
    <3>. QED  BY <1>5, <2>1, <2>3, <3>3, <3>4, <3>5
  <2>. QED  BY <2>2, <2>3
<1>14. OvertakenDeferred'
  <2>1. ASSUME NEW v \in Workspace, documents'[v] # None, Applying(v)
        PROVE  v \in deferred' \/ (documents'[v] = documents[v] /\ (v \in deferred' <=> v \in deferred))
    BY <1>1, <1>7, <2>1
  <2>2. ASSUME NEW k \in working, k.asked, k.rev # 0, documents'[k.ws] # None,
               documents'[k.ws] >= k.rev
        PROVE  k.ws \in deferred'
    <3>1. Applying(k.ws) /\ k.ws \in Workspace
      BY <1>3, <2>2 DEF ConvergedInv, SyncInv, CommitsAwaited
    <3>. QED  BY <2>1, <2>2, <3>1 DEF ConvergedInv, OvertakenDeferred
  <2>3. ASSUME NEW v \in Workspace, Applying(v), answer[v] \in Nat \ {0}, documents'[v] # None,
               documents'[v] >= answer[v]
        PROVE  v \in deferred'
    BY <2>1, <2>3 DEF ConvergedInv, OvertakenDeferred
  <2>. QED  BY <1>1, <2>2, <2>3 DEF OvertakenDeferred, Applying
<1>. QED  BY <1>8, <1>9, <1>10, <1>11, <1>12, <1>13, <1>14 DEF ShownParts

LEMMA ListConverges ==
  ASSUME ConvergedInv, Races = {}, OnList
  PROVE  ShownParts'
<1>1. /\ snapshot # None /\ link' = "up" /\ snapshot' = None
      /\ UNCHANGED <<initial, history, past, deleted, working, events, deferred, queue, step, answer>>
      /\ \A v \in Workspace :
           /\ view'[v] = IF snapshot[v] = 0 THEN None ELSE Content(v, snapshot[v])
           /\ documents'[v] = IF snapshot[v] # 0 /\ Newer(v, snapshot[v]) THEN snapshot[v] ELSE documents[v]
  BY DEF OnList, agentVars, taskVars
<1>2. /\ link \in {"import", "listing"}
      /\ \A v \in Workspace : ~Applying(v) /\ (link = "listing" => ~Running(v))
  <2>1. link \in {"import", "listing"}  BY <1>1 DEF ConvergedInv, SyncInv, Listing
  <2>2. link = "listing" => \A v \in Workspace : ~Running(v)  BY DEF ConvergedInv, Phases
  <2>3. link = "import" => \A v \in Workspace : step[v] = "start"
    BY DEF ConvergedInv, SyncInv, CreatedOnce
  <2>. QED  BY <2>1, <2>2, <2>3 DEF ConvergedInv, SyncInv, TasksStand, Applying, Running
<1>3. /\ \A v \in Workspace : Len(history[v]) \in Nat /\ documents[v] \in Nat \cup {None}
      /\ \A v \in Workspace : snapshot[v] \in Nat
      /\ \A v \in deleted : v \in Workspace
      /\ \A m \in working : m.ws \in Workspace
  BY <1>1, HistoryType DEF ConvergedInv, SyncInv, TypeOK
<1>4. Phases'  BY <1>1 DEF Phases
<1>5. RemovalsLast'  BY <1>1 DEF ConvergedInv, RemovalsLast, Announced
<1>6. DeletedGone'
  BY <1>1, <1>2, <1>3 DEF ConvergedInv, DeletedGone, SnapshotRecent, Announced, OnTheWay, Running
<1>7. NeverCommitted'
  <2> SUFFICES ASSUME NEW v \in Workspace, history[v] = <<>>
               PROVE  documents'[v] = None /\ view'[v] = None
    BY <1>1 DEF NeverCommitted
  <2>1. documents[v] = None  BY <1>1 DEF ConvergedInv, NeverCommitted
  <2>2. snapshot[v] = 0
    <3>1. snapshot[v] <= Len(history[v])  BY <1>1 DEF ConvergedInv, SyncInv, VersionsKnown
    <3>. QED  BY <1>3, <3>1, EmptySeq
  <2>. QED  BY <1>1, <2>1, <2>2
<1>8. SnapshotRecent'  BY <1>1 DEF SnapshotRecent
<1>9. PresentShown'
  <2> SUFFICES ASSUME NEW v \in Workspace, Present(v)
               PROVE  /\ documents'[v] = Len(history[v]) \/ Announced(v, Len(history[v]))
                      /\ view'[v] = Content(v, documents'[v])
    BY <1>1 DEF PresentShown, Present, Announced, Running, Content
  <2>1. Len(history[v]) # 0 /\ v \notin deleted
    BY HistoryType, EmptySeq DEF Present, ConvergedInv, SyncInv
  <2>2. snapshot[v] = Len(history[v]) \/ (snapshot[v] # 0 /\ Announced(v, Len(history[v])))
    BY <1>1, <2>1 DEF ConvergedInv, SnapshotRecent
  <2>3. snapshot[v] # 0  BY <2>1, <2>2
  <2>4. documents[v] # None => documents[v] <= snapshot[v]
    BY <1>1, <2>3 DEF ConvergedInv, SnapshotRecent
  <2>5. snapshot[v] > past[v]  BY <1>1, <2>3 DEF ConvergedInv, NoRelic
  <2>6. Newer(v, snapshot[v])  BY <1>3, <2>4, <2>5, NewerPlain DEF ConvergedInv
  <2>. QED  BY <1>1, <2>2, <2>3, <2>6
<1>10. OvertakenDeferred'
  <2>1. \A m \in working : ~m.asked
    BY <1>2, <1>3 DEF ConvergedInv, SyncInv, CommitsAwaited
  <2>. QED  BY <1>1, <1>2, <2>1 DEF OvertakenDeferred, Applying
<1>. QED  BY <1>4, <1>5, <1>6, <1>7, <1>8, <1>9, <1>10 DEF ShownParts

LEMMA ImportConverges ==
  ASSUME ConvergedInv, Races = {}, ServeImport
  PROVE  ShownParts'
<1> DEFINE added == {[ws |-> v, rev |-> snapshot'[v], asked |-> FALSE] :
                       v \in {u \in Workspace : snapshot'[u] # 0}}
<1>1. /\ link = "import" /\ snapshot = None
      /\ UNCHANGED <<initial, link, events, documents, deferred, view, queue, step, answer>>
      /\ working' = working \cup added /\ deleted' \subseteq deleted
      /\ \A v \in Workspace : Imported(v) \/ Untouched(v)
      /\ \A v \in Workspace : snapshot'[v] = IF v \in deleted' THEN 0 ELSE Len(history'[v])
  BY ImportCommits DEF ServeImport, ConvergedInv, SyncInv, Typed
<1>2. /\ \A v \in Workspace : Len(history[v]) \in Nat /\ documents[v] \in Nat \cup {None}
      /\ \A v \in deleted : v \in Workspace
      /\ \A i \in 1 .. Len(events) : events[i].ws \in Workspace /\ events[i].rev \in Nat
      /\ \A m \in working : m.ws \in Workspace
      /\ None \notin Nat
  <2>1. events \in Seq(Event)  BY DEF ConvergedInv, SyncInv, TypeOK
  <2>. QED  BY <2>1, EventType, HistoryType, ConstantsAssumption DEF ConvergedInv, SyncInv, TypeOK
<1>3. \A m \in added : ~m.asked /\ m.rev # 0 /\ m.ws \in Workspace \ deleted'  BY <1>1
<1>4. \A v \in Workspace : (v \in deleted' <=> v \in deleted) \/ Forgotten(v)
  <2> SUFFICES ASSUME NEW v \in Workspace, Imported(v), v \in deleted PROVE Forgotten(v)
    BY <1>1 DEF Imported, Untouched
  <2>. QED  BY DEF ServeImport, Imported
<1>13. /\ \A m \in working : m.ws \in deleted' <=> m.ws \in deleted
       /\ \A i \in 1 .. Len(events) : events[i].ws \in deleted' <=> events[i].ws \in deleted
  BY <1>2, <1>4 DEF Forgotten
<1> HIDE DEF added
<1>14. \A v, x : Announced(v, x) => Announced(v, x)'  BY <1>1 DEF Announced
<1>5. \A v \in Workspace : Len(history'[v]) \in Nat /\ Len(history[v]) <= Len(history'[v])
  <2> SUFFICES ASSUME NEW v \in Workspace
               PROVE  Len(history'[v]) \in Nat /\ Len(history[v]) <= Len(history'[v])
    OBVIOUS
  <2>1. CASE Untouched(v)  BY <1>2, <2>1 DEF Untouched
  <2>2. CASE Imported(v)  BY <1>2, <2>2 DEF Imported
  <2>. QED  BY <1>1, <2>1, <2>2
<1>6. Phases'  BY <1>1 DEF ConvergedInv, Phases, Running
<1>7. RemovalsLast'
  <2>1. ASSUME NEW v \in deleted' PROVE history'[v] # <<>>
    <3>1. v \in deleted /\ v \in Workspace  BY <1>1, <1>2
    <3>2. history[v] # <<>> /\ Untouched(v)
      BY <1>1, <3>1 DEF ConvergedInv, RemovalsLast, Imported
    <3>. QED  BY <3>2 DEF Untouched
  <2>2. \A m \in working' : m.rev = 0 <=> m.ws \in deleted'
    BY <1>1, <1>3, <1>13 DEF ConvergedInv, RemovalsLast
  <2>3. \A v \in Workspace : answer'[v] \notin Nat
    BY <1>1, <1>2 DEF ConvergedInv, SyncInv, CreatedOnce, TasksStand
  <2>4. ASSUME NEW i \in 1 .. Len(events)
        PROVE  IF events[i].rev = 0 THEN events[i].ws \in deleted'
               ELSE events[i].ws \in deleted' =>
                      \/ Announced(events[i].ws, 0)'
                      \/ \E j \in i + 1 .. Len(events) : events[j] = [ws |-> events[i].ws, rev |-> 0]
    <3>2. events[i].ws \in deleted' <=> events[i].ws \in deleted  BY <1>13
    <3>3. Announced(events[i].ws, 0) => Announced(events[i].ws, 0)'  BY <1>1 DEF Announced
    <3>. QED  BY <3>2, <3>3 DEF ConvergedInv, RemovalsLast
  <2>. QED  BY <1>1, <2>1, <2>2, <2>3, <2>4 DEF ConvergedInv, RemovalsLast
<1>8. DeletedGone'
  <2> SUFFICES ASSUME NEW v \in deleted'
               PROVE  Announced(v, 0)' \/ OnTheWay(v, 0) \/ documents[v] = None
    BY <1>1 DEF DeletedGone, OnTheWay
  <2>. QED  BY <1>1, <1>14 DEF ConvergedInv, DeletedGone
<1>9. NeverCommitted'
  <2> SUFFICES ASSUME NEW v \in Workspace, history'[v] = <<>> PROVE documents[v] = None
    BY <1>1 DEF NeverCommitted
  <2>1. Untouched(v)
    <3>1. Len(history'[v]) = 0  BY EmptySeq
    <3>. QED  BY <1>1, <1>2, <3>1 DEF Imported
  <2>2. history[v] = <<>> /\ v \notin initial  BY <2>1 DEF Untouched, Present
  <2>. QED  BY <2>2 DEF ConvergedInv, NeverCommitted
<1>10. SnapshotRecent'
  <2> SUFFICES ASSUME NEW v \in Workspace
               PROVE  /\ snapshot'[v] # 0 =>
                           /\ documents[v] # None => documents[v] <= snapshot'[v]
                           /\ \A i \in 1 .. Len(events) : events[i].ws = v => events[i].rev <= snapshot'[v]
                           /\ v \notin deleted'
                      /\ v \notin deleted' => snapshot'[v] = Len(history'[v])
    BY <1>1 DEF SnapshotRecent
  <2>1. documents[v] # None => documents[v] <= Len(history'[v])
    BY <1>2, <1>5 DEF ConvergedInv, SyncInv, VersionsKnown
  <2>2. \A i \in 1 .. Len(events) : events[i].ws = v => events[i].rev <= Len(history'[v])
    BY <1>2, <1>5 DEF ConvergedInv, SyncInv, VersionsKnown
  <2>. QED  BY <1>1, <2>1, <2>2
<1>11. PresentShown'  BY <1>1 DEF PresentShown
<1>12. OvertakenDeferred'
  BY <1>1, <1>3 DEF ConvergedInv, OvertakenDeferred, Applying
<1>. QED  BY <1>6, <1>7, <1>8, <1>9, <1>10, <1>11, <1>12 DEF ShownParts

\* The list is asked for, the connection is lost or made again, nothing happens.
LEMMA LinkConverges ==
  ASSUME ConvergedInv, Races = {}, ServeList \/ Reconnect \/ Drop \/ UNCHANGED vars
  PROVE  ShownParts'
<1>1. /\ \A v \in Workspace : Len(history[v]) \in Nat /\ documents[v] \in Nat \cup {None}
      /\ \A i \in 1 .. Len(events) : events[i].ws \in Workspace /\ events[i].rev \in Nat
      /\ \A m \in working : m \in [ws : Workspace, rev : Nat, asked : BOOLEAN]
  <2>1. events \in Seq(Event)  BY DEF ConvergedInv, SyncInv, TypeOK
  <2>. QED  BY <2>1, EventType, HistoryType DEF ConvergedInv, SyncInv, TypeOK
<1>2. CASE ServeList
  <2>1. /\ link = "listing" /\ snapshot' = Listed
        /\ UNCHANGED <<initial, history, past, deleted, working, link, events, documents, deferred, view,
                       queue, step, answer>>
    BY <1>2 DEF ServeList, agentVars, shownVars, taskVars
  <2>2. Phases' /\ RemovalsLast' /\ DeletedGone' /\ PresentShown' /\ OvertakenDeferred'
    BY ZenonT(60), <2>1 DEF ConvergedInv, Phases, RemovalsLast, DeletedGone, PresentShown, OvertakenDeferred,
                Announced, OnTheWay, Running, Applying
  <2>3. NeverCommitted'  BY <2>1 DEF ConvergedInv, NeverCommitted
  <2>4. SnapshotRecent'
    <3> SUFFICES ASSUME NEW v \in Workspace
                 PROVE  /\ snapshot'[v] # 0 =>
                             /\ documents[v] # None => documents[v] <= snapshot'[v]
                             /\ \A i \in 1 .. Len(events) : events[i].ws = v => events[i].rev <= snapshot'[v]
                             /\ v \notin deleted
                        /\ v \notin deleted => snapshot'[v] = Len(history[v])
      BY <2>1 DEF SnapshotRecent
    <3>1. snapshot'[v] = IF Present(v) THEN Len(history[v]) ELSE 0  BY <2>1 DEF Listed
    <3>2. history[v] = <<>> => Len(history[v]) = 0  BY EmptySeq
    <3>. QED  BY <3>1, <3>2 DEF Present, ConvergedInv, SyncInv, VersionsKnown
  <2>. QED  BY <2>2, <2>3, <2>4 DEF ShownParts
<1>3. CASE Reconnect
  <2>1. /\ link = "down" /\ link' = "listing" /\ \A v \in Workspace : ~Running(v)
        /\ UNCHANGED <<initial, history, past, deleted, working, snapshot, events, documents, deferred, view,
                       queue, step, answer>>
    BY <1>3 DEF Reconnect, agentVars, shownVars, taskVars
  <2>2. snapshot = None  BY <2>1 DEF ConvergedInv, SyncInv, Listing
  <2>3. Phases' /\ DeletedGone' /\ PresentShown' /\ SnapshotRecent'
    BY <2>1, <2>2 DEF ConvergedInv, Phases, DeletedGone, PresentShown, SnapshotRecent, Running
  <2>4. RemovalsLast' /\ OvertakenDeferred'
    BY <2>1 DEF ConvergedInv, RemovalsLast, OvertakenDeferred, Announced, Applying
  <2>5. NeverCommitted'  BY <2>1 DEF ConvergedInv, NeverCommitted
  <2>. QED  BY <2>3, <2>4, <2>5 DEF ShownParts
<1>4. CASE Drop
  <2>1. /\ link \in {"listing", "up"} /\ link' = "down" /\ snapshot' = None /\ events' = <<>>
        /\ working' = {[m EXCEPT !.asked = FALSE] : m \in working}
        /\ UNCHANGED <<initial, history, past, deleted, documents, deferred, view, queue, step, answer>>
    BY <1>4 DEF Drop, shownVars, taskVars
  <2>2. \A k \in working' : ~k.asked /\ \E m \in working : k.ws = m.ws /\ k.rev = m.rev
    BY <1>1, <2>1
  <2>3. Phases' /\ DeletedGone' /\ PresentShown' /\ SnapshotRecent'
    BY <2>1 DEF Phases, DeletedGone, PresentShown, SnapshotRecent
  <2>4. RemovalsLast'
    <3>1. \A k \in working' : k.rev = 0 <=> k.ws \in deleted
      BY <2>2 DEF ConvergedInv, RemovalsLast
    <3>2. Len(events') = 0  BY <2>1, EmptySeq
    <3>. QED  BY <2>1, <3>1, <3>2 DEF ConvergedInv, RemovalsLast
  <2>5. NeverCommitted'  BY <2>1 DEF ConvergedInv, NeverCommitted
  <2>6. OvertakenDeferred'  BY <2>1, <2>2 DEF ConvergedInv, OvertakenDeferred, Applying
  <2>. QED  BY <2>3, <2>4, <2>5, <2>6 DEF ShownParts
<1>5. CASE UNCHANGED vars
  <2>1. UNCHANGED <<initial, history, past, deleted, working, link, snapshot, events, documents, deferred, view,
                    queue, step, answer>>
    BY <1>5 DEF vars, agentVars, wireVars, shownVars, taskVars
  <2>2. Phases' /\ RemovalsLast' /\ DeletedGone' /\ OvertakenDeferred' /\ NeverCommitted'
    BY ZenonT(60), <2>1 DEF ConvergedInv, Phases, RemovalsLast, DeletedGone, OvertakenDeferred, NeverCommitted,
                Announced, OnTheWay, Running, Applying
  <2>3. PresentShown'
    BY <2>1 DEF ConvergedInv, PresentShown, Present, Content, Announced, OnTheWay, Running
  <2>4. SnapshotRecent'  BY <2>1 DEF ConvergedInv, SnapshotRecent, Announced
  <2>. QED  BY <2>2, <2>3, <2>4 DEF ShownParts
<1>. QED  BY <1>2, <1>3, <1>4, <1>5

LEMMA StepConverged ==
  ASSUME ConvergedInv, Races = {}, [Next]_vars
  PROVE  ConvergedInv'
<1>1. SyncInv' /\ NoRelic'  BY StepSync, StepRelic DEF ConvergedInv
<1>2. ShownParts'
  <2>1. ASSUME NEW w \in Workspace, User(w) \/ Task(w) \/ Answering(w) \/ Others(w)
        PROVE  ShownParts'
    BY <2>1, UserConverges, TaskConverges, AnswerConverges, OthersConverge
  <2>2. ASSUME NEW m \in working, Broadcast(m) PROVE ShownParts'
    BY <2>2, BroadcastConverges
  <2>. QED
    BY <2>1, <2>2, EventConverges, ListConverges, ImportConverges, LinkConverges
       DEF Next, Connecting
<1>. QED  BY <1>1, <1>2 DEF ConvergedInv, ShownParts

LEMMA InitConverged == Init => ConvergedInv
<1> SUFFICES ASSUME Init PROVE ShownParts  BY InitSync, InitRelic DEF ConvergedInv, ShownParts
<1>1. Len(events) = 0  BY EmptySeq DEF Init
<1>2. None \notin Nat  BY ConstantsAssumption
<1>3. \A w \in Workspace : answer[w] \notin Nat /\ (documents[w] # None => w \in initial)
  BY <1>2 DEF Init
<1>. QED
  BY <1>1, <1>3
     DEF Init, ShownParts, Phases, RemovalsLast, DeletedGone, NeverCommitted, SnapshotRecent,
         PresentShown, OvertakenDeferred, Running

LEMMA ConvergedHolds == ConvergedInv => Converged
<1> SUFFICES ASSUME ConvergedInv, Quiet PROVE view = Actual  BY DEF Converged
<1>1. view \in [Workspace -> (SUBSET Tab) \cup {None}]  BY DEF ConvergedInv, SyncInv, TypeOK
<1>2. ASSUME NEW w \in Workspace
      PROVE  view[w] = IF Present(w) THEN Content(w, Len(history[w])) ELSE None
  <2>1. \A r : ~Announced(w, r) /\ ~OnTheWay(w, r)
    <3>1. working = {} /\ Len(events) = 0  BY EmptySeq DEF Quiet
    <3>. QED  BY <3>1 DEF Announced, OnTheWay
  <2>2. link = "up" /\ ~Running(w)  BY DEF Quiet
  <2>3. CASE Present(w)
    <3>1. Len(history[w]) # None  BY HistoryType, ConstantsAssumption DEF ConvergedInv, SyncInv
    <3>. QED  BY <2>1, <2>2, <2>3, <3>1 DEF ConvergedInv, PresentShown
  <2>4. CASE w \in deleted  BY <2>1, <2>2, <2>4 DEF ConvergedInv, DeletedGone, Present
  <2>5. CASE history[w] = <<>>  BY <2>2, <2>5 DEF ConvergedInv, NeverCommitted, Present
  <2>. QED  BY <2>3, <2>4, <2>5 DEF Present
<1>. QED  BY <1>1, <1>2 DEF Actual

\* Whenever nothing is under way between the GUI and the agent, the screen shows
\* exactly the agent's workspaces, with the agent's tabs: whatever the edits of
\* the user and of other clients, refusals, conflicts, lost connections and the
\* order of answers and events (acceptWorkspaceResponse, rollbackWorkspace,
\* projectOrDefer, replaceHost).  Of the orders in AllRaces none happens; with
\* "listing" the code does not converge.
THEOREM ScreenConverges == ASSUME Races = {} PROVE Spec => []Converged
<1>1. ConvergedInv /\ [Next]_vars => ConvergedInv'  BY StepConverged
<1>. QED  BY <1>1, InitConverged, ConvergedHolds, PTL DEF Spec
=============================================================================

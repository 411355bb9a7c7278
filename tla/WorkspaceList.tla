--------------------------- MODULE WorkspaceList ---------------------------
(***************************************************************************)
(* The list of workspaces of one GUI, over the local agent and the remote  *)
(* ones (workspace-store.ts, WorkspaceSidebar.tsx, the shortcuts of        *)
(* App.tsx).                                                               *)
(*                                                                         *)
(* An entry is [id, host, pinned].  What is inside a workspace is          *)
(* WorkspaceStore, how an edit travels is WorkspaceSync: here a creation   *)
(* or deletion is on its way until the agent answers, and an agent is      *)
(* reachable or not.                                                       *)
(***************************************************************************)
EXTENDS Naturals, Sequences, SequencesExt, FiniteSets

CONSTANTS
  Host,      \* the local agent and the others
  Local,
  None,
  MaxIds,    \* bound: workspaces ever made
  MaxClicks  \* bound: what the user does

ListAssumption == Local \in Host /\ None \notin Nat /\ MaxIds \in Nat /\ MaxClicks \in Nat

VARIABLES
  workspaces,  \* the list, in order
  activeId,    \* activeWorkspaceId
  stored,      \* what each agent has
  known,       \* <<host, id>> of which the GUI holds a document (for a rollback)
  tasks,       \* creations and deletions on their way
  reachable,   \* hosts whose connection is up
  minted, clicks

listVars == <<workspaces, activeId, stored, known, tasks, reachable, minted, clicks>>

Ids == {workspaces[i].id : i \in DOMAIN workspaces}

\* Where an id is, 0 if it is not there.
Index(list, id) ==
  IF \E i \in DOMAIN list : list[i].id = id
  THEN CHOOSE i \in DOMAIN list : list[i].id = id ELSE 0

\* The entries at these positions, in the order they had.
Kept(list, at) ==
  [k \in 1 .. Cardinality(at) |->
     list[CHOOSE i \in at : Cardinality({j \in at : j <= i}) = k]]

Without(list, id) == Kept(list, {i \in DOMAIN list : list[i].id # id})

OfHost(list, host) == {i \in DOMAIN list : list[i].host = host}

Entry(id) == workspaces[Index(workspaces, id)]

First(list) == IF list = <<>> THEN None ELSE Head(list).id

Has(list, id) == id # None /\ Index(list, id) # 0

makeWorkspace(id, host) == [id |-> id, host |-> host, pinned |-> FALSE]

----------------------------------------------------------------------------
(* Ordering.                                                               *)

insertAtAnchor(list, from, anchor, side) ==
  LET i == Index(list, from)
      j == Index(list, anchor)
      gap == IF i < j THEN j - 1 ELSE j
  IN IF i = j \/ i = 0 \/ j = 0 THEN list
     ELSE InsertAt(RemoveAt(list, i), IF side = "before" THEN gap ELSE gap + 1, list[i])

\* To the first unpinned entry of the whole list, whatever its host.
togglePinAndReorder(list, id) ==
  LET i == Index(list, id)
      rest == RemoveAt(list, i)
      border == {j \in 1 .. Len(rest) + 1 : j <= Len(rest) => ~rest[j].pinned}
      first == CHOOSE j \in border : \A k \in border : j <= k
  IN InsertAt(rest, first, [list[i] EXCEPT !.pinned = ~@])

\* The sidebar: one group per host, this device first.
Group(list, host) == Kept(list, OfHost(list, host))

Remotes == SetToSeq(Host \ {Local})

hostGroups ==
  Group(workspaces, Local) \o FlattenSeq([i \in DOMAIN Remotes |-> Group(workspaces, Remotes[i])])

----------------------------------------------------------------------------
(* The user.                                                               *)

Click(list, active, asked) ==
  /\ clicks < MaxClicks
  /\ clicks' = clicks + 1
  /\ workspaces' = list /\ activeId' = active
  /\ tasks' = tasks \cup asked
  /\ UNCHANGED <<stored, known, reachable>>

Deletion(w) == [id |-> w.id, host |-> w.host, op |-> "delete"]

\* addWorkspace on the local agent, whether it is there or not; the button of a
\* remote host is enabled while the host is online.
addWorkspaceOnHost(host) ==
  /\ minted < MaxIds /\ minted' = minted + 1
  /\ host = Local \/ host \in reachable
  /\ Click(Append(workspaces, makeWorkspace(minted', host)), minted',
           {[id |-> minted', host |-> host, op |-> "create"]})

removeWorkspace(id) ==
  LET list == Without(workspaces, id) IN
  /\ Click(list, IF activeId = id THEN First(list) ELSE activeId, {Deletion(Entry(id))})
  /\ UNCHANGED minted

\* Cmd+W on the last pane of the last tab.
closeCascade == Len(workspaces) > 1 /\ activeId # None /\ removeWorkspace(activeId)

setActiveWorkspace(id) == activeId # id /\ Click(workspaces, id, {}) /\ UNCHANGED minted

\* Refused across hosts and across the border of the pinned ones.
reorderWorkspace(from, anchor, side) ==
  /\ Entry(from).host = Entry(anchor).host /\ Entry(from).pinned = Entry(anchor).pinned
  /\ Click(insertAtAnchor(workspaces, from, anchor, side), activeId, {})
  /\ UNCHANGED minted

\* The menu of a local workspace has Pin and the bulk closings.
toggleWorkspacePin(id) ==
  /\ Entry(id).host = Local
  /\ Click(togglePinAndReorder(workspaces, id), activeId, {})
  /\ UNCHANGED minted

\* What stays is filtered from the list in one place, what is deleted on the
\* agents in another.
BulkClose(anchor, stays, goes) ==
  LET list == Kept(workspaces, {i \in DOMAIN workspaces : workspaces[i].id \in stays}) IN
  /\ Entry(anchor).host = Local /\ goes # {}
  /\ Click(list, IF Has(list, activeId) THEN activeId ELSE anchor,
           {Deletion(Entry(id)) : id \in goes})
  /\ UNCHANGED minted

At(id) == Index(workspaces, id)

Elsewhere(id, anchor) == Entry(id).host # Entry(anchor).host

closeOtherWorkspaces(anchor) ==
  BulkClose(anchor,
    {id \in Ids : Elsewhere(id, anchor) \/ id = anchor \/ Entry(id).pinned},
    {id \in Ids : ~Elsewhere(id, anchor) /\ id # anchor /\ ~Entry(id).pinned})

closeWorkspacesBefore(anchor) ==
  BulkClose(anchor,
    {id \in Ids : Elsewhere(id, anchor) \/ At(id) >= At(anchor) \/ Entry(id).pinned},
    {id \in Ids : ~Elsewhere(id, anchor) /\ At(id) < At(anchor) /\ ~Entry(id).pinned})

closeWorkspacesAfter(anchor) ==
  BulkClose(anchor,
    {id \in Ids : Elsewhere(id, anchor) \/ At(id) <= At(anchor) \/ Entry(id).pinned},
    {id \in Ids : ~Elsewhere(id, anchor) /\ At(id) > At(anchor) /\ ~Entry(id).pinned})

----------------------------------------------------------------------------
(* What comes from the agents.                                             *)

\* applyAgentWorkspace.
Upsert(id, host) ==
  IF id \in Ids THEN UNCHANGED <<workspaces, activeId>>
  ELSE /\ workspaces' = Append(workspaces, makeWorkspace(id, host))
       /\ activeId' = IF activeId = None THEN id ELSE activeId

\* removeAgentWorkspace.
Removed(id) ==
  LET list == Without(workspaces, id) IN
  /\ workspaces' = list
  /\ activeId' = IF activeId = id THEN First(list) ELSE activeId

\* applyAgentSnapshot: the other hosts' entries first, then this host's in the
\* order they had, then the new ones in the agent's order, which is that of
\* their last change.
Snapshot(host) ==
  \E new \in SetToSeqs(stored[host] \ Ids) :
    LET own == OfHost(workspaces, host)
        list == Kept(workspaces, DOMAIN workspaces \ own)
                \o Kept(workspaces, {i \in own : workspaces[i].id \in stored[host]})
                \o [i \in DOMAIN new |-> makeWorkspace(new[i], host)]
    IN /\ workspaces' = list
       /\ activeId' = IF Has(list, activeId) THEN activeId ELSE First(list)

\* A task is answered by its agent, or fails because the host is not there; a
\* failed deletion puts the document back, a failed creation takes it away.
Served(task) ==
  /\ tasks' = tasks \ {task}
  /\ IF task.host \in reachable
     THEN CASE task.op = "create" ->
                 /\ stored' = [stored EXCEPT ![task.host] = @ \cup {task.id}]
                 /\ known' = known \cup {<<task.host, task.id>>}
                 /\ IF \E t \in tasks' : t.id = task.id THEN UNCHANGED <<workspaces, activeId>>
                    ELSE Upsert(task.id, task.host)
            [] task.op = "delete" ->
                 /\ stored' = [stored EXCEPT ![task.host] = @ \ {task.id}]
                 /\ known' = known \ {<<task.host, task.id>>}
                 /\ Removed(task.id)
     ELSE /\ UNCHANGED <<stored, known>>
          /\ CASE task.op = "create" -> Removed(task.id)
               [] task.op = "delete" -> IF <<task.host, task.id>> \in known THEN Upsert(task.id, task.host)
                                        ELSE UNCHANGED <<workspaces, activeId>>
  /\ UNCHANGED <<reachable, minted, clicks>>

\* The tasks of one workspace run in order.
Serve == \E task \in tasks :
  /\ task.op = "delete" => ~\E t \in tasks : t.id = task.id /\ t.op = "create"
  /\ Served(task)

\* Another client made or deleted a workspace; a GUI that is not connected hears
\* of it from the next list.
OtherCreates(host) ==
  /\ minted < MaxIds /\ minted' = minted + 1
  /\ stored' = [stored EXCEPT ![host] = @ \cup {minted'}]
  /\ IF host \in reachable
     THEN known' = known \cup {<<host, minted'>>} /\ Upsert(minted', host)
     ELSE UNCHANGED <<workspaces, activeId, known>>
  /\ UNCHANGED <<tasks, reachable, clicks>>

OtherDeletes(host) ==
  /\ clicks < MaxClicks /\ clicks' = clicks + 1
  /\ \E id \in stored[host] :
       /\ ~\E t \in tasks : t.id = id
       /\ stored' = [stored EXCEPT ![host] = @ \ {id}]
       /\ IF host \in reachable
          THEN known' = known \ {<<host, id>>} /\ Removed(id)
          ELSE UNCHANGED <<workspaces, activeId, known>>
  /\ UNCHANGED <<tasks, reachable, minted>>

\* While tasks of the host are on their way this is WorkspaceSync's matter.
Quiet(host) == ~\E t \in tasks : t.host = host

Disconnect(host) ==
  /\ host \in reachable /\ clicks < MaxClicks /\ clicks' = clicks + 1
  /\ reachable' = reachable \ {host}
  /\ UNCHANGED <<workspaces, activeId, stored, known, tasks, minted>>

Connect(host) ==
  /\ host \notin reachable /\ Quiet(host)
  /\ reachable' = reachable \cup {host}
  /\ known' = known \cup ({host} \X stored[host])
  /\ Snapshot(host)
  /\ UNCHANGED <<stored, tasks, minted, clicks>>

\* forgetRemoteWorkspaceHost.
Forget(host) ==
  /\ host # Local /\ clicks < MaxClicks /\ clicks' = clicks + 1 /\ Quiet(host)
  /\ LET list == Kept(workspaces, DOMAIN workspaces \ OfHost(workspaces, host)) IN
     /\ workspaces' = list
     /\ activeId' = IF Has(list, activeId) THEN activeId ELSE First(list)
     /\ known' = known \ ({host} \X Nat)
  /\ reachable' = reachable \ {host}
  /\ UNCHANGED <<stored, tasks, minted>>

----------------------------------------------------------------------------

\* After the start: ensureSeedWorkspace has made sure of a local workspace, and
\* the import of it has been answered.  Another agent may have one too: an id is
\* drawn at random, so no two agents have the same.
Init ==
  /\ workspaces = <<makeWorkspace(1, Local), makeWorkspace(2, Local)>>
  /\ activeId = 1
  /\ stored \in [Host -> SUBSET (1 .. 3)] /\ stored[Local] = {1, 2}
  /\ \A host, other \in Host : host # other => stored[host] \cap stored[other] = {}
  /\ known = {Local} \X {1, 2}
  /\ tasks = {} /\ reachable = {Local} /\ minted = 3 /\ clicks = 0

OneWorkspace(id) ==
  \/ removeWorkspace(id) \/ setActiveWorkspace(id) \/ toggleWorkspacePin(id)
  \/ closeOtherWorkspaces(id) \/ closeWorkspacesBefore(id) \/ closeWorkspacesAfter(id)
  \/ \E u \in Ids \ {id}, side \in {"before", "after"} : reorderWorkspace(id, u, side)

OneHost(host) ==
  \/ addWorkspaceOnHost(host) \/ OtherCreates(host) \/ OtherDeletes(host)
  \/ Disconnect(host) \/ Connect(host) \/ Forget(host)

Next ==
  \/ \E id \in Ids : OneWorkspace(id)
  \/ \E host \in Host : OneHost(host)
  \/ closeCascade \/ Serve

Spec == Init /\ [][Next]_listVars

----------------------------------------------------------------------------
(* Properties.                                                             *)

TypeOK ==
  /\ \A i \in DOMAIN workspaces :
       workspaces[i] \in [id : 1 .. minted, host : Host, pinned : BOOLEAN]
  /\ Cardinality(Ids) = Len(workspaces)
  /\ activeId \in 1 .. minted \cup {None}
  /\ stored \in [Host -> SUBSET (1 .. minted)]
  /\ known \subseteq Host \X (1 .. minted) /\ reachable \subseteq Host

\* The list is what the agents have: of a host that is connected, everything and
\* nothing else once its tasks are answered, so a failed deletion comes back;
\* what is being deleted is off the screen, so that a bulk close deletes no
\* workspace that it keeps; and the active workspace is one of the list, whoever
\* removed which.
ListIsStored ==
  /\ \A host \in reachable : Quiet(host) =>
       {w.id : w \in ToSet(Group(workspaces, host))} = stored[host]
  /\ \A task \in tasks : task.op = "delete" => task.id \notin Ids
  /\ activeId = None <=> workspaces = <<>>
  /\ activeId # None => activeId \in Ids

\* The comments on Workspace.pinned in types.ts and in reorderWorkspace: pinned
\* ones are shown before the others, within their host's group.
PinnedFirst ==
  \A i, j \in DOMAIN workspaces :
    workspaces[j].pinned /\ workspaces[i].host = workspaces[j].host /\ i < j
      => workspaces[i].pinned

\* The comment in App.tsx on switchWorkspace: Cmd+N goes to the Nth workspace of
\* the sidebar.
ShortcutOrder == workspaces = hostGroups
=============================================================================

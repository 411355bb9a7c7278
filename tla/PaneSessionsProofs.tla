------------------------ MODULE PaneSessionsProofs ------------------------
(***************************************************************************)
(* Theorems about PaneSessions, for any number of connections, panes and   *)
(* sessions: no shell outlives its pane, none is ended under an open pane, *)
(* and a live shell is bound.  They rest on one inductive invariant, Inv,  *)
(* that says what a handler knows at each of its steps.                    *)
(***************************************************************************)
EXTENDS PaneSessions, TLAPS

SpawnSteps == {"lookup", "start", "inherit", "bind", "undo"}
RemoveSteps == {"collect", "terminate", "purge", "drop"}
AllSteps == {"idle", "kill"} \cup SpawnSteps \cup RemoveSteps
Started == {"registered", "removed"}

\* What belongs to a step: the kind of request, one pane for a spawn.
StepShape(h) ==
  /\ handler[h].at = "idle" => handler[h] = Idle
  /\ handler[h].at \in SpawnSteps =>
       handler[h].op = "spawn" /\ \E p \in Pane : handler[h].panes = {p}
  /\ handler[h].at = "kill" =>
       handler[h].op = "kill" /\ handler[h].panes = {} /\ \E s \in Session : handler[h].held = {s}
  /\ handler[h].at \in RemoveSteps => handler[h].op \in {"remove", "delete"}

\* The sessions a handler holds have been started for its panes.
HeldShape(h) ==
  /\ handler[h].at \in {"lookup", "start", "collect"} => handler[h].held = {}
  /\ handler[h].at \in {"inherit", "bind", "undo"} => \E s \in Session : handler[h].held = {s}
  /\ handler[h].at \in SpawnSteps \cup {"terminate"} =>
       \A s \in handler[h].held : paneOf[s] \in handler[h].panes
  /\ \A s \in handler[h].held :
       IF handler[h].at = "inherit" THEN registry[s] = "private" ELSE registry[s] \in Started

\* What a request found out about its panes stays true.
PaneFacts(h) ==
  /\ handler[h].op = "spawn" => \A p \in handler[h].panes : layout[p] # "unborn"
  /\ handler[h].op = "remove" => \A p \in handler[h].panes : layout[p] = "closed"
  /\ handler[h].at = "undo" => \A p \in handler[h].panes : ~exists \/ layout[p] = "closed"

Local(h) == StepShape(h) /\ HeldShape(h) /\ PaneFacts(h)

\* A private session is in the hands of one spawn.
PrivateHeld ==
  /\ \A s \in Session : registry[s] = "private" =>
       \E h \in Connection : handler[h].at = "inherit" /\ s \in handler[h].held
  /\ \A g, h \in Connection : \A s \in Session :
       /\ handler[g].at = "inherit" /\ s \in handler[g].held
       /\ handler[h].at = "inherit" /\ s \in handler[h].held
       => g = h

\* Memory and processes agree on live shells; nothing runs in a pane never opened.
AliveShape ==
  \A s \in Session :
    /\ registry[s] \in {"none", "private"} => ~noted[s]
    /\ Alive(s) =>
         /\ registry[s] \in {"private", "registered"} /\ ~noted[s]
         /\ paneOf[s] \in Pane /\ layout[paneOf[s]] # "unborn"

Steps ==
  /\ \A h \in Connection : Local(h)
  /\ PrivateHeld
  /\ AliveShape

-----------------------------------------------------------------------------
(* How a handler's record changes.                                         *)

LEMMA GoWithMoves ==
  ASSUME TypeOK, NEW h \in Connection, NEW step \in AllSteps, NEW held \in SUBSET Session,
         GoWith(h, step, held)
  PROVE  /\ handler' \in [Connection -> Handlers]
         /\ \A g \in Connection \ {h} : handler'[g] = handler[g]
         /\ handler'[h].op = handler[h].op /\ handler'[h].at = step
         /\ handler'[h].panes = handler[h].panes /\ handler'[h].held = held
<1> DEFINE r == [handler[h] EXCEPT !.at = step, !.held = held]
<1>1. handler[h] \in Handlers
  BY DEF TypeOK
<1>2. /\ r \in Handlers /\ r.op = handler[h].op /\ r.at = step
      /\ r.panes = handler[h].panes /\ r.held = held
  BY <1>1 DEF Handlers, AllSteps, SpawnSteps, RemoveSteps
<1>3. handler' = [handler EXCEPT ![h] = r]
  BY DEF GoWith
<1> HIDE DEF r
<1>. QED BY <1>2, <1>3 DEF TypeOK

LEMMA GoToMoves ==
  ASSUME TypeOK, NEW h \in Connection, NEW step \in AllSteps, GoTo(h, step)
  PROVE  /\ handler' \in [Connection -> Handlers]
         /\ \A g \in Connection \ {h} : handler'[g] = handler[g]
         /\ handler'[h].op = handler[h].op /\ handler'[h].at = step
         /\ handler'[h].panes = handler[h].panes /\ handler'[h].held = handler[h].held
<1> DEFINE r == [handler[h] EXCEPT !.at = step]
<1>1. handler[h] \in Handlers
  BY DEF TypeOK
<1>2. /\ r \in Handlers /\ r.op = handler[h].op /\ r.at = step
      /\ r.panes = handler[h].panes /\ r.held = handler[h].held
  BY <1>1 DEF Handlers, AllSteps, SpawnSteps, RemoveSteps
<1>3. handler' = [handler EXCEPT ![h] = r]
  BY DEF GoTo
<1> HIDE DEF r
<1>. QED BY <1>2, <1>3 DEF TypeOK

LEMMA IdleFields ==
  /\ Idle \in Handlers
  /\ Idle.op = "none" /\ Idle.at = "idle" /\ Idle.panes = {} /\ Idle.held = {}
  BY DEF Idle, Handlers

LEMMA AnswerMoves ==
  ASSUME TypeOK, NEW h \in Connection, Answer(h)
  PROVE  /\ handler' \in [Connection -> Handlers]
         /\ \A g \in Connection \ {h} : handler'[g] = handler[g]
         /\ handler'[h] = Idle
  BY IdleFields DEF TypeOK, Answer

LEMMA AcceptMoves ==
  ASSUME TypeOK, NEW h \in Connection, NEW op \in {"spawn", "remove", "delete", "kill"},
         NEW step \in AllSteps, NEW panes \in SUBSET Pane, NEW held \in SUBSET Session,
         Accept(h, op, step, panes, held)
  PROVE  /\ handler[h].at = "idle"
         /\ handler' \in [Connection -> Handlers]
         /\ \A g \in Connection \ {h} : handler'[g] = handler[g]
         /\ handler'[h].op = op /\ handler'[h].at = step
         /\ handler'[h].panes = panes /\ handler'[h].held = held
<1> DEFINE r == [op |-> op, at |-> step, panes |-> panes, held |-> held]
<1>1. r \in Handlers /\ r.op = op /\ r.at = step /\ r.panes = panes /\ r.held = held
  BY DEF Handlers, AllSteps, SpawnSteps, RemoveSteps
<1>2. handler' = [handler EXCEPT ![h] = r]
  BY DEF Accept
<1>3. handler[h].at = "idle"
  BY DEF Accept, At
<1> HIDE DEF r
<1>. QED BY <1>1, <1>2, <1>3 DEF TypeOK

\* The pane and the session of a spawn.
LEMMA TheOne ==
  ASSUME NEW S, NEW x, S = {x}
  PROVE  (CHOOSE y \in S : TRUE) = x
  OBVIOUS

LEMMA SpawnHolds ==
  ASSUME TypeOK, Steps, NEW h \in Connection, handler[h].at \in SpawnSteps
  PROVE  /\ PaneAt(h) \in Pane /\ handler[h].panes = {PaneAt(h)}
         /\ handler[h].at \in {"inherit", "bind", "undo"} =>
              /\ HeldAt(h) \in Session /\ handler[h].held = {HeldAt(h)}
              /\ paneOf[HeldAt(h)] = PaneAt(h)
<1>1. PICK p \in Pane : handler[h].panes = {p}
  BY DEF Steps, Local, StepShape
<1>2. PaneAt(h) = p
  BY <1>1, TheOne DEF PaneAt
<1>3. ASSUME handler[h].at \in {"inherit", "bind", "undo"}
      PROVE  /\ HeldAt(h) \in Session /\ handler[h].held = {HeldAt(h)}
             /\ paneOf[HeldAt(h)] = PaneAt(h)
  <2>1. PICK s \in Session : handler[h].held = {s}
    BY <1>3 DEF Steps, Local, HeldShape
  <2>2. HeldAt(h) = s
    BY <2>1, TheOne DEF HeldAt
  <2>. QED BY <1>1, <1>2, <2>1, <2>2 DEF Steps, Local, HeldShape, SpawnSteps
<1>. QED BY <1>1, <1>2, <1>3

LEMMA KillHolds ==
  ASSUME TypeOK, Steps, NEW h \in Connection, handler[h].at = "kill"
  PROVE  HeldAt(h) \in Session /\ handler[h].held = {HeldAt(h)}
<1>1. PICK s \in Session : handler[h].held = {s}
  BY DEF Steps, Local, StepShape
<1>. QED BY <1>1, TheOne DEF HeldAt

-----------------------------------------------------------------------------
(* What a step of one handler leaves to the others.                        *)

\* Documents only lose panes, a session once started stays started.
Onward ==
  /\ exists' => exists
  /\ \A p \in Pane : layout[p] = "closed" => layout'[p] = "closed"
  /\ \A p \in Pane : layout[p] # "unborn" => layout'[p] # "unborn"
  /\ \A s \in Session : registry[s] \in Started => registry'[s] \in Started
  /\ \A s \in Session : registry[s] # "none" => paneOf'[s] = paneOf[s]

LEMMA OthersKeep ==
  ASSUME TypeOK, Steps, Onward, NEW g \in Connection, handler'[g] = handler[g],
         handler[g].at = "inherit" => \A s \in handler[g].held : registry'[s] = registry[s]
  PROVE  Local(g)'
<1>1. handler[g] \in Handlers /\ Local(g)
  BY DEF TypeOK, Steps
<1>2. StepShape(g)'
  BY <1>1 DEF Local, StepShape
<1>3. HeldShape(g)'
  <2>1. \A s \in handler[g].held : s \in Session /\ registry[s] # "none"
    BY <1>1 DEF Local, HeldShape, Handlers, Started
  <2>2. \A s \in handler[g].held : paneOf'[s] = paneOf[s]
    BY <2>1 DEF Onward
  <2>3. \A s \in handler[g].held :
          IF handler[g].at = "inherit" THEN registry'[s] = "private" ELSE registry'[s] \in Started
    BY <1>1, <2>1 DEF Local, HeldShape, Onward
  <2>. QED BY <1>1, <2>2, <2>3 DEF Local, HeldShape
<1>4. PaneFacts(g)'
  BY <1>1 DEF Local, PaneFacts, Onward, Handlers
<1>. QED BY <1>2, <1>3, <1>4 DEF Local

-----------------------------------------------------------------------------
(* Inv is inductive.                                                       *)

Inv == TypeOK /\ Steps

LEMMA Quiet ==
  ASSUME Inv, UNCHANGED <<document, handler, sessions>>
  PROVE  Steps'
<1>1. Onward
  BY DEF Onward, document, sessions
<1>2. \A g \in Connection : Local(g)'
  BY <1>1, OthersKeep DEF Inv, sessions
<1>3. PrivateHeld' /\ AliveShape'
  BY DEF Inv, Steps, PrivateHeld, AliveShape, Alive, document, sessions
<1>. QED BY <1>2, <1>3 DEF Steps

LEMMA HandlerOnly ==
  ASSUME Inv, NEW h \in Connection, UNCHANGED <<document, sessions>>,
         \A g \in Connection \ {h} : handler'[g] = handler[g],
         handler[h].at # "inherit", handler'[h].at # "inherit", Local(h)'
  PROVE  Steps'
<1>1. Onward
  BY DEF Onward, document, sessions
<1>2. \A g \in Connection : Local(g)'
  BY <1>1, OthersKeep DEF Inv, sessions
<1>3. PrivateHeld'
  BY DEF Inv, Steps, PrivateHeld, sessions
<1>4. AliveShape'
  BY DEF Inv, Steps, AliveShape, Alive, document, sessions
<1>. QED BY <1>2, <1>3, <1>4 DEF Steps

\* A handler that answers or reaches a step without sessions knows nothing wrong.
LEMMA IdleLocal ==
  ASSUME NEW h \in Connection, handler'[h] = Idle
  PROVE  Local(h)'
  BY IdleFields DEF Local, StepShape, HeldShape, PaneFacts, SpawnSteps, RemoveSteps

LEMMA SpawnSessionStep ==
  ASSUME Inv, NEW h \in Connection, NEW p \in Pane, SpawnSession(h, p)
  PROVE  Inv'
<1>1. /\ handler[h].at = "idle" /\ layout[p] # "unborn"
      /\ handler' \in [Connection -> Handlers]
      /\ \A g \in Connection \ {h} : handler'[g] = handler[g]
      /\ handler'[h].op = "spawn" /\ handler'[h].at = "lookup"
      /\ handler'[h].panes = {p} /\ handler'[h].held = {}
  <2>1. Accept(h, "spawn", "lookup", {p}, {}) /\ layout[p] # "unborn"
    BY DEF SpawnSession
  <2>2. "lookup" \in AllSteps /\ {p} \in SUBSET Pane /\ {} \in SUBSET Session
    BY DEF AllSteps, SpawnSteps
  <2>. QED BY <2>1, <2>2, AcceptMoves DEF Inv
<1>2. Local(h)'
  BY <1>1 DEF Local, StepShape, HeldShape, PaneFacts, SpawnSteps, RemoveSteps, SpawnSession, document
<1>3. Steps'
  BY <1>1, <1>2, HandlerOnly DEF SpawnSession
<1>. QED BY <1>1, <1>3 DEF Inv, TypeOK, SpawnSession, daemon, document, sessions

LEMMA DeleteWorkspaceStep ==
  ASSUME Inv, NEW h \in Connection, DeleteWorkspace(h)
  PROVE  Inv'
<1>1. /\ handler[h].at = "idle"
      /\ handler' \in [Connection -> Handlers]
      /\ \A g \in Connection \ {h} : handler'[g] = handler[g]
      /\ handler'[h].op = "delete" /\ handler'[h].at = "collect" /\ handler'[h].held = {}
  <2>1. Accept(h, "delete", "collect", Pane, {})
    BY DEF DeleteWorkspace
  <2>2. "collect" \in AllSteps /\ Pane \in SUBSET Pane /\ {} \in SUBSET Session
    BY DEF AllSteps, RemoveSteps
  <2>. QED BY <2>1, <2>2, AcceptMoves DEF Inv
<1>2. Local(h)'
  BY <1>1 DEF Local, StepShape, HeldShape, PaneFacts, SpawnSteps, RemoveSteps
<1>3. Steps'
  BY <1>1, <1>2, HandlerOnly DEF DeleteWorkspace
<1>. QED BY <1>1, <1>3 DEF Inv, TypeOK, DeleteWorkspace, daemon, document, sessions

LEMMA KillSessionStep ==
  ASSUME Inv, NEW h \in Connection, NEW s \in Session, KillSession(h, s)
  PROVE  Inv'
<1>1. /\ handler[h].at = "idle" /\ registry[s] = "registered"
      /\ handler' \in [Connection -> Handlers]
      /\ \A g \in Connection \ {h} : handler'[g] = handler[g]
      /\ handler'[h].op = "kill" /\ handler'[h].at = "kill"
      /\ handler'[h].panes = {} /\ handler'[h].held = {s}
  <2>1. Accept(h, "kill", "kill", {}, {s}) /\ registry[s] = "registered"
    BY DEF KillSession, Registered
  <2>2. "kill" \in AllSteps /\ {} \in SUBSET Pane /\ {s} \in SUBSET Session
    BY DEF AllSteps
  <2>. QED BY <2>1, <2>2, AcceptMoves DEF Inv
<1>2. Local(h)'
  BY <1>1 DEF Local, StepShape, HeldShape, PaneFacts, SpawnSteps, RemoveSteps, Started, KillSession, sessions
<1>3. Steps'
  BY <1>1, <1>2, HandlerOnly DEF KillSession
<1>. QED BY <1>1, <1>3 DEF Inv, TypeOK, KillSession, daemon, document, sessions

LEMMA LookupStep ==
  ASSUME Inv, NEW h \in Connection, Lookup(h)
  PROVE  Inv'
<1>1. handler[h].at = "lookup" /\ handler[h].held = {} /\ Local(h) /\ handler[h] \in Handlers
  BY DEF Inv, TypeOK, Steps, Local, HeldShape, Lookup, At
<1>2. handler[h].op = "spawn" /\ handler[h].panes = {PaneAt(h)} /\ PaneAt(h) \in Pane
  BY <1>1, SpawnHolds DEF Inv, Local, StepShape, SpawnSteps
<1>3. CASE Live(PaneAt(h)) = {}
  <2>1. /\ handler' \in [Connection -> Handlers]
        /\ \A g \in Connection \ {h} : handler'[g] = handler[g]
        /\ handler'[h].op = "spawn" /\ handler'[h].at = "start"
        /\ handler'[h].panes = handler[h].panes /\ handler'[h].held = {}
    BY <1>1, <1>2, <1>3, GoToMoves DEF Inv, Lookup, AllSteps, SpawnSteps
  <2>2. Local(h)'
    BY <1>1, <1>2, <2>1
    DEF Local, StepShape, HeldShape, PaneFacts, SpawnSteps, RemoveSteps, Lookup, document
  <2>3. Steps'
    BY <1>1, <2>1, <2>2, HandlerOnly DEF Lookup
  <2>. QED BY <2>1, <2>3 DEF Inv, TypeOK, Lookup, daemon, document, sessions
<1>4. ASSUME NEW s \in Live(PaneAt(h)), GoWith(h, "bind", {s})
      PROVE  Inv'
  <2>1. s \in Session /\ registry[s] = "registered" /\ paneOf[s] = PaneAt(h)
    BY DEF Live, Running, Registered
  <2>2. /\ handler' \in [Connection -> Handlers]
        /\ \A g \in Connection \ {h} : handler'[g] = handler[g]
        /\ handler'[h].op = "spawn" /\ handler'[h].at = "bind"
        /\ handler'[h].panes = handler[h].panes /\ handler'[h].held = {s}
    BY <1>1, <1>2, <1>4, <2>1, GoWithMoves DEF Inv, AllSteps, SpawnSteps
  <2>3. Local(h)'
    BY <1>1, <1>2, <2>1, <2>2
    DEF Local, StepShape, HeldShape, PaneFacts, SpawnSteps, RemoveSteps, Started, Lookup, document, sessions
  <2>4. Steps'
    BY <1>1, <2>2, <2>3, HandlerOnly DEF Lookup
  <2>. QED BY <2>2, <2>4 DEF Inv, TypeOK, Lookup, daemon, document, sessions
<1>. QED BY <1>3, <1>4 DEF Lookup

LEMMA StartFailsStep ==
  ASSUME Inv, NEW h \in Connection, StartFails(h)
  PROVE  Inv'
<1>1. /\ handler[h].at = "start"
      /\ handler' \in [Connection -> Handlers]
      /\ \A g \in Connection \ {h} : handler'[g] = handler[g]
      /\ handler'[h] = Idle
  BY AnswerMoves DEF Inv, StartFails, At
<1>2. Steps'
  BY <1>1, IdleLocal, IdleFields, HandlerOnly DEF StartFails
<1>. QED BY <1>1, <1>2 DEF Inv, TypeOK, StartFails, daemon, document, sessions

LEMMA CollectStep ==
  ASSUME Inv, NEW h \in Connection, Collect(h)
  PROVE  Inv'
<1> DEFINE found == {s \in Session : Registered(s) /\ paneOf[s] \in handler[h].panes}
<1>1. handler[h].at = "collect" /\ Local(h) /\ handler[h] \in Handlers
  BY DEF Inv, TypeOK, Steps, Collect, At
<1>2. /\ handler' \in [Connection -> Handlers]
      /\ \A g \in Connection \ {h} : handler'[g] = handler[g]
      /\ handler'[h].op = handler[h].op /\ handler'[h].at = "terminate"
      /\ handler'[h].panes = handler[h].panes /\ handler'[h].held = found
  BY GoWithMoves DEF Inv, Collect, AllSteps, RemoveSteps
<1>3. Local(h)'
  BY <1>1, <1>2 DEF Local, StepShape, HeldShape, PaneFacts, SpawnSteps, RemoveSteps, Started,
                    Registered, Collect, document, sessions
<1>4. Steps'
  BY <1>1, <1>2, <1>3, HandlerOnly DEF Collect
<1>. QED BY <1>2, <1>4 DEF Inv, TypeOK, Collect, daemon, document, sessions

LEMMA PurgeStep ==
  ASSUME Inv, NEW h \in Connection, Purge(h)
  PROVE  Inv'
<1>1. handler[h].at = "purge" /\ Local(h) /\ handler[h] \in Handlers
  BY DEF Inv, TypeOK, Steps, Purge, At
<1>2. CASE handler[h].op = "delete"
  <2>1. /\ handler' \in [Connection -> Handlers]
        /\ \A g \in Connection \ {h} : handler'[g] = handler[g]
        /\ handler'[h].op = "delete" /\ handler'[h].at = "drop"
        /\ handler'[h].panes = handler[h].panes /\ handler'[h].held = handler[h].held
    BY <1>1, <1>2, GoToMoves DEF Inv, Purge, AllSteps, RemoveSteps
  <2>2. Local(h)'
    BY <1>1, <1>2, <2>1 DEF Local, StepShape, HeldShape, PaneFacts, SpawnSteps, RemoveSteps, Purge, document, sessions
  <2>3. Steps'
    BY <1>1, <2>1, <2>2, HandlerOnly DEF Purge
  <2>. QED BY <2>1, <2>3 DEF Inv, TypeOK, Purge, daemon, document, sessions
<1>3. CASE handler[h].op # "delete"
  <2>1. /\ handler' \in [Connection -> Handlers]
        /\ \A g \in Connection \ {h} : handler'[g] = handler[g]
        /\ handler'[h] = Idle
    BY <1>3, AnswerMoves DEF Inv, Purge
  <2>2. Steps'
    BY <1>1, <2>1, IdleLocal, IdleFields, HandlerOnly DEF Purge
  <2>. QED BY <2>1, <2>2 DEF Inv, TypeOK, Purge, daemon, document, sessions
<1>. QED BY <1>2, <1>3

LEMMA SplitPaneStep ==
  ASSUME Inv, NEW h \in Connection, NEW p \in Pane, SplitPane(h, p)
  PROVE  Inv'
<1>1. /\ layout[p] = "unborn" /\ layout' \in [Pane -> {"unborn", "open", "closed"}]
      /\ layout'[p] = "open" /\ \A q \in Pane \ {p} : layout'[q] = layout[q]
  BY DEF Inv, TypeOK, SplitPane
<1>2. Onward
  BY <1>1 DEF Onward, SplitPane, sessions
<1>3. \A g \in Connection : Local(g)'
  BY <1>2, OthersKeep DEF Inv, SplitPane, sessions
<1>4. PrivateHeld'
  BY DEF Inv, Steps, PrivateHeld, SplitPane, sessions
<1>5. AliveShape'
  BY <1>1 DEF Inv, Steps, AliveShape, Alive, SplitPane, sessions
<1>. QED BY <1>1, <1>3, <1>4, <1>5 DEF Inv, Steps, TypeOK, SplitPane, daemon, sessions

LEMMA RemovePanesStep ==
  ASSUME Inv, NEW h \in Connection, NEW panes \in SUBSET Pane, RemovePanes(h, panes)
  PROVE  Inv'
<1>1. /\ handler[h].at = "idle"
      /\ handler' \in [Connection -> Handlers]
      /\ \A g \in Connection \ {h} : handler'[g] = handler[g]
      /\ handler'[h].op = "remove" /\ handler'[h].at = "collect"
      /\ handler'[h].panes = panes /\ handler'[h].held = {}
  <2>1. Accept(h, "remove", "collect", panes, {})
    BY DEF RemovePanes
  <2>2. "collect" \in AllSteps /\ {} \in SUBSET Session
    BY DEF AllSteps, RemoveSteps
  <2>. QED BY <2>1, <2>2, AcceptMoves DEF Inv
<1>2. /\ layout' \in [Pane -> {"unborn", "open", "closed"}]
      /\ bound' \in [Pane -> Session \cup {None}]
      /\ \A p \in Pane : layout'[p] = IF p \in panes THEN "closed" ELSE layout[p]
  BY DEF Inv, TypeOK, RemovePanes
<1>3. Onward
  BY <1>2 DEF Onward, RemovePanes, sessions
<1>4. \A g \in Connection \ {h} : Local(g)'
  BY <1>1, <1>3, OthersKeep DEF Inv, RemovePanes, sessions
<1>5. Local(h)'
  BY <1>1, <1>2 DEF Local, StepShape, HeldShape, PaneFacts, SpawnSteps, RemoveSteps
<1>6. PrivateHeld'
  BY <1>1 DEF Inv, Steps, PrivateHeld, RemovePanes, sessions
<1>7. AliveShape'
  BY <1>2 DEF Inv, Steps, AliveShape, Alive, RemovePanes, sessions
<1>. QED BY <1>1, <1>2, <1>4, <1>5, <1>6, <1>7 DEF Inv, Steps, TypeOK, RemovePanes, daemon, sessions

LEMMA StartShellStep ==
  ASSUME Inv, NEW h \in Connection, NEW s \in Session, StartShell(h, s)
  PROVE  Inv'
<1>1. handler[h].at = "start" /\ Local(h) /\ handler[h] \in Handlers /\ registry[s] = "none"
  BY DEF Inv, TypeOK, Steps, StartShell, At
<1>2. handler[h].op = "spawn" /\ handler[h].panes = {PaneAt(h)} /\ PaneAt(h) \in Pane
      /\ layout[PaneAt(h)] # "unborn"
  BY <1>1, SpawnHolds DEF Inv, Local, StepShape, PaneFacts, SpawnSteps
<1>3. /\ handler' \in [Connection -> Handlers]
      /\ \A g \in Connection \ {h} : handler'[g] = handler[g]
      /\ handler'[h].op = "spawn" /\ handler'[h].at = "inherit"
      /\ handler'[h].panes = handler[h].panes /\ handler'[h].held = {s}
  <2>1. GoWith(h, "inherit", {s})
    BY DEF StartShell
  <2>2. "inherit" \in AllSteps /\ {s} \in SUBSET Session
    BY DEF AllSteps, SpawnSteps
  <2>. QED BY <1>2, <2>1, <2>2, GoWithMoves DEF Inv
<1>4. /\ shell' \in [Session -> ShellStates] /\ shell'[s] = "alive"
      /\ registry' \in [Session -> RegistryStates] /\ registry'[s] = "private"
      /\ paneOf' \in [Session -> Pane \cup {None}] /\ paneOf'[s] = PaneAt(h)
      /\ \A t \in Session \ {s} :
           shell'[t] = shell[t] /\ registry'[t] = registry[t] /\ paneOf'[t] = paneOf[t]
  BY <1>2 DEF Inv, TypeOK, StartShell, ShellStates, RegistryStates
<1>5. Onward
  BY <1>1, <1>4 DEF Onward, StartShell, document, Started
<1>6. \A g \in Connection : \A t \in handler[g].held : t \in Session /\ registry[t] # "none"
  BY DEF Inv, TypeOK, Steps, Local, HeldShape, Handlers, Started
<1>7. \A g \in Connection \ {h} : Local(g)'
  BY <1>1, <1>3, <1>4, <1>5, <1>6, OthersKeep DEF Inv
<1>8. Local(h)'
  BY <1>1, <1>2, <1>3, <1>4 DEF Local, StepShape, HeldShape, PaneFacts, SpawnSteps, RemoveSteps, StartShell, document
<1>9. PrivateHeld'
  <2>1. ASSUME NEW t \in Session, registry'[t] = "private"
        PROVE  \E g \in Connection : handler'[g].at = "inherit" /\ t \in handler'[g].held
    <3>1. CASE t = s
      BY <1>3, <3>1
    <3>2. CASE t # s
      BY <1>1, <1>3, <1>4, <2>1, <3>2 DEF Inv, Steps, PrivateHeld
    <3>. QED BY <3>1, <3>2
  <2>2. ASSUME NEW f \in Connection, NEW g \in Connection, NEW t \in Session,
               handler'[f].at = "inherit", t \in handler'[f].held,
               handler'[g].at = "inherit", t \in handler'[g].held
        PROVE  f = g
    <3>1. CASE t = s
      BY <1>1, <1>3, <1>6, <2>2, <3>1
    <3>2. CASE t # s
      BY <1>3, <2>2, <3>2 DEF Inv, Steps, PrivateHeld
    <3>. QED BY <3>1, <3>2
  <2>. QED BY <2>1, <2>2 DEF PrivateHeld
<1>10. AliveShape'
  <2>1. noted[s] = FALSE
    BY <1>1 DEF Inv, Steps, TypeOK, AliveShape
  <2>. QED BY <1>2, <1>4, <2>1 DEF Inv, Steps, AliveShape, Alive, StartShell, document
<1>. QED BY <1>3, <1>4, <1>7, <1>8, <1>9, <1>10 DEF Inv, Steps, TypeOK, StartShell, daemon, document

LEMMA RegisterStep ==
  ASSUME Inv, NEW h \in Connection, Register(h)
  PROVE  Inv'
<1> DEFINE s == HeldAt(h)
<1>1. handler[h].at = "inherit" /\ Local(h) /\ handler[h] \in Handlers
  BY DEF Inv, TypeOK, Steps, Register, At
<1>2. s \in Session /\ handler[h].held = {s} /\ registry[s] = "private"
  BY <1>1, SpawnHolds DEF Inv, Local, HeldShape, SpawnSteps
<1> HIDE DEF s
<1>3. /\ handler' \in [Connection -> Handlers]
      /\ \A g \in Connection \ {h} : handler'[g] = handler[g]
      /\ handler'[h].op = handler[h].op /\ handler'[h].at = "bind"
      /\ handler'[h].panes = handler[h].panes /\ handler'[h].held = {s}
  <2>1. GoTo(h, "bind") /\ "bind" \in AllSteps
    BY DEF Register, AllSteps, SpawnSteps
  <2>. QED BY <1>2, <2>1, GoToMoves DEF Inv
<1>4. /\ registry' \in [Session -> RegistryStates] /\ registry'[s] = "registered"
      /\ \A t \in Session \ {s} : registry'[t] = registry[t]
  BY <1>2 DEF Inv, TypeOK, Register, RegistryStates, s
<1>5. Onward
  BY <1>2, <1>4 DEF Onward, Register, document, Started
<1>6. \A g \in Connection \ {h} : handler[g].at = "inherit" => s \notin handler[g].held
  BY <1>1, <1>2 DEF Inv, Steps, PrivateHeld
<1>7. \A g \in Connection \ {h} : Local(g)'
  <2>1. \A g \in Connection : handler[g].held \subseteq Session
    BY DEF Inv, TypeOK, Handlers
  <2>. QED BY <1>3, <1>4, <1>5, <1>6, <2>1, OthersKeep DEF Inv
<1>8. Local(h)'
  BY <1>1, <1>2, <1>3, <1>4
  DEF Local, StepShape, HeldShape, PaneFacts, SpawnSteps, RemoveSteps, Started, Register, document
<1>9. PrivateHeld'
  BY <1>1, <1>2, <1>3, <1>4 DEF Inv, Steps, PrivateHeld
<1>10. AliveShape'
  BY <1>2, <1>4 DEF Inv, Steps, AliveShape, Alive, Register, document
<1>. QED BY <1>3, <1>4, <1>7, <1>8, <1>9, <1>10 DEF Inv, Steps, TypeOK, Register, daemon, document

LEMMA BindStep ==
  ASSUME Inv, NEW h \in Connection, Bind(h)
  PROVE  Inv'
<1>1. handler[h].at = "bind" /\ Local(h) /\ handler[h] \in Handlers
  BY DEF Inv, TypeOK, Steps, Bind, At
<1>2. /\ PaneAt(h) \in Pane /\ handler[h].panes = {PaneAt(h)}
      /\ HeldAt(h) \in Session /\ handler[h].held = {HeldAt(h)}
  BY <1>1, SpawnHolds DEF Inv, SpawnSteps
<1>3. bound' \in [Pane -> Session \cup {None}]
  BY <1>2 DEF Inv, TypeOK, Bind
<1>4. Onward
  BY DEF Onward, Bind, sessions
<1>5. AliveShape'
  BY DEF Inv, Steps, AliveShape, Alive, Bind, sessions
<1>6. CASE Mounted(PaneAt(h))
  <2>1. /\ handler' \in [Connection -> Handlers]
        /\ \A g \in Connection \ {h} : handler'[g] = handler[g]
        /\ handler'[h] = Idle
    BY <1>6, AnswerMoves DEF Inv, Bind
  <2>2. \A g \in Connection \ {h} : Local(g)'
    BY <1>4, <2>1, OthersKeep DEF Inv, Bind, sessions
  <2>3. PrivateHeld'
    BY <1>1, <2>1, IdleFields DEF Inv, Steps, PrivateHeld, Bind, sessions
  <2>. QED BY <1>3, <1>5, <2>1, <2>2, <2>3, IdleLocal DEF Inv, Steps, TypeOK, Bind, daemon, sessions
<1>7. CASE ~Mounted(PaneAt(h))
  <2>1. /\ handler' \in [Connection -> Handlers]
        /\ \A g \in Connection \ {h} : handler'[g] = handler[g]
        /\ handler'[h].op = handler[h].op /\ handler'[h].at = "undo"
        /\ handler'[h].panes = handler[h].panes /\ handler'[h].held = handler[h].held
    <3>1. GoTo(h, "undo") /\ "undo" \in AllSteps
      BY <1>7 DEF Bind, AllSteps, SpawnSteps
    <3>. QED BY <3>1, GoToMoves DEF Inv
  <2>2. \A g \in Connection \ {h} : Local(g)'
    BY <1>4, <2>1, OthersKeep DEF Inv, Bind, sessions
  <2>3. PrivateHeld'
    BY <1>1, <2>1 DEF Inv, Steps, PrivateHeld, Bind, sessions
  <2>4. ~exists \/ layout[PaneAt(h)] = "closed"
    BY <1>1, <1>2, <1>7 DEF Inv, TypeOK, Mounted, Local, StepShape, PaneFacts, SpawnSteps
  <2>5. Local(h)'
    BY <1>1, <1>2, <2>1, <2>4
    DEF Local, StepShape, HeldShape, PaneFacts, SpawnSteps, RemoveSteps, Bind, sessions
  <2>. QED BY <1>3, <1>5, <2>1, <2>2, <2>3, <2>5 DEF Inv, Steps, TypeOK, Bind, daemon, sessions
<1>. QED BY <1>6, <1>7

\* Ending a shell starts none.
LEMMA EndShell ==
  ASSUME Inv, NEW s \in Session, NEW how \in {"ended", "terminated"}, shell' = End(s, how)
  PROVE  /\ shell' \in [Session -> ShellStates]
         /\ \A t \in Session \ {s} : shell'[t] = shell[t]
         /\ shell'[s] = IF Running(s) /\ Alive(s) THEN how ELSE shell[s]
  BY DEF Inv, TypeOK, End, ShellStates

LEMMA ShellsOnly ==
  ASSUME Inv, NEW h \in Connection, UNCHANGED <<document, paneOf, registry, noted>>,
         \A t \in Session : shell'[t] = "alive" => shell[t] = "alive",
         \A g \in Connection \ {h} : handler'[g] = handler[g],
         handler'[h] = handler[h] \/ (handler'[h] = Idle /\ handler[h].at # "inherit")
  PROVE  Steps'
<1>1. Onward
  BY DEF Onward, document
<1>2. \A g \in Connection \ {h} : Local(g)'
  BY <1>1, OthersKeep DEF Inv
<1>3. Local(h)'
  BY <1>1, OthersKeep, IdleLocal DEF Inv
<1>4. PrivateHeld'
  BY IdleFields DEF Inv, Steps, PrivateHeld
<1>5. AliveShape'
  BY DEF Inv, Steps, AliveShape, Alive, document
<1>. QED BY <1>2, <1>3, <1>4, <1>5 DEF Steps

LEMMA UndoStep ==
  ASSUME Inv, NEW h \in Connection, Undo(h)
  PROVE  Inv'
<1>1. handler[h].at = "undo" /\ HeldAt(h) \in Session
  BY SpawnHolds DEF Inv, Undo, At, SpawnSteps
<1>2. /\ handler' \in [Connection -> Handlers] /\ handler'[h] = Idle
      /\ \A g \in Connection \ {h} : handler'[g] = handler[g]
  BY AnswerMoves DEF Inv, Undo
<1>3. /\ shell' \in [Session -> ShellStates]
      /\ \A t \in Session : shell'[t] = "alive" => shell[t] = "alive"
  BY <1>1, EndShell DEF Undo, Alive
<1>4. Steps'
  BY <1>1, <1>2, <1>3, ShellsOnly DEF Undo
<1>. QED BY <1>2, <1>3, <1>4 DEF Inv, TypeOK, Undo, daemon, document

LEMMA KillStep ==
  ASSUME Inv, NEW h \in Connection, Kill(h)
  PROVE  Inv'
<1>1. handler[h].at = "kill" /\ HeldAt(h) \in Session
  BY KillHolds DEF Inv, Kill, At
<1>2. /\ handler' \in [Connection -> Handlers] /\ handler'[h] = Idle
      /\ \A g \in Connection \ {h} : handler'[g] = handler[g]
  BY AnswerMoves DEF Inv, Kill
<1>3. /\ shell' \in [Session -> ShellStates]
      /\ \A t \in Session : shell'[t] = "alive" => shell[t] = "alive"
  BY <1>1, EndShell DEF Kill, Alive
<1>4. Steps'
  BY <1>1, <1>2, <1>3, ShellsOnly DEF Kill
<1>. QED BY <1>2, <1>3, <1>4 DEF Inv, TypeOK, Kill, daemon, document

LEMMA TerminateStep ==
  ASSUME Inv, NEW h \in Connection, NEW s \in Session, Terminate(h, s)
  PROVE  Inv'
<1>1. /\ shell' \in [Session -> ShellStates]
      /\ \A t \in Session : shell'[t] = "alive" => shell[t] = "alive"
  BY EndShell DEF Terminate, Alive
<1>2. Steps'
  BY <1>1, ShellsOnly DEF Terminate
<1>. QED BY <1>1, <1>2 DEF Inv, TypeOK, Terminate, daemon, document

LEMMA ShellExitsStep ==
  ASSUME Inv, NEW s \in Session, ShellExits(s)
  PROVE  Inv'
<1>1. /\ shell' \in [Session -> ShellStates]
      /\ \A t \in Session : shell'[t] = "alive" => shell[t] = "alive"
  BY DEF Inv, TypeOK, ShellExits, ShellStates
<1>2. Onward
  BY DEF Onward, ShellExits, document
<1>3. \A g \in Connection : Local(g)'
  BY <1>2, OthersKeep DEF Inv, ShellExits
<1>4. PrivateHeld' /\ AliveShape'
  BY <1>1 DEF Inv, Steps, PrivateHeld, AliveShape, Alive, ShellExits, document
<1>. QED BY <1>1, <1>3, <1>4 DEF Inv, Steps, TypeOK, ShellExits, daemon, document

LEMMA NoticeExitStep ==
  ASSUME Inv, NEW s \in Session, NoticeExit(s)
  PROVE  Inv'
<1>1. /\ noted' \in [Session -> BOOLEAN]
      /\ \A t \in Session \ {s} : noted'[t] = noted[t]
  BY DEF Inv, TypeOK, NoticeExit
<1>2. Onward
  BY DEF Onward, NoticeExit, document
<1>3. \A g \in Connection : Local(g)'
  BY <1>2, OthersKeep DEF Inv, NoticeExit
<1>4. PrivateHeld'
  BY DEF Inv, Steps, PrivateHeld, NoticeExit
<1>5. AliveShape'
  BY <1>1 DEF Inv, Steps, AliveShape, Alive, NoticeExit, document
<1>. QED BY <1>1, <1>3, <1>4, <1>5 DEF Inv, Steps, TypeOK, NoticeExit, daemon, document

LEMMA UnregisterStep ==
  ASSUME Inv, NEW h \in Connection, Unregister(h)
  PROVE  Inv'
<1>1. handler[h].at = "terminate" /\ Local(h) /\ handler[h] \in Handlers
  BY DEF Inv, TypeOK, Steps, Unregister, At
<1>2. /\ handler' \in [Connection -> Handlers]
      /\ \A g \in Connection \ {h} : handler'[g] = handler[g]
      /\ handler'[h].op = handler[h].op /\ handler'[h].at = "purge"
      /\ handler'[h].panes = handler[h].panes /\ handler'[h].held = {}
  <2>1. GoWith(h, "purge", {}) /\ "purge" \in AllSteps /\ {} \in SUBSET Session
    BY DEF Unregister, AllSteps, RemoveSteps
  <2>. QED BY <2>1, GoWithMoves DEF Inv
<1>3. /\ \A s \in handler[h].held : registry[s] \in Started /\ ~Alive(s)
      /\ registry' = [s \in Session |-> IF s \in handler[h].held THEN "removed" ELSE registry[s]]
  BY <1>1 DEF Local, HeldShape, Unregister
<1>4. registry' \in [Session -> RegistryStates]
  BY <1>3 DEF Inv, TypeOK, RegistryStates
<1>5. Onward
  BY <1>3 DEF Onward, Unregister, document, Started
<1>6. \A s \in Session : registry[s] = "private" <=> registry'[s] = "private"
  BY <1>3 DEF Started
<1>7. \A g \in Connection \ {h} : Local(g)'
  <2>1. \A g \in Connection : handler[g].at = "inherit" =>
          \A s \in handler[g].held : s \in Session /\ registry[s] = "private"
    BY DEF Inv, TypeOK, Handlers, Steps, Local, HeldShape
  <2>. QED BY <1>2, <1>5, <1>6, <2>1, OthersKeep DEF Inv
<1>8. Local(h)'
  BY <1>1, <1>2 DEF Local, StepShape, HeldShape, PaneFacts, SpawnSteps, RemoveSteps, Unregister, document
<1>9. PrivateHeld'
  BY <1>1, <1>2, <1>6 DEF Inv, Steps, PrivateHeld
<1>10. AliveShape'
  BY <1>3 DEF Inv, Steps, AliveShape, Alive, Unregister, document
<1>. QED BY <1>2, <1>4, <1>7, <1>8, <1>9, <1>10 DEF Inv, Steps, TypeOK, Unregister, daemon, document

LEMMA DropStep ==
  ASSUME Inv, NEW h \in Connection, Drop(h)
  PROVE  Inv'
<1>1. handler[h].at = "drop"
  BY DEF Drop, At
<1>2. /\ handler' \in [Connection -> Handlers] /\ handler'[h] = Idle
      /\ \A g \in Connection \ {h} : handler'[g] = handler[g]
  BY AnswerMoves DEF Inv, Drop
<1>3. Onward
  BY DEF Onward, Drop, sessions
<1>4. \A g \in Connection \ {h} : Local(g)'
  BY <1>2, <1>3, OthersKeep DEF Inv, Drop, sessions
<1>5. PrivateHeld'
  BY <1>1, <1>2, IdleFields DEF Inv, Steps, PrivateHeld, Drop, sessions
<1>6. AliveShape'
  BY DEF Inv, Steps, AliveShape, Alive, Drop, sessions
<1>. QED BY <1>2, <1>4, <1>5, <1>6, IdleLocal DEF Inv, Steps, TypeOK, Drop, daemon, sessions

LEMMA DaemonEndsStep ==
  ASSUME Inv, DaemonEnds
  PROVE  Inv'
<1>1. TypeOK'
  BY IdleFields DEF Inv, TypeOK, DaemonEnds, document, ShellStates, RegistryStates
<1>2. \A h \in Connection : handler'[h] = Idle
  BY DEF DaemonEnds
<1>3. \A h \in Connection : Local(h)'
  BY <1>2, IdleLocal
<1>4. \A s \in Session : shell'[s] # "alive" /\ registry'[s] # "private" /\ noted'[s] = FALSE
  BY DEF DaemonEnds
<1>5. PrivateHeld'
  BY <1>2, <1>4, IdleFields DEF PrivateHeld
<1>6. AliveShape'
  BY <1>4 DEF AliveShape, Alive
<1>. QED BY <1>1, <1>3, <1>5, <1>6 DEF Inv, Steps

LEMMA QuietStep ==
  ASSUME Inv,
         \/ \E h \in Connection : TakeControl(h) \/ ShutdownAgent(h)
         \/ \E h \in Connection, value \in BOOLEAN : SetDraining(h, value)
         \/ ShutdownMissed \/ Restart \/ UNCHANGED vars
  PROVE  Inv'
<1>1. UNCHANGED <<document, handler, sessions>>
  BY DEF TakeControl, ShutdownAgent, SetDraining, ShutdownMissed, Restart, vars
<1>2. /\ up' \in BOOLEAN /\ draining' \in BOOLEAN /\ stopping' \in BOOLEAN
      /\ controller' \in Connection \cup {None}
  BY DEF Inv, TypeOK, TakeControl, ShutdownAgent, SetDraining, ShutdownMissed, Restart, vars, daemon
<1>. QED BY <1>1, <1>2, Quiet DEF Inv, TypeOK, document, sessions

LEMMA RequestStep ==
  ASSUME Inv, NEW h \in Connection, Request(h)
  PROVE  Inv'
<1>1. CASE TakeControl(h) \/ ShutdownAgent(h) \/ \E value \in BOOLEAN : SetDraining(h, value)
  BY <1>1, QuietStep
<1>2. CASE \E p \in Pane : SpawnSession(h, p) \/ SplitPane(h, p)
  BY <1>2, SpawnSessionStep, SplitPaneStep
<1>3. CASE \E panes \in SUBSET Pane : RemovePanes(h, panes)
  BY <1>3, RemovePanesStep
<1>4. CASE DeleteWorkspace(h) \/ \E s \in Session : KillSession(h, s)
  BY <1>4, DeleteWorkspaceStep, KillSessionStep
<1>. QED BY <1>1, <1>2, <1>3, <1>4 DEF Request

LEMMA ServeStep ==
  ASSUME Inv, NEW h \in Connection, Serve(h)
  PROVE  Inv'
<1>1. CASE Lookup(h) \/ StartFails(h) \/ Register(h) \/ Bind(h) \/ Undo(h) \/ Kill(h)
  BY <1>1, LookupStep, StartFailsStep, RegisterStep, BindStep, UndoStep, KillStep
<1>2. CASE \E s \in Session : StartShell(h, s) \/ Terminate(h, s)
  BY <1>2, StartShellStep, TerminateStep
<1>3. CASE Collect(h) \/ Unregister(h) \/ Purge(h) \/ Drop(h)
  BY <1>3, CollectStep, UnregisterStep, PurgeStep, DropStep
<1>. QED BY <1>1, <1>2, <1>3 DEF Serve

LEMMA InvStep == Inv /\ [Next]_vars => Inv'
<1> SUFFICES ASSUME Inv, [Next]_vars PROVE Inv'
  OBVIOUS
<1>1. CASE \E h \in Connection : Request(h) \/ Serve(h)
  BY <1>1, RequestStep, ServeStep
<1>2. CASE \E s \in Session : ShellExits(s) \/ NoticeExit(s)
  BY <1>2, ShellExitsStep, NoticeExitStep
<1>3. CASE Shutdown \/ Crash
  BY <1>3, DaemonEndsStep DEF Shutdown, Crash
<1>4. CASE ShutdownMissed \/ Restart \/ UNCHANGED vars
  BY <1>4, QuietStep
<1>. QED BY <1>1, <1>2, <1>3, <1>4 DEF Next

LEMMA InvInit == Init => Inv
<1> SUFFICES ASSUME Init PROVE Inv
  OBVIOUS
<1>1. TypeOK
  BY IdleFields DEF Init, TypeOK, ShellStates, RegistryStates
<1>2. \A h \in Connection : Local(h)
  BY IdleFields DEF Init, Local, StepShape, HeldShape, PaneFacts, SpawnSteps, RemoveSteps
<1>3. PrivateHeld /\ AliveShape
  BY IdleFields DEF Init, PrivateHeld, AliveShape, Alive
<1>. QED BY <1>1, <1>2, <1>3 DEF Inv, Steps

LEMMA Invariance == Spec => []Inv
  BY InvInit, InvStep, PTL DEF Spec

\* Every reachable state is well typed (daemon memory, document and handlers).
THEOREM TypeCorrect == Spec => []TypeOK
  BY Invariance, PTL DEF Inv

-----------------------------------------------------------------------------
(* No shell outlives its pane.                                             *)

Stray(s) == exists /\ Alive(s) /\ layout[paneOf[s]] = "closed"
Attends(h, s) == Spawning(h, s) \/ Ending(h, s)

\* One handler moves: what the others attend to, they still do.
LEMMA StrayMove ==
  ASSUME Inv, NoStrayShell, Onward, NEW h \in Connection,
         \A g \in Connection \ {h} : handler'[g] = handler[g],
         \A s \in Session : Stray(s)' =>
           \/ Attends(h, s)'
           \/ Stray(s) /\ ~Attends(h, s)
           \/ Alive(s) /\ \E g \in Connection \ {h} : Attends(g, s)
  PROVE  NoStrayShell'
<1> SUFFICES ASSUME NEW s \in Session, Stray(s)'
             PROVE  \E g \in Connection : Attends(g, s)'
  BY DEF NoStrayShell, Stray, Attends
<1>1. CASE Attends(h, s)'
  BY <1>1
<1>2. ASSUME Alive(s), NEW g \in Connection \ {h}, Attends(g, s)
      PROVE  Attends(g, s)'
  <2>1. paneOf'[s] = paneOf[s]
    BY <1>2 DEF Inv, Steps, AliveShape, Onward
  <2>. QED BY <1>2, <2>1 DEF Attends, Spawning, Ending
<1>3. CASE Stray(s) /\ ~Attends(h, s)
  <2>1. PICK g \in Connection : Attends(g, s)
    BY <1>3 DEF NoStrayShell, Stray, Attends
  <2>. QED BY <1>2, <1>3, <2>1 DEF Stray
<1>. QED BY <1>1, <1>2, <1>3

\* No handler moves and no shell starts.
LEMMA StrayStill ==
  ASSUME Inv, NoStrayShell, Onward, UNCHANGED <<handler, paneOf>>,
         \A s \in Session : Stray(s)' => Stray(s)
  PROVE  NoStrayShell'
  BY DEF NoStrayShell, Stray, Spawning, Ending

LEMMA IdleAttendsNone ==
  ASSUME Inv, NEW h \in Connection, NEW s \in Session,
         handler[h].at \in {"idle", "lookup", "start", "kill", "purge", "drop"}
  PROVE  ~Attends(h, s)
<1>1. Local(h)
  BY DEF Inv, Steps
<1>2. CASE handler[h].at = "idle"
  BY <1>1, <1>2, IdleFields DEF Local, StepShape, Attends, Spawning, Ending
<1>3. CASE handler[h].at \in {"lookup", "start"}
  BY <1>1, <1>3 DEF Local, StepShape, HeldShape, SpawnSteps, Attends, Spawning, Ending
<1>4. CASE handler[h].at = "kill"
  BY <1>1, <1>4 DEF Local, StepShape, Attends, Spawning, Ending
<1>5. CASE handler[h].at \in {"purge", "drop"}
  BY <1>1, <1>5 DEF Local, StepShape, RemoveSteps, Attends, Spawning, Ending
<1>. QED BY <1>2, <1>3, <1>4, <1>5

\* Steps of a handler that attends to nothing, over unchanged sessions.
LEMMA StrayIdle ==
  ASSUME Inv, NoStrayShell, NEW h \in Connection, UNCHANGED <<document, sessions>>,
         \A g \in Connection \ {h} : handler'[g] = handler[g],
         handler[h].at \in {"idle", "lookup", "start", "kill", "purge", "drop"}
  PROVE  NoStrayShell'
<1>1. Onward
  BY DEF Onward, document, sessions
<1>2. \A s \in Session : Stray(s)' => Stray(s) /\ ~Attends(h, s)
  BY IdleAttendsNone DEF Stray, Alive, document, sessions
<1>. QED BY <1>1, <1>2, StrayMove

LEMMA OthersStay ==
  ASSUME Inv, NEW h \in Connection,
         \/ \E p \in Pane : SpawnSession(h, p)
         \/ \E panes \in SUBSET Pane : RemovePanes(h, panes)
         \/ DeleteWorkspace(h) \/ \E s \in Session : KillSession(h, s)
         \/ Lookup(h) \/ \E s \in Session : StartShell(h, s)
         \/ StartFails(h) \/ Register(h) \/ Bind(h) \/ Undo(h) \/ Kill(h)
         \/ Collect(h) \/ Unregister(h) \/ Purge(h) \/ Drop(h)
  PROVE  \A g \in Connection \ {h} : handler'[g] = handler[g]
<1>1. handler \in [Connection -> Handlers]
  BY DEF Inv, TypeOK
<1>2. CASE \/ \E p \in Pane : SpawnSession(h, p)
           \/ \E panes \in SUBSET Pane : RemovePanes(h, panes)
           \/ DeleteWorkspace(h) \/ \E s \in Session : KillSession(h, s)
  BY <1>1, <1>2 DEF SpawnSession, RemovePanes, DeleteWorkspace, KillSession, Accept
<1>3. CASE Lookup(h) \/ StartFails(h) \/ Register(h) \/ Bind(h) \/ Undo(h) \/ Kill(h)
  BY <1>1, <1>3 DEF Lookup, StartFails, Register, Bind, Undo, Kill, GoTo, GoWith, Answer
<1>4. CASE \E s \in Session : StartShell(h, s)
  BY <1>1, <1>4 DEF StartShell, GoWith
<1>5. CASE Collect(h) \/ Unregister(h) \/ Purge(h) \/ Drop(h)
  BY <1>1, <1>5 DEF Collect, Unregister, Purge, Drop, GoTo, GoWith, Answer
<1>. QED BY <1>2, <1>3, <1>4, <1>5

LEMMA StrayRequest ==
  ASSUME Inv, NoStrayShell, NEW h \in Connection, Request(h)
  PROVE  NoStrayShell'
<1>1. CASE \/ \E p \in Pane : SpawnSession(h, p)
           \/ DeleteWorkspace(h) \/ \E s \in Session : KillSession(h, s)
  <2>1. handler[h].at = "idle" /\ UNCHANGED <<document, sessions>>
    BY <1>1 DEF SpawnSession, DeleteWorkspace, KillSession, Accept, At
  <2>2. \A g \in Connection \ {h} : handler'[g] = handler[g]
    BY <1>1, OthersStay
  <2>. QED BY <2>1, <2>2, StrayIdle
<1>2. CASE TakeControl(h) \/ ShutdownAgent(h) \/ \E value \in BOOLEAN : SetDraining(h, value)
  <2>1. UNCHANGED <<document, handler, sessions>>
    BY <1>2 DEF TakeControl, ShutdownAgent, SetDraining
  <2>2. Onward
    BY <2>1 DEF Onward, document, sessions
  <2>. QED BY <2>1, <2>2, StrayStill DEF Stray, Alive, document, sessions
<1>3. ASSUME NEW p \in Pane, SplitPane(h, p) PROVE NoStrayShell'
  <2>1. /\ exists' = exists /\ UNCHANGED <<handler, sessions>>
        /\ layout[p] = "unborn" /\ layout' = [layout EXCEPT ![p] = "open"]
    BY <1>3 DEF SplitPane
  <2>2. Onward
    BY <2>1 DEF Onward, Inv, TypeOK, sessions
  <2>3. \A s \in Session : Alive(s) => paneOf[s] \in Pane
    BY DEF Inv, Steps, AliveShape
  <2>4. \A s \in Session : Stray(s)' => Stray(s)
    BY <2>1, <2>3 DEF Stray, Alive, Inv, TypeOK, sessions
  <2>. QED BY <2>1, <2>2, <2>4, StrayStill DEF sessions
<1>4. ASSUME NEW panes \in SUBSET Pane, RemovePanes(h, panes) PROVE NoStrayShell'
  <2>1. /\ handler[h].at = "idle"
        /\ handler'[h].op = "remove" /\ handler'[h].at = "collect" /\ handler'[h].panes = panes
    <3>1. Accept(h, "remove", "collect", panes, {})
      BY <1>4 DEF RemovePanes
    <3>2. "collect" \in AllSteps /\ {} \in SUBSET Session
      BY DEF AllSteps, RemoveSteps
    <3>. QED BY <3>1, <3>2, AcceptMoves DEF Inv
  <2>2. \A g \in Connection \ {h} : handler'[g] = handler[g]
    BY <1>4, OthersStay
  <2>3. /\ exists' = exists /\ UNCHANGED sessions
        /\ layout' = [p \in Pane |-> IF p \in panes THEN "closed" ELSE layout[p]]
    BY <1>4 DEF RemovePanes
  <2>4. Onward
    BY <2>3 DEF Onward, sessions
  <2>5. ASSUME NEW s \in Session, Stray(s)'
        PROVE  Attends(h, s)' \/ (Stray(s) /\ ~Attends(h, s))
    <3>1. Alive(s) /\ paneOf[s] \in Pane /\ paneOf'[s] = paneOf[s] /\ exists
      BY <2>3, <2>5 DEF Inv, Steps, AliveShape, Stray, Alive, sessions
    <3>2. CASE paneOf[s] \in panes
      BY <2>1, <3>1, <3>2 DEF Attends, Ending
    <3>3. CASE paneOf[s] \notin panes
      BY <2>1, <2>3, <2>5, <3>1, <3>3, IdleAttendsNone DEF Stray
    <3>. QED BY <3>2, <3>3
  <2>. QED BY <2>2, <2>4, <2>5, StrayMove
<1>. QED BY <1>1, <1>2, <1>3, <1>4 DEF Request

LEMMA StraySpawn ==
  ASSUME Inv, NoStrayShell, NEW h \in Connection,
         (\E s \in Session : StartShell(h, s)) \/ Register(h) \/ Bind(h) \/ Undo(h)
  PROVE  NoStrayShell'
<1>1. \A g \in Connection \ {h} : handler'[g] = handler[g]
  BY OthersStay
<1>2. ASSUME NEW t \in Session, StartShell(h, t) PROVE NoStrayShell'
  <2>1. handler[h].at = "start" /\ handler[h].op = "spawn" /\ registry[t] = "none"
    BY <1>2 DEF StartShell, At, Inv, Steps, Local, StepShape, SpawnSteps
  <2>2. handler'[h].op = "spawn" /\ handler'[h].held = {t}
    <3>1. GoWith(h, "inherit", {t}) /\ "inherit" \in AllSteps /\ {t} \in SUBSET Session
      BY <1>2 DEF StartShell, AllSteps, SpawnSteps
    <3>. QED BY <2>1, <3>1, GoWithMoves DEF Inv
  <2>3. /\ exists' = exists /\ layout' = layout /\ registry' = [registry EXCEPT ![t] = "private"]
        /\ \A s \in Session \ {t} : shell'[s] = shell[s] /\ paneOf'[s] = paneOf[s]
    BY <1>2 DEF StartShell, document, Inv, TypeOK
  <2>4. Onward
    BY <2>1, <2>3 DEF Onward, Inv, TypeOK, Started
  <2>5. \A s \in Session : Stray(s)' => Attends(h, s)' \/ (Stray(s) /\ ~Attends(h, s))
    <3>1. Attends(h, t)'
      BY <2>2 DEF Attends, Spawning
    <3>. QED BY <2>1, <2>3, <3>1, IdleAttendsNone DEF Stray, Alive
  <2>. QED BY <1>1, <2>4, <2>5, StrayMove
<1>3. CASE Register(h)
  <2>1. /\ handler[h].at = "inherit" /\ handler[h].op = "spawn"
        /\ HeldAt(h) \in Session /\ registry[HeldAt(h)] = "private" /\ handler[h].held = {HeldAt(h)}
    BY <1>3, SpawnHolds DEF Register, At, Inv, Steps, Local, StepShape, HeldShape, SpawnSteps
  <2>2. handler'[h].op = "spawn" /\ handler'[h].held = handler[h].held
    <3>1. GoTo(h, "bind") /\ "bind" \in AllSteps
      BY <1>3 DEF Register, AllSteps, SpawnSteps
    <3>. QED BY <2>1, <3>1, GoToMoves DEF Inv
  <2>3. UNCHANGED <<document, paneOf, shell>> /\ registry' = [registry EXCEPT ![HeldAt(h)] = "registered"]
    BY <1>3 DEF Register
  <2>4. Onward
    BY <2>1, <2>3 DEF Onward, document, Inv, TypeOK, Started
  <2>5. \A s \in Session : Stray(s)' => Attends(h, s)' \/ (Stray(s) /\ ~Attends(h, s))
    BY <2>1, <2>2, <2>3 DEF Stray, Alive, Attends, Spawning, Ending, document
  <2>. QED BY <1>1, <2>4, <2>5, StrayMove
<1>4. CASE Bind(h)
  <2>1. /\ handler[h].at = "bind" /\ handler[h].op = "spawn"
        /\ HeldAt(h) \in Session /\ handler[h].held = {HeldAt(h)} /\ paneOf[HeldAt(h)] = PaneAt(h)
    BY <1>4, SpawnHolds DEF Bind, At, Inv, Steps, Local, StepShape, SpawnSteps
  <2>2. exists' = exists /\ layout' = layout /\ UNCHANGED sessions
    BY <1>4 DEF Bind
  <2>3. Onward
    BY <2>2 DEF Onward, sessions
  <2>4. CASE Mounted(PaneAt(h))
    <3>1. \A s \in Session : Stray(s)' => Stray(s) /\ s # HeldAt(h)
      BY <2>1, <2>2, <2>4 DEF Stray, Alive, Mounted, sessions
    <3>2. \A s \in Session : s # HeldAt(h) => ~Attends(h, s)
      BY <2>1 DEF Attends, Spawning, Ending
    <3>. QED BY <1>1, <2>3, <3>1, <3>2, StrayMove
  <2>5. CASE ~Mounted(PaneAt(h))
    <3>1. handler'[h].op = "spawn" /\ handler'[h].held = handler[h].held
      <4>1. GoTo(h, "undo") /\ "undo" \in AllSteps
        BY <1>4, <2>5 DEF Bind, AllSteps, SpawnSteps
      <4>. QED BY <2>1, <4>1, GoToMoves DEF Inv
    <3>2. \A s \in Session : Stray(s)' => Attends(h, s)' \/ (Stray(s) /\ ~Attends(h, s))
      BY <2>1, <2>2, <3>1 DEF Stray, Alive, Attends, Spawning, Ending, sessions
    <3>. QED BY <1>1, <2>3, <3>2, StrayMove
  <2>. QED BY <2>4, <2>5
<1>5. CASE Undo(h)
  <2>1. /\ handler[h].at = "undo" /\ handler[h].op = "spawn"
        /\ HeldAt(h) \in Session /\ handler[h].held = {HeldAt(h)} /\ registry[HeldAt(h)] \in Started
    BY <1>5, SpawnHolds DEF Undo, At, Inv, Steps, Local, StepShape, HeldShape, SpawnSteps
  <2>2. shell' = End(HeldAt(h), "terminated") /\ UNCHANGED <<document, paneOf, registry>>
    BY <1>5 DEF Undo
  <2>3. Onward
    BY <2>2 DEF Onward, document
  <2>4. Alive(HeldAt(h)) => Running(HeldAt(h))
    BY <2>1 DEF Running, Registered, Inv, Steps, AliveShape, Started
  <2>5. /\ shell'[HeldAt(h)] # "alive"
        /\ \A s \in Session \ {HeldAt(h)} : shell'[s] = shell[s]
    BY <2>1, <2>2, <2>4, EndShell DEF Alive
  <2>6. \A s \in Session : Stray(s)' => Stray(s) /\ ~Attends(h, s)
    BY <2>1, <2>2, <2>5 DEF Stray, Alive, Attends, Spawning, Ending, document
  <2>. QED BY <1>1, <2>3, <2>6, StrayMove
<1>. QED BY <1>2, <1>3, <1>4, <1>5

LEMMA StrayServe ==
  ASSUME Inv, NoStrayShell, NEW h \in Connection, Serve(h)
  PROVE  NoStrayShell'
<1>1. CASE Lookup(h) \/ StartFails(h) \/ Purge(h)
  <2>1. /\ handler[h].at \in {"lookup", "start", "purge"}
        /\ UNCHANGED <<document, sessions>>
    BY <1>1 DEF Lookup, StartFails, Purge, At
  <2>2. \A g \in Connection \ {h} : handler'[g] = handler[g]
    BY <1>1, OthersStay
  <2>. QED BY <2>1, <2>2, StrayIdle
<1>2. CASE (\E s \in Session : StartShell(h, s)) \/ Register(h) \/ Bind(h) \/ Undo(h)
  BY <1>2, StraySpawn
<1>3. CASE Kill(h)
  <2>1. handler[h].at = "kill" /\ HeldAt(h) \in Session
    BY <1>3, KillHolds DEF Kill, At, Inv
  <2>2. \A g \in Connection \ {h} : handler'[g] = handler[g]
    BY <1>3, OthersStay
  <2>3. Onward
    BY <1>3 DEF Kill, Onward, document
  <2>4. \A s \in Session : Alive(s)' => Alive(s)
    BY <1>3, <2>1, EndShell DEF Kill, Alive
  <2>5. \A s \in Session : Stray(s)' => Stray(s) /\ ~Attends(h, s)
    BY <1>3, <2>1, <2>4, IdleAttendsNone DEF Stray, Kill, document
  <2>. QED BY <2>2, <2>3, <2>5, StrayMove
<1>4. CASE Collect(h)
  <2>1. /\ handler[h].at = "collect" /\ handler[h].op \in {"remove", "delete"}
        /\ UNCHANGED <<document, sessions>>
    BY <1>4 DEF Collect, At, Inv, Steps, Local, StepShape, RemoveSteps
  <2>2. /\ handler'[h].op = handler[h].op /\ handler'[h].at = "terminate"
        /\ handler'[h].panes = handler[h].panes
        /\ handler'[h].held = {s \in Session : Registered(s) /\ paneOf[s] \in handler[h].panes}
    <3>1. /\ GoWith(h, "terminate", {s \in Session : Registered(s) /\ paneOf[s] \in handler[h].panes})
          /\ "terminate" \in AllSteps
          /\ {s \in Session : Registered(s) /\ paneOf[s] \in handler[h].panes} \in SUBSET Session
      BY <1>4 DEF Collect, AllSteps, RemoveSteps
    <3>. QED BY <3>1, GoWithMoves DEF Inv
  <2>3. \A g \in Connection \ {h} : handler'[g] = handler[g]
    BY <1>4, OthersStay
  <2>4. Onward
    BY <2>1 DEF Onward, document, sessions
  <2>5. ASSUME NEW s \in Session, Stray(s)'
        PROVE  \/ Attends(h, s)'
               \/ Stray(s) /\ ~Attends(h, s)
               \/ Alive(s) /\ \E g \in Connection \ {h} : Attends(g, s)
    <3>1. Stray(s) /\ Alive(s) /\ paneOf'[s] = paneOf[s] /\ registry[s] \in {"private", "registered"}
      BY <2>1, <2>5 DEF Stray, Alive, Inv, Steps, AliveShape, document, sessions
    <3>2. CASE paneOf[s] \notin handler[h].panes
      BY <2>1, <3>1, <3>2 DEF Attends, Spawning, Ending
    <3>3. CASE paneOf[s] \in handler[h].panes /\ registry[s] = "registered"
      BY <2>1, <2>2, <3>1, <3>3 DEF Attends, Ending, Registered
    <3>4. CASE registry[s] = "private"
      <4>1. PICK g \in Connection : handler[g].at = "inherit" /\ s \in handler[g].held
        BY <3>4 DEF Inv, Steps, PrivateHeld
      <4>2. Attends(g, s) /\ g # h
        BY <2>1, <4>1 DEF Attends, Spawning, Inv, Steps, Local, StepShape, SpawnSteps
      <4>. QED BY <3>1, <4>2
    <3>. QED BY <3>1, <3>2, <3>3, <3>4
  <2>. QED BY <2>3, <2>4, <2>5, StrayMove
<1>5. ASSUME NEW t \in Session, Terminate(h, t) PROVE NoStrayShell'
  <2>1. \A s \in Session : Alive(s)' => Alive(s)
    BY <1>5, EndShell DEF Terminate, Alive
  <2>2. Onward
    BY <1>5 DEF Terminate, Onward, document
  <2>. QED BY <1>5, <2>1, <2>2, StrayStill DEF Terminate, Stray, document
<1>6. CASE Unregister(h)
  <2>1. /\ handler[h].at = "terminate" /\ handler[h].op \in {"remove", "delete"}
        /\ \A s \in handler[h].held : registry[s] \in Started /\ ~Alive(s)
    BY <1>6 DEF Unregister, At, Inv, Steps, Local, StepShape, HeldShape, RemoveSteps
  <2>2. \A g \in Connection \ {h} : handler'[g] = handler[g]
    BY <1>6, OthersStay
  <2>3. Onward
    BY <1>6, <2>1 DEF Unregister, Onward, document, Started
  <2>4. \A s \in Session : Stray(s)' => Stray(s) /\ ~Attends(h, s)
    BY <1>6, <2>1 DEF Unregister, Stray, Alive, Attends, Spawning, Ending, document
  <2>. QED BY <2>2, <2>3, <2>4, StrayMove
<1>7. CASE Drop(h)
  BY <1>7 DEF Drop, NoStrayShell
<1>. QED BY <1>1, <1>2, <1>3, <1>4, <1>5, <1>6, <1>7 DEF Serve

\* A pane that is closed takes its shells along: ApplyWorkspaceOp's closing and
\* SpawnSession's binding never both believe that the other one ends the shell.
THEOREM NoStrayShellHolds == Spec => []NoStrayShell
<1>1. Init => NoStrayShell
  BY DEF Init, NoStrayShell, Alive
<1>2. Inv /\ NoStrayShell /\ [Next]_vars => NoStrayShell'
  <2> SUFFICES ASSUME Inv, NoStrayShell, [Next]_vars PROVE NoStrayShell'
    OBVIOUS
  <2>1. CASE \E h \in Connection : Request(h) \/ Serve(h)
    BY <2>1, StrayRequest, StrayServe
  <2>2. ASSUME NEW s \in Session, ShellExits(s) PROVE NoStrayShell'
    <3>1. Onward
      BY <2>2 DEF ShellExits, Onward, document
    <3>2. \A t \in Session : Alive(t)' => Alive(t)
      BY <2>2 DEF ShellExits, Alive, Inv, TypeOK
    <3>. QED BY <2>2, <3>1, <3>2, StrayStill DEF ShellExits, Stray, document
  <2>3. CASE (\E s \in Session : NoticeExit(s)) \/ ShutdownMissed \/ Restart \/ UNCHANGED vars
    <3>1. UNCHANGED <<document, handler, paneOf, shell, registry>>
      BY <2>3 DEF NoticeExit, ShutdownMissed, Restart, vars, sessions
    <3>2. Onward
      BY <3>1 DEF Onward, document
    <3>. QED BY <3>1, <3>2, StrayStill DEF Stray, Alive, document
  <2>4. CASE Shutdown \/ Crash
    BY <2>4 DEF Shutdown, Crash, DaemonEnds, NoStrayShell, Alive
  <2>. QED BY <2>1, <2>2, <2>3, <2>4 DEF Next
<1>. QED BY <1>1, <1>2, Invariance, PTL DEF Spec

-----------------------------------------------------------------------------
(* No shell is ended under an open pane.                                   *)

\* The daemon ends a shell on its own account only when its pane was closed or
\* its workspace is going: what a handler read before its awaits still holds.
THEOREM OpenPanesSpared == Spec => SparesOpenPanes
<1> DEFINE Step == \A s \in Session : Alive(s) /\ shell'[s] = "terminated" =>
                      layout[paneOf[s]] = "closed" \/ Deleting
<1>1. Inv /\ [Next]_vars => [Step]_vars
  <2> SUFFICES ASSUME Inv, [Next]_vars, NEW s \in Session, Alive(s), shell'[s] = "terminated"
               PROVE  layout[paneOf[s]] = "closed" \/ Deleting
    OBVIOUS
  <2>1. CASE \E h \in Connection : Request(h)
    BY <2>1 DEF Request, TakeControl, SpawnSession, SplitPane, RemovePanes, DeleteWorkspace,
                KillSession, SetDraining, ShutdownAgent, sessions, Alive
  <2>2. ASSUME NEW h \in Connection, Serve(h)
        PROVE  layout[paneOf[s]] = "closed" \/ Deleting
    <3>1. CASE Lookup(h) \/ StartFails(h) \/ Register(h) \/ Bind(h)
               \/ Collect(h) \/ Unregister(h) \/ Purge(h) \/ Drop(h)
      BY <3>1 DEF Lookup, StartFails, Register, Bind, Collect, Unregister, Purge, Drop, sessions, Alive
    <3>2. ASSUME NEW t \in Session, StartShell(h, t) PROVE FALSE
      BY <3>2 DEF StartShell, Inv, TypeOK, Alive
    <3>3. CASE Kill(h)
      <4>1. HeldAt(h) \in Session
        BY <3>3, KillHolds DEF Kill, At, Inv
      <4>. QED BY <3>3, <4>1, EndShell DEF Kill, Alive
    <3>4. CASE Undo(h)
      <4>1. /\ handler[h].at = "undo" /\ HeldAt(h) \in Session
            /\ paneOf[HeldAt(h)] = PaneAt(h) /\ PaneAt(h) \in handler[h].panes
        BY <3>4, SpawnHolds DEF Undo, At, Inv, SpawnSteps
      <4>2. s = HeldAt(h)
        BY <3>4, <4>1, EndShell DEF Undo, Alive
      <4>. QED BY <4>1, <4>2 DEF Inv, Steps, Local, PaneFacts, Deleting
    <3>5. ASSUME NEW t \in Session, Terminate(h, t)
          PROVE  layout[paneOf[s]] = "closed" \/ Deleting
      <4>1. s = t /\ handler[h].at = "terminate" /\ t \in handler[h].held
        BY <3>5, EndShell DEF Terminate, At, Alive
      <4>2. paneOf[s] \in handler[h].panes /\ handler[h].op \in {"remove", "delete"}
        BY <4>1 DEF Inv, Steps, Local, StepShape, HeldShape, RemoveSteps
      <4>. QED BY <4>2 DEF Inv, Steps, Local, PaneFacts, Deleting
    <3>. QED BY <2>2, <3>1, <3>2, <3>3, <3>4, <3>5 DEF Serve
  <2>3. CASE \/ \E t \in Session : ShellExits(t) \/ NoticeExit(t)
             \/ Shutdown \/ ShutdownMissed \/ Crash \/ Restart \/ UNCHANGED vars
    BY <2>3 DEF ShellExits, NoticeExit, Shutdown, ShutdownMissed, Crash, Restart, DaemonEnds,
                vars, sessions, Alive, Inv, TypeOK
  <2>. QED BY <2>1, <2>2, <2>3 DEF Next
<1>. QED BY <1>1, Invariance, PTL DEF Spec, SparesOpenPanes

-----------------------------------------------------------------------------
(* A live shell is where the document says.                                *)

\* s runs in an open pane and no spawn holds it any more.
Settled(s) ==
  Alive(s) /\ Registered(s) /\ Mounted(paneOf[s]) /\ \A h \in Connection : ~Spawning(h, s)
HasSession(p) == bound[p] # None /\ registry[bound[p]] # "gone"

LEMMA BoundKept ==
  ASSUME Inv, LiveShellBound,
         \A t \in Session : registry[t] # "gone" => registry'[t] # "gone",
         \A s \in Session : Settled(s)' =>
           \/ HasSession(paneOf[s])' /\ paneOf'[s] = paneOf[s]
           \/ Settled(s) /\ paneOf'[s] = paneOf[s] /\ bound'[paneOf[s]] = bound[paneOf[s]]
  PROVE  LiveShellBound'
<1> SUFFICES ASSUME NEW s \in Session, Settled(s)'
             PROVE  bound'[paneOf'[s]] # None /\ registry'[bound'[paneOf'[s]]] # "gone"
  BY DEF LiveShellBound, Settled
<1>1. CASE bound'[paneOf'[s]] # None /\ registry'[bound'[paneOf'[s]]] # "gone"
  BY <1>1
<1>2. CASE Settled(s) /\ paneOf'[s] = paneOf[s] /\ bound'[paneOf[s]] = bound[paneOf[s]]
  <2>1. bound[paneOf[s]] # None /\ registry[bound[paneOf[s]]] # "gone"
    BY <1>2 DEF LiveShellBound, Settled
  <2>2. bound[paneOf[s]] \in Session
    BY <1>2, <2>1 DEF Settled, Inv, TypeOK, Steps, AliveShape
  <2>. QED BY <1>2, <2>1, <2>2
<1>. QED BY <1>1, <1>2 DEF HasSession

\* No pane is bound anew and no shell settles.
LEMMA BoundRest ==
  ASSUME Inv, LiveShellBound, Onward, UNCHANGED bound,
         \A t \in Session : registry[t] # "gone" => registry'[t] # "gone",
         \A s \in Session : Settled(s)' => Settled(s)
  PROVE  LiveShellBound'
<1>1. \A s \in Session : Settled(s) => paneOf'[s] = paneOf[s]
  BY DEF Settled, Inv, Steps, AliveShape, Onward
<1>. QED BY <1>1, BoundKept

\* A handler with no spawn in hand takes a step.
LEMMA BoundIdle ==
  ASSUME Inv, LiveShellBound, Onward, NEW h \in Connection, UNCHANGED bound,
         \A g \in Connection \ {h} : handler'[g] = handler[g],
         \A s \in Session : ~Spawning(h, s),
         \A t \in Session : registry'[t] # registry[t] => registry'[t] = "removed",
         \A s \in Session : Alive(s)' => Alive(s) /\ paneOf'[s] = paneOf[s],
         \A p \in Pane : layout'[p] = "open" => layout[p] # "closed"
  PROVE  LiveShellBound'
<1>1. \A t \in Session : registry[t] # "gone" => registry'[t] # "gone"
  OBVIOUS
<1>2. ASSUME NEW s \in Session, Settled(s)' PROVE Settled(s)
  <2>1. Alive(s) /\ paneOf'[s] = paneOf[s] /\ paneOf[s] \in Pane /\ layout[paneOf[s]] # "unborn"
    BY <1>2 DEF Settled, Inv, Steps, AliveShape
  <2>2. Mounted(paneOf[s])
    BY <1>2, <2>1 DEF Settled, Mounted, Onward, Inv, TypeOK
  <2>3. Registered(s)
    BY <1>2 DEF Settled, Registered
  <2>4. \A g \in Connection : ~Spawning(g, s)
    BY <1>2 DEF Settled, Spawning
  <2>. QED BY <2>1, <2>2, <2>3, <2>4 DEF Settled
<1>. QED BY <1>1, <1>2, BoundRest

LEMMA IdleSpawnsNone ==
  ASSUME Inv, NEW h \in Connection, NEW s \in Session,
         handler[h].at \in {"idle", "lookup", "start", "kill"} \cup RemoveSteps
  PROVE  ~Spawning(h, s)
<1>1. Local(h)
  BY DEF Inv, Steps
<1>2. CASE handler[h].at \in {"idle", "lookup", "start", "kill"}
  BY <1>2, IdleAttendsNone DEF Attends
<1>3. CASE handler[h].at \in RemoveSteps
  BY <1>1, <1>3 DEF Local, StepShape, Spawning
<1>. QED BY <1>2, <1>3

LEMMA BoundRequest ==
  ASSUME Inv, LiveShellBound, NEW h \in Connection, Request(h)
  PROVE  LiveShellBound'
<1>1. CASE (\E p \in Pane : SpawnSession(h, p)) \/ DeleteWorkspace(h) \/ \E s \in Session : KillSession(h, s)
  <2>1. handler[h].at = "idle" /\ UNCHANGED <<document, sessions>>
    BY <1>1 DEF SpawnSession, DeleteWorkspace, KillSession, Accept, At
  <2>2. \A g \in Connection \ {h} : handler'[g] = handler[g]
    BY <1>1, OthersStay
  <2>3. Onward
    BY <2>1 DEF Onward, document, sessions
  <2>. QED BY <2>1, <2>2, <2>3, IdleSpawnsNone, BoundIdle DEF Alive, document, sessions
<1>2. CASE TakeControl(h) \/ ShutdownAgent(h) \/ \E value \in BOOLEAN : SetDraining(h, value)
  <2>1. UNCHANGED <<document, handler, sessions>>
    BY <1>2 DEF TakeControl, ShutdownAgent, SetDraining
  <2>. QED BY <2>1 DEF LiveShellBound, Alive, Registered, Mounted, Spawning, document, sessions
<1>3. ASSUME NEW p \in Pane, SplitPane(h, p) PROVE LiveShellBound'
  <2>1. /\ UNCHANGED <<exists, bound, handler, sessions>>
        /\ layout[p] = "unborn" /\ layout' = [layout EXCEPT ![p] = "open"]
    BY <1>3 DEF SplitPane
  <2>2. Onward
    BY <2>1 DEF Onward, Inv, TypeOK, sessions
  <2>3. ASSUME NEW s \in Session, Settled(s)' PROVE Settled(s)
    <3>1. Alive(s) /\ Registered(s) /\ paneOf'[s] = paneOf[s] /\ \A g \in Connection : ~Spawning(g, s)
      BY <2>1, <2>3 DEF Settled, Alive, Registered, Spawning, sessions
    <3>2. paneOf[s] # p
      BY <2>1, <3>1 DEF Inv, Steps, AliveShape
    <3>. QED BY <2>1, <2>3, <3>1, <3>2 DEF Settled, Mounted, Inv, TypeOK
  <2>. QED BY <2>1, <2>2, <2>3, BoundRest DEF sessions
<1>4. ASSUME NEW panes \in SUBSET Pane, RemovePanes(h, panes) PROVE LiveShellBound'
  <2>1. /\ handler[h].at = "idle" /\ exists' = exists /\ UNCHANGED sessions
        /\ layout' = [p \in Pane |-> IF p \in panes THEN "closed" ELSE layout[p]]
        /\ bound' = [p \in Pane |-> IF p \in panes THEN None ELSE bound[p]]
    BY <1>4 DEF RemovePanes, Accept, At
  <2>2. \A g \in Connection \ {h} : handler'[g] = handler[g]
    BY <1>4, OthersStay
  <2>3. ASSUME NEW s \in Session, Settled(s)'
        PROVE  Settled(s) /\ paneOf'[s] = paneOf[s] /\ bound'[paneOf[s]] = bound[paneOf[s]]
    <3>1. /\ Alive(s) /\ Registered(s) /\ paneOf'[s] = paneOf[s] /\ paneOf[s] \in Pane
      BY <2>1, <2>3 DEF Settled, Alive, Registered, Inv, Steps, AliveShape, sessions
    <3>2. \A g \in Connection : ~Spawning(g, s)
      BY <2>1, <2>2, <2>3, IdleSpawnsNone DEF Settled, Spawning
    <3>3. paneOf[s] \notin panes /\ Mounted(paneOf[s])
      BY <2>1, <2>3, <3>1 DEF Settled, Mounted
    <3>. QED BY <2>1, <3>1, <3>2, <3>3 DEF Settled
  <2>. QED BY <2>1, <2>3, BoundKept DEF sessions
<1>. QED BY <1>1, <1>2, <1>3, <1>4 DEF Request

LEMMA BoundSpawn ==
  ASSUME Inv, LiveShellBound, NEW h \in Connection,
         (\E s \in Session : StartShell(h, s)) \/ Register(h) \/ Bind(h) \/ Undo(h)
  PROVE  LiveShellBound'
<1>1. \A g \in Connection \ {h} : handler'[g] = handler[g]
  BY OthersStay
<1>2. ASSUME NEW t \in Session, StartShell(h, t) PROVE LiveShellBound'
  <2>1. handler[h].at = "start" /\ registry[t] = "none" /\ UNCHANGED document
    BY <1>2 DEF StartShell, At
  <2>2. /\ registry'[t] = "private"
        /\ \A s \in Session \ {t} :
             shell'[s] = shell[s] /\ paneOf'[s] = paneOf[s] /\ registry'[s] = registry[s]
    BY <1>2 DEF StartShell, Inv, TypeOK
  <2>3. Onward
    BY <2>1, <2>2 DEF Onward, document, Started
  <2>4. \A s \in Session : Settled(s)' => Settled(s)
    BY <1>1, <2>1, <2>2, IdleSpawnsNone DEF Settled, Alive, Registered, Mounted, Spawning, document
  <2>. QED BY <2>1, <2>2, <2>3, <2>4, BoundRest DEF document
<1>3. CASE Register(h)
  <2>1. /\ HeldAt(h) \in Session /\ registry[HeldAt(h)] = "private" /\ handler[h].held = {HeldAt(h)}
        /\ handler[h].op = "spawn" /\ handler[h].at = "inherit"
    BY <1>3, SpawnHolds DEF Register, At, Inv, Steps, Local, StepShape, HeldShape, SpawnSteps
  <2>2. handler'[h].op = "spawn" /\ handler'[h].held = handler[h].held
    <3>1. GoTo(h, "bind") /\ "bind" \in AllSteps
      BY <1>3 DEF Register, AllSteps, SpawnSteps
    <3>. QED BY <2>1, <3>1, GoToMoves DEF Inv
  <2>3. /\ UNCHANGED <<document, paneOf, shell>> /\ registry'[HeldAt(h)] = "registered"
        /\ \A s \in Session \ {HeldAt(h)} : registry'[s] = registry[s]
    BY <1>3, <2>1 DEF Register, Inv, TypeOK
  <2>4. Onward
    BY <2>1, <2>3 DEF Onward, document, Started
  <2>5. \A s \in Session : Settled(s)' => Settled(s)
    <3>1. \A s \in Session : Settled(s)' => s # HeldAt(h)
      BY <2>1, <2>2 DEF Settled, Spawning
    <3>2. \A s \in Session : Settled(s)' => \A g \in Connection : ~Spawning(g, s)
      BY <1>1, <2>2 DEF Settled, Spawning
    <3>. QED BY <2>3, <3>1, <3>2 DEF Settled, Alive, Registered, Mounted, document
  <2>. QED BY <2>1, <2>3, <2>4, <2>5, BoundRest DEF document
<1>4. CASE Bind(h)
  <2>1. /\ handler[h].at = "bind" /\ handler[h].op = "spawn" /\ PaneAt(h) \in Pane
        /\ HeldAt(h) \in Session /\ handler[h].held = {HeldAt(h)} /\ paneOf[HeldAt(h)] = PaneAt(h)
        /\ registry[HeldAt(h)] \in Started
    BY <1>4, SpawnHolds DEF Bind, At, Inv, Steps, Local, StepShape, HeldShape, SpawnSteps
  <2>2. exists' = exists /\ layout' = layout /\ UNCHANGED sessions
    BY <1>4 DEF Bind
  <2>3. CASE Mounted(PaneAt(h))
    <3>1. bound' = [bound EXCEPT ![PaneAt(h)] = HeldAt(h)]
      BY <1>4, <2>3 DEF Bind
    <3>2. ASSUME NEW s \in Session, Settled(s)'
          PROVE  \/ HasSession(paneOf[s])' /\ paneOf'[s] = paneOf[s]
                 \/ Settled(s) /\ paneOf'[s] = paneOf[s] /\ bound'[paneOf[s]] = bound[paneOf[s]]
      <4>1. Alive(s) /\ Registered(s) /\ Mounted(paneOf[s]) /\ paneOf'[s] = paneOf[s] /\ paneOf[s] \in Pane
        BY <2>2, <3>2 DEF Settled, Alive, Registered, Mounted, Inv, Steps, AliveShape, sessions
      <4>2. CASE paneOf[s] = PaneAt(h)
        <5>1. bound'[paneOf[s]] = HeldAt(h) /\ HeldAt(h) # None
          BY <2>1, <3>1, <4>2, NoneAssumption DEF Inv, TypeOK
        <5>2. registry'[bound'[paneOf'[s]]] # "gone"
          BY <2>1, <2>2, <4>1, <5>1 DEF Started, sessions
        <5>. QED BY <4>1, <5>1, <5>2 DEF HasSession
      <4>3. CASE paneOf[s] # PaneAt(h)
        <5>1. bound'[paneOf[s]] = bound[paneOf[s]]
          BY <3>1, <4>1, <4>3 DEF Inv, TypeOK
        <5>2. \A g \in Connection : ~Spawning(g, s)
          BY <1>1, <2>1, <3>2, <4>3 DEF Settled, Spawning
        <5>. QED BY <4>1, <5>1, <5>2 DEF Settled
      <4>. QED BY <4>2, <4>3
    <3>. QED BY <2>2, <3>2, BoundKept DEF sessions
  <2>4. CASE ~Mounted(PaneAt(h))
    <3>1. UNCHANGED bound /\ GoTo(h, "undo") /\ "undo" \in AllSteps
      BY <1>4, <2>4 DEF Bind, AllSteps, SpawnSteps
    <3>2. handler'[h].op = "spawn" /\ handler'[h].held = handler[h].held
      BY <2>1, <3>1, GoToMoves DEF Inv
    <3>3. \A s \in Session : Settled(s)' => \A g \in Connection : ~Spawning(g, s)
      BY <1>1, <2>1, <3>2 DEF Settled, Spawning
    <3>4. \A s \in Session : Settled(s)' => Settled(s)
      BY <2>2, <3>3 DEF Settled, Alive, Registered, Mounted, sessions
    <3>5. Onward
      BY <2>2 DEF Onward, sessions
    <3>. QED BY <2>2, <3>1, <3>4, <3>5, BoundRest DEF sessions
  <2>. QED BY <2>3, <2>4
<1>5. CASE Undo(h)
  <2>1. /\ handler[h].at = "undo" /\ HeldAt(h) \in Session
        /\ handler[h].held = {HeldAt(h)} /\ registry[HeldAt(h)] \in Started
    BY <1>5, SpawnHolds DEF Undo, At, Inv, Steps, Local, HeldShape, SpawnSteps
  <2>2. shell' = End(HeldAt(h), "terminated") /\ UNCHANGED <<document, paneOf, registry>>
    BY <1>5 DEF Undo
  <2>3. Onward
    BY <2>2 DEF Onward, document
  <2>4. Alive(HeldAt(h)) => Running(HeldAt(h))
    BY <2>1 DEF Running, Registered, Inv, Steps, AliveShape, Started
  <2>5. /\ shell'[HeldAt(h)] # "alive"
        /\ \A s \in Session \ {HeldAt(h)} : shell'[s] = shell[s]
    BY <2>1, <2>2, <2>4, EndShell DEF Alive
  <2>6. \A s \in Session : Settled(s)' => Settled(s)
    <3>1. \A s \in Session : Settled(s)' => s # HeldAt(h) /\ Alive(s)
      BY <2>1, <2>5 DEF Settled, Alive
    <3>2. \A s \in Session : Settled(s)' => \A g \in Connection : ~Spawning(g, s)
      BY <1>1, <2>1, <3>1 DEF Settled, Spawning
    <3>. QED BY <2>2, <3>1, <3>2 DEF Settled, Registered, Mounted, document
  <2>. QED BY <2>2, <2>3, <2>6, BoundRest DEF document
<1>. QED BY <1>2, <1>3, <1>4, <1>5

LEMMA BoundServe ==
  ASSUME Inv, LiveShellBound, NEW h \in Connection, Serve(h)
  PROVE  LiveShellBound'
<1>1. CASE Lookup(h) \/ StartFails(h) \/ Kill(h) \/ Collect(h) \/ Unregister(h) \/ Purge(h)
  <2>1. handler[h].at \in {"lookup", "start", "kill"} \cup RemoveSteps
    BY <1>1 DEF Lookup, StartFails, Kill, Collect, Unregister, Purge, At, RemoveSteps
  <2>2. \A s \in Session : ~Spawning(h, s)
    BY <2>1, IdleSpawnsNone
  <2>3. \A g \in Connection \ {h} : handler'[g] = handler[g]
    BY <1>1, OthersStay
  <2>4. UNCHANGED <<document, paneOf>>
    BY <1>1 DEF Lookup, StartFails, Kill, Collect, Unregister, Purge, sessions
  <2>5. \A s \in Session : Alive(s)' => Alive(s)
    <3>1. CASE Kill(h)
      <4>1. HeldAt(h) \in Session
        BY <3>1, KillHolds DEF Kill, At, Inv
      <4>. QED BY <3>1, <4>1, EndShell DEF Kill, Alive
    <3>. QED BY <1>1, <3>1 DEF Lookup, StartFails, Collect, Unregister, Purge, sessions, Alive
  <2>6. \A t \in Session : registry'[t] # registry[t] => registry'[t] = "removed"
    BY <1>1 DEF Lookup, StartFails, Kill, Collect, Unregister, Purge, sessions
  <2>7. Onward
    <3>1. \A t \in Session : registry[t] \in Started => registry'[t] \in Started
      BY <2>6 DEF Started
    <3>. QED BY <2>4, <3>1 DEF Onward, document
  <2>. QED BY <2>2, <2>3, <2>4, <2>5, <2>6, <2>7, BoundIdle DEF document
<1>2. CASE (\E s \in Session : StartShell(h, s)) \/ Register(h) \/ Bind(h) \/ Undo(h)
  BY <1>2, BoundSpawn
<1>3. ASSUME NEW t \in Session, Terminate(h, t) PROVE LiveShellBound'
  <2>1. \A s \in Session : Alive(s)' => Alive(s)
    BY <1>3, EndShell DEF Terminate, Alive
  <2>. QED BY <1>3, <2>1 DEF Terminate, LiveShellBound, Registered, Mounted, Spawning, document
<1>4. CASE Drop(h)
  BY <1>4 DEF Drop, LiveShellBound, Mounted
<1>. QED BY <1>1, <1>2, <1>3, <1>4 DEF Serve

\* A live shell in an open pane is reached through the document: its pane is
\* bound, and to a session of the running daemon.
THEOREM LiveShellsBound == Spec => []LiveShellBound
<1>1. Init => LiveShellBound
  BY DEF Init, LiveShellBound, Alive
<1>2. Inv /\ LiveShellBound /\ [Next]_vars => LiveShellBound'
  <2> SUFFICES ASSUME Inv, LiveShellBound, [Next]_vars PROVE LiveShellBound'
    OBVIOUS
  <2>1. CASE \E h \in Connection : Request(h) \/ Serve(h)
    BY <2>1, BoundRequest, BoundServe
  <2>2. CASE \/ \E s \in Session : ShellExits(s) \/ NoticeExit(s)
             \/ ShutdownMissed \/ Restart \/ UNCHANGED vars
    <3>1. UNCHANGED <<document, handler, paneOf, registry>>
      BY <2>2 DEF ShellExits, NoticeExit, ShutdownMissed, Restart, vars, sessions
    <3>2. \A s \in Session : Alive(s)' => Alive(s)
      BY <2>2 DEF ShellExits, NoticeExit, ShutdownMissed, Restart, vars, sessions, Alive, Inv, TypeOK
    <3>. QED BY <3>1, <3>2 DEF LiveShellBound, Registered, Mounted, Spawning, document
  <2>3. CASE Shutdown \/ Crash
    BY <2>3 DEF Shutdown, Crash, DaemonEnds, LiveShellBound, Alive
  <2>. QED BY <2>1, <2>2, <2>3 DEF Next
<1>. QED BY <1>1, <1>2, Invariance, PTL DEF Spec
=============================================================================

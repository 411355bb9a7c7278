---------------------------- MODULE AgentStatus ----------------------------
(***************************************************************************)
(* What the GUI knows of the coding agents in its panes: output that was   *)
(* just produced, bells, the states their hooks report, and what the       *)
(* sidebar and the overview make of them (activity-store.ts,               *)
(* attention-store.ts, hook-state-store.ts, workspace-agents.ts,           *)
(* agent-overview.ts, attention.ts, the handlers of terminal-manager.ts).  *)
(*                                                                         *)
(* Time is counted in ticks; Idle of them are ACTIVITY_IDLE_MS.            *)
(***************************************************************************)
EXTENDS Naturals, FiniteSets

CONSTANTS
  Pane,       \* the panes, each of them with a coding agent
  Tab,
  TabOf,      \* the tab of a pane
  None,
  Idle,       \* ACTIVITY_IDLE_MS
  MaxEvents   \* bound: what the panes and the user do

StatusAssumption ==
  /\ TabOf \in [Pane -> Tab] /\ Idle \in Nat \ {0} /\ MaxEvents \in Nat
  /\ None \notin Nat

VARIABLES
  panes,      \* the panes that are not closed
  sessions,   \* those with a terminal
  active, everActive,    \* activity-store
  timers,     \* its timers: the entry of a pane, a number, or None
  timeouts,   \* the setTimeouts that have not fired
  silence,    \* ticks since a pane's last output
  hookState,  \* hook-state-store
  reported, runtimeStatus,  \* what the agent heard of the hooks; the leaf's copy
  waiting,    \* attention-store
  look,       \* the active tab, the active panes, whether the window has focus
  events

activityVars == <<active, everActive, timers, timeouts, silence>>
statusVars == <<panes, sessions, activityVars, hookState, reported, runtimeStatus, waiting,
                look, events>>

HookStates == {"working", "idle", "permission"}

Timeout == [pane : Pane, entry : Nat, left : 0 .. Idle]

TypeOK ==
  /\ sessions \subseteq panes /\ panes \subseteq Pane
  /\ active \subseteq Pane /\ everActive \subseteq Pane /\ waiting \subseteq Pane
  /\ timers \in [Pane -> 0 .. MaxEvents \cup {None}] /\ timeouts \subseteq Timeout
  /\ silence \in [Pane -> 0 .. Idle]
  /\ \A f \in {hookState, reported, runtimeStatus} : f \in [Pane -> HookStates \cup {None}]
  /\ look.tab \in Tab /\ look.window \in BOOLEAN
  /\ \A t \in Tab : look.pane[t] = None \/ TabOf[look.pane[t]] = t
  /\ events \in 0 .. MaxEvents

Leaves(t) == {p \in panes : TabOf[p] = t}

\* The pane in front, whether or not the window has focus.
Front == look.pane[look.tab]

\* useFocusedPaneId and isPaneFocused.
Focused == IF look.window THEN Front ELSE None

----------------------------------------------------------------------------
(* activity-store.ts                                                       *)

\* Output of pane p: it is active, and its timer runs or starts.
markActivity(p) ==
  /\ active' = active \cup {p} /\ everActive' = everActive \cup {p}
  /\ silence' = [silence EXCEPT ![p] = 0]
  /\ IF timers[p] # None THEN UNCHANGED <<timers, timeouts>>
     ELSE /\ timers' = [timers EXCEPT ![p] = events]
          /\ timeouts' = timeouts \cup {[pane |-> p, entry |-> events, left |-> Idle]}

clearActivity(p) ==
  /\ active' = active \ {p} /\ everActive' = everActive \ {p}
  /\ timers' = [timers EXCEPT ![p] = None]
  /\ timeouts' = {t \in timeouts : t.pane # p \/ t.entry # timers[p]}
  /\ UNCHANGED silence

\* Faulty: the deadline that output has moved is not looked at.
IdleCheckEarly(t) ==
  /\ t \in timeouts /\ t.left = 0
  /\ timeouts' = timeouts \ {t}
  /\ IF timers[t.pane] # t.entry THEN UNCHANGED <<active, timers>>
     ELSE /\ timers' = [timers EXCEPT ![t.pane] = None]
          /\ active' = active \ {t.pane}
  /\ UNCHANGED <<everActive, silence, panes, sessions, hookState, reported, runtimeStatus,
                 waiting, look, events>>

\* The callback of scheduleIdleCheck.
IdleCheck(t) ==
  /\ t \in timeouts /\ t.left = 0
  /\ LET p == t.pane
         rest == timeouts \ {t} IN
     CASE timers[p] # t.entry -> timeouts' = rest /\ UNCHANGED <<active, timers>>
       [] timers[p] = t.entry /\ silence[p] < Idle ->
            /\ timeouts' = rest \cup {[t EXCEPT !.left = Idle - silence[p]]}
            /\ UNCHANGED <<active, timers>>
       [] OTHER -> /\ timeouts' = rest
                   /\ timers' = [timers EXCEPT ![p] = None]
                   /\ active' = active \ {p}
  /\ UNCHANGED <<everActive, silence, panes, sessions, hookState, reported, runtimeStatus,
                 waiting, look, events>>

----------------------------------------------------------------------------
(* What a pane does (createSession's handlers).                            *)

Event == events < MaxEvents /\ events' = events + 1

Output(p) ==
  /\ Event /\ p \in sessions /\ markActivity(p)
  /\ UNCHANGED <<panes, sessions, hookState, reported, runtimeStatus, waiting, look>>

Bell(p) ==
  /\ Event /\ p \in sessions /\ markActivity(p)
  /\ waiting' = IF p = Focused THEN waiting ELSE waiting \cup {p}
  /\ UNCHANGED <<panes, sessions, hookState, reported, runtimeStatus, look>>

\* OSC 777: parseAgentHookOsc; "ended" is None.  The agent reads it as well.
Hook(p) ==
  /\ Event /\ p \in sessions /\ markActivity(p)
  /\ \E s \in HookStates \cup {None} :
       /\ hookState' = [hookState EXCEPT ![p] = s]
       /\ reported' = [reported EXCEPT ![p] = s]
  /\ UNCHANGED <<panes, sessions, runtimeStatus, waiting, look>>

\* The agent's document arrives with what it heard.
Project(p) ==
  /\ runtimeStatus[p] # reported[p]
  /\ runtimeStatus' = [runtimeStatus EXCEPT ![p] = reported[p]]
  /\ UNCHANGED <<panes, sessions, activityVars, hookState, reported, waiting, look, events>>

----------------------------------------------------------------------------
(* What the user looks at.                                                 *)

\* The effect of App: the pane that comes to the front is acknowledged.
Acknowledged(seen, front) == IF front = Front THEN seen ELSE seen \ {front}

Sees(tab, pane, seen) ==
  /\ look' = [look EXCEPT !.tab = tab, !.pane[tab] = pane]
  /\ waiting' = Acknowledged(seen, pane)
  /\ UNCHANGED <<panes, sessions, activityVars, hookState, reported, runtimeStatus>>

\* onFocusPane
FocusPane(p) == Event /\ look.window /\ p \in Leaves(look.tab) /\ Sees(look.tab, p, waiting \ {p})

SwitchTab(t) == Event /\ look.window /\ Leaves(t) # {} /\ Sees(t, look.pane[t], waiting)

\* jumpTo of the overview and of the status bar, goToAttention of the sidebar.
Jump(p) == Event /\ look.window /\ p \in panes /\ Sees(TabOf[p], p, waiting \ Leaves(TabOf[p]))

Window ==
  /\ Event /\ look' = [look EXCEPT !.window = ~@]
  /\ UNCHANGED <<panes, sessions, activityVars, hookState, reported, runtimeStatus, waiting>>

\* A tab is shown: its panes get terminals, and what is replayed into them is
\* output like any other.
Attach(p) ==
  /\ Event /\ p \in Leaves(look.tab) \ sessions
  /\ sessions' = sessions \cup {p} /\ markActivity(p)
  /\ UNCHANGED <<panes, hookState, reported, runtimeStatus, waiting, look>>

\* disposeSession and unloadSession.
DropTerminal(p) ==
  /\ sessions' = sessions \ {p}
  /\ clearActivity(p)
  /\ hookState' = [hookState EXCEPT ![p] = None]
  /\ UNCHANGED <<reported, runtimeStatus>>

\* unloadTab, of a tab that is not shown.
Unload(p) ==
  /\ Event /\ p \in sessions /\ TabOf[p] # look.tab
  /\ DropTerminal(p)
  /\ UNCHANGED <<panes, waiting, look>>

\* The shell exits or the user closes the pane; another pane, or another tab, is
\* brought to the front.
Close(p) ==
  /\ Event /\ p \in panes /\ panes' = panes \ {p} /\ panes' # {}
  /\ DropTerminal(p)
  /\ LET t == TabOf[p]
         left == Leaves(t) \ {p} IN
     IF look.pane[t] # p THEN UNCHANGED <<look, waiting>>
     ELSE \E q \in IF left # {} THEN left ELSE panes' :
            LET tab == IF left # {} \/ look.tab # t THEN look.tab ELSE TabOf[q]
                after == [look EXCEPT !.tab = tab, !.pane[t] = IF left # {} THEN q ELSE None]
                front == after.pane[tab]
            IN /\ front # None
               /\ look' = after /\ waiting' = Acknowledged(waiting, front)

Tick ==
  /\ silence' = [p \in Pane |-> IF silence[p] < Idle THEN silence[p] + 1 ELSE Idle]
  /\ timeouts' = {[t EXCEPT !.left = IF @ = 0 THEN 0 ELSE @ - 1] : t \in timeouts}
  /\ UNCHANGED <<panes, sessions, active, everActive, timers, hookState, reported,
                 runtimeStatus, waiting, look, events>>

----------------------------------------------------------------------------

Init ==
  /\ panes = Pane /\ \E t \in Tab : sessions = Leaves(t) /\
       look \in [tab : {t}, pane : {f \in [Tab -> Pane] : \A u \in Tab : TabOf[f[u]] = u},
                 window : {TRUE}]
  /\ active = {} /\ everActive = {} /\ waiting = {} /\ timeouts = {} /\ events = 0
  /\ timers = [p \in Pane |-> None] /\ silence = [p \in Pane |-> Idle]
  /\ hookState = [p \in Pane |-> None] /\ reported = hookState /\ runtimeStatus = hookState

Does(p) ==
  \/ Output(p) \/ Bell(p) \/ Hook(p) \/ Project(p)
  \/ FocusPane(p) \/ Jump(p) \/ Attach(p) \/ Unload(p) \/ Close(p)

Next ==
  \/ \E p \in Pane : Does(p)
  \/ \E t \in Tab : SwitchTab(t)
  \/ \E t \in timeouts : IdleCheck(t)
  \/ Window \/ Tick

\* Time goes on, and timers fire.
Fairness == WF_statusVars(Tick) /\ WF_statusVars(\E t \in timeouts : IdleCheck(t))

Spec == Init /\ [][Next]_statusVars /\ Fairness

----------------------------------------------------------------------------
(* What is shown.                                                          *)

classify(p, persisted) ==
  LET hook == IF hookState[p] # None THEN hookState[p] ELSE persisted
      turn == hook = "idle" \/ (hook = None /\ p \in everActive)
  IN CASE p \in waiting \/ hook = "permission" -> "attention"
       [] ~(p \in waiting \/ hook = "permission") /\ (p \in active \/ hook = "working") ->
            "executing"
       [] OTHER -> IF turn /\ p # Focused THEN "waiting" ELSE "idle"

\* workspacesAgentStatus and workspaceAgentSummary; collectAllAgents.
InSidebar(p) == classify(p, runtimeStatus[p])
InOverview(p) == classify(p, None)

----------------------------------------------------------------------------
(* Properties.                                                             *)

\* A pane is shown as executing from its last output until Idle ticks later and
\* not before, over any run of bursts, closed and reopened terminals; and a pane
\* without a terminal leaves nothing behind, neither a timer nor a hook's state
\* that would be shown again for the next terminal (activity-store.ts).
ActivityTracksOutput ==
  /\ \A p \in sessions : silence[p] < Idle /\ p \in everActive => p \in active
  /\ \A p \in active : \E t \in timeouts : t.pane = p /\ t.entry = timers[p]
  /\ \A p \in Pane \ sessions : hookState[p] = None /\ p \notin active \cup everActive
  /\ \A t \in timeouts : t.pane \in active

\* When the panes are quiet nothing is shown as executing for ever.
FallsIdle == <>[](active = {})

\* The header of attention-store.ts: looking at a pane acknowledges it.
LookedAtIsAcknowledged == Focused \notin waiting

\* The header of agent-overview.ts: it classifies agents as the sidebar does.
OverviewAgrees == \A p \in panes : InOverview(p) = InSidebar(p)
=============================================================================

---------------------------- MODULE AgentResume ----------------------------
(***************************************************************************)
(* What the GUI remembers of a pane so that it can bring it back: the      *)
(* directory of its shell and the coding agent that runs in it, and how    *)
(* the agent is resumed in a new shell (terminal-manager.ts: the handlers  *)
(* of OSC 7 and of a fresh spawn, maybeInjectResume, getSessionCwd, the    *)
(* snapshots and the close handler; agent.ts, agent-detect.ts,             *)
(* input-line.ts; pty.ts as far as it connects and writes).                *)
(*                                                                         *)
(* One pane of the local host.  The program is closed, killed and started  *)
(* again; the daemon keeps the shell meanwhile, or it dies with it.        *)
(***************************************************************************)
EXTENDS Naturals, FiniteSets

CONSTANTS
  Dir,       \* directories
  None, Asked,  \* no snapshot; one whose answer is awaited
  MaxShells, \* bound: shells spawned
  MaxEvents, \* bound: what the user does, and what fails
  Osc7       \* whether the shell reports its directory at each prompt

ResumeAssumption ==
  /\ None # Asked /\ {None, Asked} \cap (Dir \cup BOOLEAN) = {} /\ Dir # {}
  /\ Osc7 \subseteq BOOLEAN /\ Osc7 # {}
  /\ MaxShells \in Nat \ {0} /\ MaxEvents \in Nat

VARIABLES
  shell,   \* the pane's shell at the daemon
  leaf,    \* the pane in the workspace document
  gui,     \* the terminal's session record in the GUI
  cwdSnapshot, agentSnapshot,  \* the snapshots under way, or None
  raced,   \* what the code leaves open happened (see Remembered)
  events

resumeVars == <<shell, leaf, gui, cwdSnapshot, agentSnapshot, raced, events>>

Home == CHOOSE d \in Dir : TRUE

TypeOK ==
  /\ shell \in [n : 1 .. MaxShells, alive : BOOLEAN, osc : Osc7, cwd : Dir,
                agent : BOOLEAN, prompt : BOOLEAN, resumed : 0 .. 2, typedInto : BOOLEAN,
                input : BOOLEAN,  \* a resume waits for the prompt
                late : BOOLEAN]  \* spawned while a write was waiting for it
  /\ leaf \in [cwd : Dir \cup {None}, agent : BOOLEAN]  \* None is "~"
  /\ gui \in [phase : {"off", "on", "closing"}, link : {"down", "connecting", "up"},
              spawned : 0 .. MaxShells, cwd : Dir \cup {None}, shellCwd : Dir \cup {None},
              pendingResume : BOOLEAN, resumeInjected : BOOLEAN, timer : BOOLEAN,
              writes : 0 .. 2]
  /\ cwdSnapshot \in Dir \cup {None, Asked}
  /\ agentSnapshot \in BOOLEAN \cup {None, Asked}
  /\ events \in 0 .. MaxEvents

----------------------------------------------------------------------------
(* Bringing the pane back.                                                 *)

\* The resume command reaches the shell, which runs it at its prompt.
Typed(s, count) ==
  IF count = 0 \/ ~s.alive THEN s
  ELSE [s EXCEPT !.resumed = IF @ + count > 2 THEN 2 ELSE @ + count,
                 !.agent = s.prompt, !.input = ~s.prompt,
                 !.typedInto = @ \/ s.n # gui.spawned]

\* AgentPty.write: with the connection, when it is back, or nowhere.
Inject(g, s) ==
  IF ~g.pendingResume \/ g.resumeInjected THEN shell' = s /\ gui' = g
  ELSE LET after == [g EXCEPT !.resumeInjected = TRUE, !.pendingResume = FALSE] IN
       CASE g.link = "up" -> shell' = Typed(s, 1) /\ gui' = after
         [] g.link = "connecting" ->
              shell' = s /\ gui' = [after EXCEPT !.writes = IF @ = 2 THEN 2 ELSE @ + 1]
         [] OTHER -> shell' = s /\ gui' = after

\* The prompt: OSC 7 records the directory and injects (maybeInjectResume).
Prompt ==
  /\ shell.alive /\ ~shell.prompt /\ ~shell.agent
  /\ LET s == [shell EXCEPT !.prompt = TRUE, !.agent = shell.input, !.input = FALSE] IN
     IF shell.osc /\ gui.phase # "off" /\ gui.link = "up"
     THEN /\ Inject([gui EXCEPT !.shellCwd = shell.cwd], s)
          /\ leaf' = [leaf EXCEPT !.cwd = IF gui.shellCwd = shell.cwd THEN @ ELSE shell.cwd]
     ELSE shell' = s /\ UNCHANGED <<gui, leaf>>
  /\ UNCHANGED <<cwdSnapshot, agentSnapshot, raced, events>>

\* The timer of onFreshSpawn.
Fallback ==
  /\ gui.phase # "off" /\ gui.timer
  /\ Inject([gui EXCEPT !.timer = FALSE], shell)
  /\ UNCHANGED <<leaf, cwdSnapshot, agentSnapshot, raced, events>>

\* Faulty: the resume is armed for every terminal that is connected.
Armed(g) ==
  IF leaf.agent THEN [g EXCEPT !.pendingResume = TRUE, !.resumeInjected = FALSE, !.timer = TRUE]
  ELSE g

ReattachedArmed ==
  /\ gui.phase # "off" /\ gui.link = "connecting" /\ shell.alive
  /\ shell' = Typed(shell, gui.writes)
  /\ gui' = Armed([gui EXCEPT !.link = "up", !.writes = 0,
                   !.shellCwd = IF shell.osc /\ shell.prompt THEN shell.cwd ELSE @])
  /\ UNCHANGED <<leaf, cwdSnapshot, agentSnapshot, raced, events>>

\* AgentPty.connect: the shell is attached, and what it has shown is replayed.
\* The replay ends with the prompt's OSC 7, unless a checkpoint that was taken
\* since then hides it: then a terminal of this pane has parsed it before.
Reattached ==
  /\ gui.phase # "off" /\ gui.link = "connecting" /\ shell.alive
  /\ LET s == Typed(shell, gui.writes)
         g == [gui EXCEPT !.link = "up", !.writes = 0]
         reports == shell.osc /\ shell.prompt
     IN \/ /\ reports
           /\ Inject([g EXCEPT !.shellCwd = shell.cwd], s)
           /\ leaf' = [leaf EXCEPT !.cwd = IF gui.shellCwd # shell.cwd THEN shell.cwd ELSE @]
        \/ /\ \/ ~reports \/ gui.shellCwd = shell.cwd
              \/ gui.shellCwd = None /\ leaf.cwd = shell.cwd
           /\ shell' = s /\ gui' = g
           /\ UNCHANGED leaf
  /\ UNCHANGED <<cwdSnapshot, agentSnapshot, raced, events>>

\* It is gone: a new one is spawned where the pane was, and a remembered agent is
\* to be resumed in it (onFreshSpawn).
Respawned ==
  /\ gui.phase # "off" /\ gui.link = "connecting" /\ ~shell.alive /\ shell.n < MaxShells
  /\ LET fresh == [shell EXCEPT !.n = @ + 1, !.alive = TRUE, !.agent = FALSE,
                                !.cwd = IF gui.cwd = None THEN Home ELSE gui.cwd,
                                !.prompt = FALSE, !.resumed = 0, !.typedInto = FALSE,
                                !.input = gui.writes # 0, !.late = gui.writes # 0]
         g == [gui EXCEPT !.link = "up", !.writes = 0, !.spawned = fresh.n]
     IN /\ gui' = Armed(g)
        /\ shell' = [fresh EXCEPT !.resumed = gui.writes]
  /\ UNCHANGED <<leaf, cwdSnapshot, agentSnapshot, raced, events>>

----------------------------------------------------------------------------
(* The snapshots, every 15 s, after a command line and at the close.       *)

\* snapshotAllCwds joins the one that is under way.
SnapshotCwds ==
  /\ gui.phase = "on" /\ cwdSnapshot = None /\ cwdSnapshot' = Asked
  /\ UNCHANGED <<shell, leaf, gui, agentSnapshot, raced, events>>

\* getSessionCwd: what the shell reported, else what is stored; the daemon or the
\* system is asked only if neither is there.
CwdAnswer ==
  /\ gui.phase # "off" /\ cwdSnapshot = Asked
  /\ cwdSnapshot' = CASE gui.shellCwd # None -> gui.shellCwd
                       [] gui.shellCwd = None /\ leaf.cwd # None -> leaf.cwd
                       [] OTHER -> shell.cwd
  /\ UNCHANGED <<shell, leaf, gui, agentSnapshot, raced, events>>

CwdRecorded ==
  /\ gui.phase # "off" /\ cwdSnapshot \in Dir
  /\ leaf' = [leaf EXCEPT !.cwd = cwdSnapshot]
  /\ cwdSnapshot' = None
  /\ UNCHANGED <<shell, gui, agentSnapshot, raced, events>>

SnapshotAgents ==
  /\ gui.phase = "on" /\ agentSnapshot = None /\ agentSnapshot' = Asked
  /\ UNCHANGED <<shell, leaf, gui, cwdSnapshot, raced, events>>

\* paneProcessTree and detectAgent: a tree that cannot be read is an empty one.
TreeAnswer ==
  /\ gui.phase # "off" /\ agentSnapshot = Asked
  /\ \/ /\ agentSnapshot' = (shell.alive /\ shell.agent) /\ UNCHANGED <<events, raced>>
     \/ /\ events < MaxEvents /\ events' = events + 1
        /\ agentSnapshot' = FALSE /\ raced' = TRUE
  /\ UNCHANGED <<shell, leaf, gui, cwdSnapshot>>

\* agentSessionId found the session's id.
AgentRecorded ==
  /\ gui.phase # "off" /\ agentSnapshot \in BOOLEAN
  /\ leaf' = [leaf EXCEPT !.agent = agentSnapshot]
  /\ agentSnapshot' = None
  /\ UNCHANGED <<shell, gui, cwdSnapshot, raced, events>>

\* The daemon looks at its shells every 5 s (observe_host_state), and leaves the
\* directory to OSC 7 once it has seen one.
Observe ==
  /\ shell.alive
  /\ leaf' = [cwd |-> IF shell.osc THEN leaf.cwd ELSE shell.cwd, agent |-> shell.agent]
  /\ UNCHANGED <<shell, gui, cwdSnapshot, agentSnapshot, raced, events>>

----------------------------------------------------------------------------
(* The user, and what fails.                                               *)

Event == events < MaxEvents /\ events' = events + 1

\* A change that a snapshot under way may have missed; while the window closes
\* there is no other.
Missed == cwdSnapshot # None \/ agentSnapshot # None \/ gui.phase = "closing"

\* cd, an agent that is started or that ends, at the pane's terminal.
Command(s) ==
  /\ Event /\ gui.phase # "off" /\ gui.link = "up" /\ shell.alive
  /\ shell' = s
  /\ raced' = (raced \/ (Missed /\ gui.phase = "closing"))
  /\ UNCHANGED <<leaf, gui, cwdSnapshot, agentSnapshot>>

Cd(d) ==
  /\ shell.prompt /\ ~shell.agent /\ d # shell.cwd
  /\ Command([shell EXCEPT !.cwd = d, !.prompt = FALSE])

AgentStarts == shell.prompt /\ ~shell.agent /\ Command([shell EXCEPT !.agent = TRUE])

AgentEnds == shell.agent /\ Command([shell EXCEPT !.agent = FALSE, !.prompt = FALSE])

\* onCloseRequested: the snapshots are joined or begun, and the window goes when
\* both are done.
CloseWindow ==
  /\ gui.phase = "on" /\ gui.link = "up"
  /\ gui' = [gui EXCEPT !.phase = "closing"]
  /\ cwdSnapshot' = IF cwdSnapshot = None THEN Asked ELSE cwdSnapshot
  /\ agentSnapshot' = IF agentSnapshot = None THEN Asked ELSE agentSnapshot
  /\ raced' = (raced \/ gui.pendingResume \/ cwdSnapshot # None \/ agentSnapshot # None
                     \/ (~shell.prompt /\ ~shell.agent))
  /\ UNCHANGED <<shell, leaf, events>>

Stopped(g) ==
  [g EXCEPT !.phase = "off", !.link = "down", !.timer = FALSE, !.pendingResume = FALSE,
            !.writes = 0, !.shellCwd = None, !.spawned = 0]

Closed ==
  /\ gui.phase = "closing" /\ cwdSnapshot = None /\ agentSnapshot = None
  /\ gui' = Stopped(gui)
  /\ UNCHANGED <<shell, leaf, cwdSnapshot, agentSnapshot, raced, events>>

\* The program is killed; nothing is written any more.
Killed ==
  /\ Event /\ gui.phase # "off"
  /\ gui' = Stopped(gui) /\ cwdSnapshot' = None /\ agentSnapshot' = None
  /\ raced' = TRUE
  /\ UNCHANGED <<shell, leaf>>

\* The daemon dies, and the shells with it.
DaemonDies ==
  /\ Event /\ shell.alive
  /\ shell' = [shell EXCEPT !.alive = FALSE, !.agent = FALSE, !.prompt = FALSE,
                           !.input = FALSE]
  /\ gui' = [gui EXCEPT !.link = "down"]
  /\ raced' = (raced \/ gui.phase # "off")
  /\ UNCHANGED <<leaf, cwdSnapshot, agentSnapshot>>

LinkLost ==
  /\ Event /\ gui.link = "up" /\ gui' = [gui EXCEPT !.link = "down"]
  /\ UNCHANGED <<shell, leaf, cwdSnapshot, agentSnapshot, raced>>

\* The program is started: the pane gets a terminal (createSession).
Start ==
  /\ Event /\ gui.phase = "off"
  /\ gui' = [gui EXCEPT !.phase = "on", !.link = "connecting", !.cwd = leaf.cwd,
                        !.resumeInjected = FALSE]
  /\ raced' = FALSE
  /\ UNCHANGED <<shell, leaf, cwdSnapshot, agentSnapshot>>

Connecting ==
  /\ gui.phase # "off" /\ gui.link = "down" /\ gui' = [gui EXCEPT !.link = "connecting"]
  /\ UNCHANGED <<shell, leaf, cwdSnapshot, agentSnapshot, raced, events>>

----------------------------------------------------------------------------

\* A pane that has just been opened.
Init ==
  /\ \E osc \in Osc7, d \in Dir :
       /\ shell = [n |-> 1, alive |-> TRUE, osc |-> osc, cwd |-> d, agent |-> FALSE,
                   prompt |-> FALSE, resumed |-> 0, typedInto |-> FALSE, input |-> FALSE,
                   late |-> FALSE]
       /\ leaf = [cwd |-> IF d = Home THEN None ELSE d, agent |-> FALSE]
       /\ gui = [phase |-> "on", link |-> "up", spawned |-> 1, cwd |-> leaf.cwd, shellCwd |-> None,
                 pendingResume |-> FALSE, resumeInjected |-> FALSE, timer |-> FALSE,
                 writes |-> 0]
  /\ cwdSnapshot = None /\ agentSnapshot = None /\ raced = FALSE /\ events = 0

Returns ==
  \/ Prompt \/ Fallback \/ Reattached \/ Respawned \/ Connecting
  \/ CwdAnswer \/ CwdRecorded \/ TreeAnswer \/ AgentRecorded \/ Closed

Next ==
  \/ Returns \/ Observe \/ SnapshotCwds \/ SnapshotAgents
  \/ (\E d \in Dir : Cd(d)) \/ AgentStarts \/ AgentEnds
  \/ CloseWindow \/ Killed \/ DaemonDies \/ LinkLost \/ Start

Spec == Init /\ [][Next]_resumeVars

----------------------------------------------------------------------------
(* Properties.                                                             *)

\* The resume command goes into a shell that was spawned for the pane in this run
\* of the program, once, and never into one that the daemon kept: that one may be
\* showing the agent itself (maybeInjectResume, onFreshSpawn).  Excepted is a
\* shell that is spawned while an earlier resume is still waiting for a connection.
ResumedOnce == ~shell.typedInto /\ (shell.resumed <= 1 \/ shell.late)

\* When the window is closed the leaf remembers the directory and the agent as
\* they are, so that the next start brings back just that.  Excepted are changes
\* while the window closes, snapshots that were under way, a resume that was still
\* to be typed, and what fails.
Remembered ==
  gui.phase = "off" /\ ~raced =>
    /\ shell.osc => leaf.cwd = shell.cwd
    /\ shell.alive => leaf.agent = shell.agent
=============================================================================

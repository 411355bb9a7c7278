----------------------------- MODULE Snapshots ------------------------------
(***************************************************************************)
(* The GUI's own copy of what its terminals show: a cache in memory that   *)
(* is read from SQLite before the first pane opens, mirrored to SQLite by  *)
(* commands nobody waits for, saved every 15 seconds, when a pane leaves   *)
(* the screen and when the window closes, and pruned at startup            *)
(* (src/src/lib/scrollback.ts, src/src/lib/terminal-manager.ts,            *)
(* src/src/App.tsx, src/src-tauri/src/main.rs).                            *)
(*                                                                         *)
(* What a terminal shows is the number of outputs its history holds; the   *)
(* shells' own output and its journal are in OutputStream.                 *)
(***************************************************************************)
EXTENDS Integers, Sequences, FiniteSets

CONSTANTS Pane, MaxTexts, MaxEvents, MaxFails, None

SnapshotsAssumption ==
  /\ IsFiniteSet(Pane) /\ None \notin Nat \cup [text : Nat, busy : BOOLEAN]
  /\ MaxTexts \in Nat \ {0} /\ MaxEvents \in Nat /\ MaxFails \in Nat

VARIABLES
  open,     \* the panes of the documents
  session,  \* each pane's terminal: the history xterm parsed, and whether more waits
  cache,    \* the snapshots in memory
  db,       \* the rows of the database
  legacy,   \* entries an older version left in local storage
  calls,    \* commands on their way to the backend, which runs them in order
  saving,   \* the panes whose persist waits for the parser
  phase,    \* "boot", "migrating", "ready", "closing", "destroying"
  events, fails,
  kept,     \* the history of each pane that is known to be stored
  due,      \* in an orderly close: what each pane that was idle at its start, and
            \* did not keep the parser busy for two seconds, showed then
  failed    \* a command that matters to `kept` failed

vars == <<open, session, cache, db, legacy, calls, saving, phase, events, fails,
          kept, due, failed>>

ghosts == <<kept, due, failed>>

Nothing == [p \in Pane |-> None]
Larger(a, b) == IF a > b THEN a ELSE b
Saved(x) == IF x = None THEN 0 ELSE x

Init ==
  /\ open = Pane
  /\ session = Nothing /\ cache = Nothing
  /\ db \in [Pane -> {None, 1}]
  /\ legacy \in [Pane -> {None, 1}]
  /\ calls = <<>> /\ saving = {}
  /\ phase = "boot"
  /\ events = 0 /\ fails = 0
  /\ kept = [p \in Pane |-> Larger(Saved(db[p]), Saved(legacy[p]))]
  /\ due = Nothing
  /\ failed = FALSE

-----------------------------------------------------------------------------
(***************************************************************************)
(* Startup, before any pane opens.                                         *)
(***************************************************************************)
preloadScrollbacks ==
  /\ phase = "boot"
  /\ phase' = "migrating"
  /\ \/ cache' = db /\ UNCHANGED <<fails, failed>>
     \/ /\ fails < MaxFails
        /\ cache' = Nothing
        /\ fails' = fails + 1 /\ failed' = TRUE
  /\ UNCHANGED <<open, session, db, legacy, calls, saving, events, kept, due>>

\* One entry of the older version: the database's snapshot wins; the save is
\* waited for, and the entry is removed even when it failed.
migrateFromLocalStorage(p) ==
  /\ phase = "migrating"
  /\ legacy[p] # None
  /\ legacy' = [legacy EXCEPT ![p] = None]
  /\ IF cache[p] # None THEN UNCHANGED <<cache, db, fails, failed>>
     ELSE /\ cache' = [cache EXCEPT ![p] = legacy[p]]
          /\ \/ db' = [db EXCEPT ![p] = legacy[p]] /\ UNCHANGED <<fails, failed>>
             \/ /\ fails < MaxFails
                /\ fails' = fails + 1 /\ failed' = TRUE
                /\ UNCHANGED db
  /\ UNCHANGED <<open, session, calls, saving, phase, events, kept, due>>

\* The documents are there: what belongs to no pane is dropped.
pruneScrollback ==
  /\ phase = "migrating"
  /\ legacy = Nothing
  /\ phase' = "ready"
  /\ cache' = [p \in Pane |-> IF p \in open THEN cache[p] ELSE None]
  /\ calls' = Append(calls, [cmd |-> "prune", live |-> open])
  /\ UNCHANGED <<open, session, db, legacy, saving, events, fails, ghosts>>

(***************************************************************************)
(* The backend.                                                            *)
(***************************************************************************)
Stored(c) ==
  CASE c.cmd = "save" -> [db EXCEPT ![c.pane] = c.text]
    [] c.cmd = "clear" -> [db EXCEPT ![c.pane] = None]
    [] c.cmd = "prune" -> [p \in Pane |-> IF p \in c.live THEN db[p] ELSE None]

RunCommand ==
  /\ calls # <<>>
  /\ calls' = Tail(calls)
  /\ LET c == Head(calls)
     IN  \/ /\ db' = Stored(c)
            /\ kept' = IF c.cmd = "save" THEN [kept EXCEPT ![c.pane] = Larger(@, c.text)]
                                         ELSE kept
            /\ UNCHANGED <<fails, failed>>
         \/ /\ fails < MaxFails
            /\ fails' = fails + 1 /\ failed' = TRUE
            /\ UNCHANGED <<db, kept>>
  /\ UNCHANGED <<open, session, cache, legacy, saving, phase, events, due>>

-----------------------------------------------------------------------------
(***************************************************************************)
(* The terminals.                                                          *)
(***************************************************************************)
Running == phase \in {"ready", "closing"}
Mounted == {p \in Pane : session[p] # None}

\* getOrCreateSession writes the snapshot into the new terminal first.
getOrCreateSession(p) ==
  /\ phase = "ready"
  /\ p \in open \ Mounted
  /\ session' = [session EXCEPT ![p] = [text |-> Saved(cache[p]), busy |-> FALSE]]
  /\ UNCHANGED <<open, cache, db, legacy, calls, saving, phase, events, fails, ghosts>>

Output(p) ==
  /\ Running /\ p \in Mounted
  /\ ~session[p].busy /\ session[p].text < MaxTexts
  /\ session' = [session EXCEPT ![p].busy = TRUE]
  /\ UNCHANGED <<open, cache, db, legacy, calls, saving, phase, events, fails, ghosts>>

Parsed(p) ==
  /\ Running /\ p \in Mounted
  /\ session[p].busy
  /\ session' = [session EXCEPT ![p] = [text |-> @.text + 1, busy |-> FALSE]]
  /\ UNCHANGED <<open, cache, db, legacy, calls, saving, phase, events, fails, ghosts>>

saveScrollback(p) ==
  /\ cache' = [cache EXCEPT ![p] = session[p].text]
  /\ calls' = Append(calls, [cmd |-> "save", pane |-> p, text |-> session[p].text])

\* The pane leaves the screen: its persist begins.
detachSession(p) ==
  /\ phase = "ready" /\ p \in Mounted \ saving
  /\ events < MaxEvents
  /\ events' = events + 1
  /\ saving' = saving \cup {p}
  /\ UNCHANGED <<open, session, cache, db, legacy, calls, phase, fails, ghosts>>

\* Every 15 seconds.
persistAllSessions ==
  /\ phase = "ready" /\ ~(Mounted \subseteq saving)
  /\ events < MaxEvents
  /\ events' = events + 1
  /\ saving' = saving \cup Mounted
  /\ UNCHANGED <<open, session, cache, db, legacy, calls, phase, fails, ghosts>>

\* persist goes on when the parser is idle, or gives up after two seconds.
persist(p) ==
  /\ Running /\ p \in saving
  /\ saving' = saving \ {p}
  /\ IF session[p].busy
     THEN /\ due' = [due EXCEPT ![p] = None]
          /\ UNCHANGED <<cache, calls>>
     ELSE saveScrollback(p) /\ UNCHANGED due
  /\ UNCHANGED <<open, session, db, legacy, phase, events, fails, kept, failed>>

\* Faulty: the snapshot of the last autosave is thought good enough.
unloadUnsaved(p) ==
  /\ phase = "ready" /\ p \in Mounted
  /\ events < MaxEvents
  /\ events' = events + 1
  /\ cache' = [cache EXCEPT ![p] = None]
  /\ session' = [session EXCEPT ![p] = None]
  /\ saving' = saving \ {p}
  /\ UNCHANGED <<open, db, legacy, calls, phase, fails, ghosts>>

\* The terminal is dropped, the shell goes on: what was parsed is saved at once.
unloadSession(p) ==
  /\ phase = "ready" /\ p \in Mounted
  /\ events < MaxEvents
  /\ events' = events + 1
  /\ saveScrollback(p)
  /\ session' = [session EXCEPT ![p] = None]
  /\ saving' = saving \ {p}
  /\ UNCHANGED <<open, db, legacy, phase, fails, ghosts>>

\* The pane is closed, here or on another device; a disposed session's persist
\* stores nothing any more.  Without a session nothing is cleared.
disposeSession(p) ==
  /\ phase = "ready" /\ p \in open
  /\ events < MaxEvents
  /\ events' = events + 1
  /\ open' = open \ {p}
  /\ IF p \in Mounted
     THEN /\ session' = [session EXCEPT ![p] = None]
          /\ cache' = [cache EXCEPT ![p] = None]
          /\ calls' = Append(calls, [cmd |-> "clear", pane |-> p])
     ELSE UNCHANGED <<session, cache, calls>>
  /\ saving' = saving \ {p}
  /\ UNCHANGED <<db, legacy, phase, fails, ghosts>>

\* The window is asked to close: every session is persisted first.
CloseRequested ==
  /\ phase = "ready"
  /\ events < MaxEvents
  /\ events' = events + 1
  /\ phase' = "closing"
  /\ saving' = Mounted
  /\ due' = [p \in Pane |-> IF p \in Mounted /\ ~session[p].busy
                            THEN session[p].text ELSE None]
  /\ UNCHANGED <<open, session, cache, db, legacy, calls, fails, kept, failed>>

\* The window is destroyed by a command of its own, behind the ones before it.
Destroy ==
  /\ phase = "closing" /\ saving = {}
  /\ phase' = "destroying"
  /\ UNCHANGED <<open, session, cache, db, legacy, calls, saving, events, fails, ghosts>>

Ended ==
  /\ phase' = "boot"
  /\ session' = Nothing /\ cache' = Nothing
  /\ calls' = <<>> /\ saving' = {} /\ due' = Nothing
  /\ UNCHANGED <<open, db, legacy, fails, failed>>

Destroyed ==
  /\ phase = "destroying" /\ calls = <<>>
  /\ Ended
  /\ kept' = [p \in Pane |-> Larger(kept[p], Saved(due[p]))]
  /\ UNCHANGED events

Crash ==
  /\ phase # "boot"
  /\ events < MaxEvents
  /\ events' = events + 1
  /\ Ended
  /\ UNCHANGED kept

Next ==
  \/ preloadScrollbacks \/ pruneScrollback \/ RunCommand \/ persistAllSessions
  \/ CloseRequested \/ Destroy \/ Destroyed \/ Crash
  \/ \E p \in Pane :
       \/ migrateFromLocalStorage(p) \/ getOrCreateSession(p) \/ Output(p) \/ Parsed(p)
       \/ detachSession(p) \/ persist(p) \/ unloadSession(p) \/ disposeSession(p)

Spec == Init /\ [][Next]_vars

-----------------------------------------------------------------------------
Texts == 0..MaxTexts

TypeOK ==
  /\ open \subseteq Pane /\ saving \subseteq Mounted
  /\ \A p \in Mounted : session[p].text \in Texts /\ session[p].busy \in BOOLEAN
  /\ cache \in [Pane -> Texts \cup {None}] /\ db \in [Pane -> Texts \cup {None}]
  /\ phase \in {"boot", "migrating", "ready", "closing", "destroying"}
  /\ kept \in [Pane -> Texts]

\* An open pane never comes back with less than what is known to be stored of its
\* history: the rows an earlier run left, what an older version left in local
\* storage, each save that ran, and after an orderly close everything the idle
\* panes showed when it began; across crashes, unloading and the startup's
\* pruning, unless a command failed (scrollback.ts, terminal-manager.ts).
HistoryComesBack ==
  ~failed =>
    \A p \in open \cap Mounted : session[p].text >= kept[p]

=============================================================================

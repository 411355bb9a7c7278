------------------------------ MODULE GuiParts ------------------------------
(***************************************************************************)
(* The parts of the GUI whose proofs are in GuiPartsProofs: the chat of    *)
(* the AI sidebar, the updater, the marks of activity, the Git panel, the  *)
(* resume of coding agents, the settings and the snapshots.  MCGui adds    *)
(* the others and runs them all.                                           *)
(***************************************************************************)
EXTENDS Integers, Sequences, FiniteSets

CONSTANTS
  None, MaxFails,
  MaxSteps, MaxSends, MaxCalls,                               \* chat
  MaxRelease, UpdateClicks,                                   \* update
  Pane, Tab, TabOf, Idle, MaxEvents,                          \* status
  HostOf, Path, GitEvents, MaxLines,                          \* git
  Dir, Asked, MaxShells, Osc7, RunEvents,                     \* resume
  Theme, DefaultTheme, Proxy, DefaultProxy, Bad, Blank,       \* settings
  Edited, EditClicks, FileEvents,
  SavedPane, MaxTexts                                         \* snapshots

VARIABLES
  gui, fails, clicks, timers, events, answers, calls, phase, shown, failed,
  ai, stream, sends,
  up, waits, installed, latest,
  panes, sessions, active, everActive, timeouts, silence, hookState, reported,
  runtimeStatus, waiting, look,
  shells, repos, git, settle, unseen,
  shell, leaf, cwdSnapshot, agentSnapshot, raced,
  store, disk, panel, token, loads, unread, crossed,
  open, session, cache, db, legacy, saving, kept, due

Chat == INSTANCE AiChat
Update == INSTANCE Updater WITH MaxClicks <- UpdateClicks
Status == INSTANCE AgentStatus
Git == INSTANCE GitPanel WITH MaxEvents <- GitEvents
Resume == INSTANCE AgentResume WITH MaxEvents <- RunEvents
Prefs == INSTANCE Settings WITH MaxClicks <- EditClicks, MaxEvents <- FileEvents
Snaps == INSTANCE Snapshots WITH Pane <- SavedPane, MaxEvents <- RunEvents
=============================================================================

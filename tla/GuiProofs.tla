----------------------------- MODULE GuiProofs ------------------------------
(***************************************************************************)
(* What is proved of the parts of the GUI, as MCGui states it: a step of   *)
(* MCGui is a step of the part that runs, so an inductive invariant of the *)
(* part, and the lemmas of its own module of proofs, carry over.           *)
(***************************************************************************)
EXTENDS MCGui, GuiPartsProofs

\* A behaviour is of one part.
LEMMA PartKept ==
  ASSUME [Next]_vars
  PROVE  part' = part
BY DEF vars, Next, HostsNext, ListNext, ChatNext, UpdateNext, StatusNext, GitNext,
       ResumeNext, PrefsNext, ResizeNext, SnapsNext, FilesNext, TypingNext, LinksNext

-----------------------------------------------------------------------------
(* Hosts                                                                   *)

LEMMA HostsInit ==
  ASSUME Init, part = "hosts"
  PROVE  Hosts!Init
BY DEF Init, ListAlone, ChatAlone, UpdateAlone, StatusAlone, GitAlone, ResumeAlone,
       PrefsAlone, ResizeAlone, SnapsAlone, FilesAlone, TypingAlone, LinksAlone

LEMMA HostsStep ==
  ASSUME [Next]_vars, part = "hosts"
  PROVE  [Hosts!Next]_(Hosts!hostVars)
<1>1. CASE UNCHANGED vars
  BY <1>1 DEF vars, Hosts!hostVars
<1> QED
  BY <1>1 DEF Next, HostsNext, ListNext, ChatNext, UpdateNext, StatusNext, GitNext,
              ResumeNext, PrefsNext, ResizeNext, SnapsNext, FilesNext, TypingNext,
              LinksNext

HostsKept == part = "hosts" => Hosts!Sound(gui) /\ Hosts!Gone(gui)

LEMMA HostsAlways ==
  ASSUME ~Hasty
  PROVE  /\ Init => HostsKept
         /\ HostsKept /\ [Next]_vars => HostsKept'
<1>1. Init => HostsKept
  BY HostsInit, PartsAssumption, Hosts!InitSound, Hosts!InitGone DEF HostsKept
<1>2. HostsKept /\ [Next]_vars => HostsKept'
  <2>1. ASSUME HostsKept, [Next]_vars, part' = "hosts"
        PROVE  Hosts!Sound(gui') /\ Hosts!Gone(gui')
    <3>1. part = "hosts"
      BY <2>1, PartKept
    <3>2. [Hosts!Next]_(Hosts!hostVars) /\ Hosts!Sound(gui) /\ Hosts!Gone(gui)
      BY <2>1, <3>1, HostsStep DEF HostsKept
    <3> QED  BY <3>2, PartsAssumption, Hosts!NextSound, Hosts!NextGone
  <2> QED  BY <2>1 DEF HostsKept
<1> QED  BY <1>1, <1>2

Attached == part = "hosts" => Hosts!Sound(gui) /\ Hosts!Bounded

\* Of a user who acts on a host whenever he wants, too.
LEMMA AttachedAlways ==
  /\ Init => Attached
  /\ Attached /\ [Next]_vars => Attached'
<1>1. Init => Attached
  BY HostsInit, PartsAssumption, Hosts!InitSound, Hosts!InitBounded DEF Attached
<1>2. Attached /\ [Next]_vars => Attached'
  <2>1. ASSUME Attached, [Next]_vars, part' = "hosts"
        PROVE  Hosts!Sound(gui') /\ Hosts!Bounded'
    <3>1. part = "hosts"
      BY <2>1, PartKept
    <3>2. [Hosts!Next]_(Hosts!hostVars) /\ Hosts!Sound(gui) /\ Hosts!Bounded
      BY <2>1, <3>1, HostsStep DEF Attached
    <3> QED  BY <3>2, PartsAssumption, Hosts!NextSound, Hosts!NextBounded
  <2> QED  BY <2>1 DEF Attached
<1> QED  BY <1>1, <1>2

-----------------------------------------------------------------------------
(* Terminal resize                                                         *)

LEMMA ResizeInit ==
  ASSUME Init, part = "resize"
  PROVE  Terminal!Init
BY DEF Init, HostsAlone, ListAlone, ChatAlone, UpdateAlone, StatusAlone, GitAlone,
       ResumeAlone, PrefsAlone, SnapsAlone, FilesAlone, TypingAlone, LinksAlone

LEMMA ResizeStep ==
  ASSUME [Next]_vars, part = "resize"
  PROVE  [Terminal!Next]_(Terminal!vars)
<1>1. CASE UNCHANGED vars
  BY <1>1 DEF vars, resizeOnly, Terminal!vars
<1> QED
  BY <1>1 DEF Next, HostsNext, ListNext, ChatNext, UpdateNext, StatusNext, GitNext,
              ResumeNext, PrefsNext, ResizeNext, SnapsNext, FilesNext, TypingNext,
              LinksNext

ResizeKept == part = "resize" => Terminal!ResizeInv

LEMMA ResizeAlways ==
  /\ Init => ResizeKept
  /\ ResizeKept /\ [Next]_vars => ResizeKept'
<1>1. Init => ResizeKept
  BY ResizeInit, PartsAssumption, Terminal!InitHolds DEF ResizeKept
<1>2. ResizeKept /\ [Next]_vars => ResizeKept'
  <2>1. ASSUME ResizeKept, [Next]_vars, part' = "resize"
        PROVE  Terminal!ResizeInv'
    <3>1. part = "resize"
      BY <2>1, PartKept
    <3> QED  BY <2>1, <3>1, ResizeStep, PartsAssumption, Terminal!StepHolds DEF ResizeKept
  <2> QED  BY <2>1 DEF ResizeKept
<1> QED  BY <1>1, <1>2

\* Once drags and takeovers have come to rest, the PTY, the agent's record and every
\* window have one grid, for any number of windows, sizes and takeovers (pty.ts resize
\* pump, server.rs Resize and acquire_control, session_manager.rs resize).
THEOREM WindowsAgree == Spec => []GridsAgree
<1>1. ResizeKept => GridsAgree
  BY Terminal!Settled DEF ResizeKept, GridsAgree
<1> QED  BY <1>1, ResizeAlways, PTL DEF Spec

-----------------------------------------------------------------------------
(* Workspace list                                                          *)

LEMMA ListStarts ==
  ASSUME Init, part = "list"
  PROVE  Hosts!List!Init
BY DEF Init, HostsAlone, ChatAlone, UpdateAlone, StatusAlone, GitAlone, ResumeAlone,
       PrefsAlone, ResizeAlone, SnapsAlone, FilesAlone, TypingAlone, LinksAlone

LEMMA ListMoves ==
  ASSUME [Next]_vars, part = "list"
  PROVE  [Hosts!List!Next]_(Hosts!List!listVars)
<1>1. CASE UNCHANGED vars
  BY <1>1 DEF vars, listOnly, Hosts!List!listVars
<1> QED
  BY <1>1 DEF Next, HostsNext, ListNext, ChatNext, UpdateNext, StatusNext, GitNext,
              ResumeNext, PrefsNext, ResizeNext, SnapsNext, FilesNext, TypingNext,
              LinksNext

ListKept == part = "list" => Hosts!ListInv

LEMMA ListAlways ==
  /\ Init => ListKept
  /\ ListKept /\ [Next]_vars => ListKept'
<1>1. Init => ListKept
  BY ListStarts, PartsAssumption, Hosts!InitList DEF ListKept
<1>2. ListKept /\ [Next]_vars => ListKept'
  <2>1. ASSUME ListKept, [Next]_vars, part' = "list"
        PROVE  Hosts!ListInv'
    <3>1. part = "list"
      BY <2>1, PartKept
    <3> QED  BY <2>1, <3>1, ListMoves, PartsAssumption, Hosts!StepList DEF ListKept
  <2> QED  BY <2>1 DEF ListKept
<1> QED  BY <1>1, <1>2

\* One machine is attached through one host at a time; what was paused or removed is
\* not connected, and what was removed not listed, once nothing of it is under way;
\* and the list shows what its hosts store, less what is being deleted, for any
\* number of hosts, workspaces and clicks, as long as the user waits for a connection
\* to close before acting on its host again (remote-host-manager.ts,
\* workspace-store.ts, workspace-sync.ts).
THEOREM ListsAgree == ~Hasty /\ Spec => []HostsAgree
<1> SUFFICES ASSUME ~Hasty PROVE Spec => []HostsAgree
  OBVIOUS
<1>1. HostsKept /\ ListKept => HostsAgree
  BY PartsAssumption, Hosts!SoundUnique, Hosts!GoneStops, Hosts!ListHolds
     DEF HostsKept, ListKept, HostsAgree
<1> QED  BY <1>1, HostsAlways, ListAlways, PTL DEF Spec

-----------------------------------------------------------------------------
(* AI sidebar                                                              *)

LEMMA ChatStarts ==
  ASSUME Init, part = "chat"
  PROVE  Chat!Init
BY DEF Init, HostsAlone, ListAlone, UpdateAlone, StatusAlone, GitAlone, ResumeAlone,
       PrefsAlone, ResizeAlone, SnapsAlone, FilesAlone, TypingAlone, LinksAlone

LEMMA ChatMoves ==
  ASSUME [Next]_vars, part = "chat"
  PROVE  [Chat!Next]_(Chat!aiVars)
<1>1. CASE UNCHANGED vars
  BY <1>1 DEF vars, chatOnly, Chat!aiVars
<1> QED
  BY <1>1 DEF Next, HostsNext, ListNext, ChatNext, UpdateNext, StatusNext, GitNext,
              ResumeNext, PrefsNext, ResizeNext, SnapsNext, FilesNext, TypingNext,
              LinksNext

ChatKept == part = "chat" => ChatInv

LEMMA ChatAlways ==
  /\ Init => ChatKept
  /\ ChatKept /\ [Next]_vars => ChatKept'
<1>1. Init => ChatKept
  BY ChatStarts, PartsAssumption, InitChat DEF ChatKept
<1>2. ChatKept /\ [Next]_vars => ChatKept'
  <2>1. ASSUME ChatKept, [Next]_vars, part' = "chat"
        PROVE  ChatInv'
    <3>1. part = "chat"
      BY <2>1, PartKept
    <3> QED  BY <2>1, <3>1, ChatMoves, PartsAssumption, StepChat DEF ChatKept
  <2> QED  BY <2>1 DEF ChatKept
<1> QED  BY <1>1, <1>2

\* The model is asked again only when every tool call of its last reply was answered,
\* a command runs in a pane only once it was agreed to, and the sidebar asks the user
\* exactly while the loop waits for that, for any number of messages, steps and calls
\* (ai-store.ts runAgentLoop).
THEOREM ChatAnswers == Spec => []CallsAnswered
<1>1. ChatKept => CallsAnswered
  BY PartsAssumption, ChatHolds DEF ChatKept, CallsAnswered
<1> QED  BY <1>1, ChatAlways, PTL DEF Spec

-----------------------------------------------------------------------------
(* Updater                                                                 *)

LEMMA UpdateStarts ==
  ASSUME Init, part = "update"
  PROVE  Update!Init
BY DEF Init, HostsAlone, ListAlone, ChatAlone, StatusAlone, GitAlone, ResumeAlone,
       PrefsAlone, ResizeAlone, SnapsAlone, FilesAlone, TypingAlone, LinksAlone

LEMMA UpdateMoves ==
  ASSUME [Next]_vars, part = "update"
  PROVE  [Update!Next]_(Update!updaterVars)
<1>1. CASE UNCHANGED vars
  BY <1>1 DEF vars, updateOnly, Update!updaterVars
<1> QED
  BY <1>1 DEF Next, HostsNext, ListNext, ChatNext, UpdateNext, StatusNext, GitNext,
              ResumeNext, PrefsNext, ResizeNext, SnapsNext, FilesNext, TypingNext,
              LinksNext

UpdateKept == part = "update" => UpdaterInv

LEMMA UpdateAlways ==
  /\ Init => UpdateKept
  /\ UpdateKept /\ [Next]_vars => UpdateKept'
<1>1. Init => UpdateKept
  BY UpdateStarts, PartsAssumption, InitUpdater DEF UpdateKept
<1>2. UpdateKept /\ [Next]_vars => UpdateKept'
  <2>1. ASSUME UpdateKept, [Next]_vars, part' = "update"
        PROVE  UpdaterInv'
    <3>1. part = "update"
      BY <2>1, PartKept
    <3> QED  BY <2>1, <3>1, UpdateMoves, PartsAssumption, NextUpdater DEF UpdateKept
  <2> QED  BY <2>1 DEF UpdateKept
<1> QED  BY <1>1, <1>2

\* What the dialog offers to install is there, was verified and is newer than what
\* runs, and nothing that is still under way takes it away (updater-store.ts check,
\* startDownload, relaunch).
THEOREM ReadyInstalls == Spec => []ReadyIsInstallable
<1>1. UpdateKept => ReadyIsInstallable
  BY PartsAssumption, InvReady DEF UpdateKept, ReadyIsInstallable
<1> QED  BY <1>1, UpdateAlways, PTL DEF Spec

-----------------------------------------------------------------------------
(* Agent status                                                            *)

LEMMA StatusStarts ==
  ASSUME Init, part = "status"
  PROVE  Status!Init
BY DEF Init, HostsAlone, ListAlone, ChatAlone, UpdateAlone, GitAlone, ResumeAlone,
       PrefsAlone, ResizeAlone, SnapsAlone, FilesAlone, TypingAlone, LinksAlone

LEMMA StatusMoves ==
  ASSUME [Next]_vars, part = "status"
  PROVE  [Status!Next]_(Status!statusVars)
<1>1. CASE UNCHANGED vars
  BY <1>1 DEF vars, statusOnly, Status!statusVars, Status!activityVars
<1> QED
  BY <1>1 DEF Next, HostsNext, ListNext, ChatNext, UpdateNext, StatusNext, GitNext,
              ResumeNext, PrefsNext, ResizeNext, SnapsNext, FilesNext, TypingNext,
              LinksNext

StatusKept == part = "status" => StatusInv

LEMMA StatusAlways ==
  /\ Init => StatusKept
  /\ StatusKept /\ [Next]_vars => StatusKept'
<1>1. Init => StatusKept
  BY StatusStarts, PartsAssumption, InitStatus DEF StatusKept
<1>2. StatusKept /\ [Next]_vars => StatusKept'
  <2>1. ASSUME StatusKept, [Next]_vars, part' = "status"
        PROVE  StatusInv'
    <3>1. part = "status"
      BY <2>1, PartKept
    <3> QED  BY <2>1, <3>1, StatusMoves, PartsAssumption, StepStatus DEF StatusKept
  <2> QED  BY <2>1 DEF StatusKept
<1> QED  BY <1>1, <1>2

\* A pane is shown as executing from its last output until it has been quiet, and a
\* pane without a terminal leaves nothing behind, for any number of panes, tabs and
\* events (activity-store.ts).
THEOREM ActivityFollows == Spec => []ActivityTracksOutput
<1>1. StatusKept => ActivityTracksOutput
  BY StatusHolds DEF StatusKept, ActivityTracksOutput
<1> QED  BY <1>1, StatusAlways, PTL DEF Spec

-----------------------------------------------------------------------------
(* Git panel                                                               *)

LEMMA GitStarts ==
  ASSUME Init, part = "git"
  PROVE  Git!Init
BY DEF Init, HostsAlone, ListAlone, ChatAlone, UpdateAlone, StatusAlone, ResumeAlone,
       PrefsAlone, ResizeAlone, SnapsAlone, FilesAlone, TypingAlone, LinksAlone

LEMMA GitMoves ==
  ASSUME [Next]_vars, part = "git"
  PROVE  [Git!Next]_(Git!gitVars)
<1>1. CASE UNCHANGED vars
  BY <1>1 DEF vars, gitOnly, Git!gitVars
<1> QED
  BY <1>1 DEF Next, HostsNext, ListNext, ChatNext, UpdateNext, StatusNext, GitNext,
              ResumeNext, PrefsNext, ResizeNext, SnapsNext, FilesNext, TypingNext,
              LinksNext

GitKept == part = "git" => GitInv

LEMMA GitAlways ==
  /\ Init => GitKept
  /\ GitKept /\ [Next]_vars => GitKept'
<1>1. Init => GitKept
  BY GitStarts, PartsAssumption, InitGit DEF GitKept
<1>2. GitKept /\ [Next]_vars => GitKept'
  <2>1. ASSUME GitKept, [Next]_vars, part' = "git"
        PROVE  GitInv'
    <3>1. part = "git"
      BY <2>1, PartKept
    <3> QED  BY <2>1, <3>1, GitMoves, PartsAssumption, StepGit DEF GitKept
  <2> QED  BY <2>1 DEF GitKept
<1> QED  BY <1>1, <1>2

\* Once nothing is under way the open panel shows the directory that the pane in
\* front is in, however refreshes, switches and shells overlapped, for any number of
\* panes, directories and events (git-store.ts, refreshSeq).
THEOREM PanelFollows == Spec => []PanelSettles
<1>1. GitKept => PanelSettles
  BY PartsAssumption, GitHolds DEF GitKept, PanelSettles
<1> QED  BY <1>1, GitAlways, PTL DEF Spec

-----------------------------------------------------------------------------
(* Resume of coding agents                                                 *)

LEMMA ResumeStarts ==
  ASSUME Init, part = "resume"
  PROVE  Resume!Init
BY DEF Init, HostsAlone, ListAlone, ChatAlone, UpdateAlone, StatusAlone, GitAlone,
       PrefsAlone, ResizeAlone, SnapsAlone, FilesAlone, TypingAlone, LinksAlone

LEMMA ResumeMoves ==
  ASSUME [Next]_vars, part = "resume"
  PROVE  [Resume!Next]_(Resume!resumeVars)
<1>1. CASE UNCHANGED vars
  BY <1>1 DEF vars, resumeOnly, Resume!resumeVars
<1> QED
  BY <1>1 DEF Next, HostsNext, ListNext, ChatNext, UpdateNext, StatusNext, GitNext,
              ResumeNext, PrefsNext, ResizeNext, SnapsNext, FilesNext, TypingNext,
              LinksNext

ResumeKept == part = "resume" => ResumeInv

LEMMA ResumeAlways ==
  /\ Init => ResumeKept
  /\ ResumeKept /\ [Next]_vars => ResumeKept'
<1>1. Init => ResumeKept
  BY ResumeStarts, PartsAssumption, InitResume DEF ResumeKept
<1>2. ResumeKept /\ [Next]_vars => ResumeKept'
  <2>1. ASSUME ResumeKept, [Next]_vars, part' = "resume"
        PROVE  ResumeInv'
    <3>1. part = "resume"
      BY <2>1, PartKept
    <3> QED  BY <2>1, <3>1, ResumeMoves, PartsAssumption, StepResume DEF ResumeKept
  <2> QED  BY <2>1 DEF ResumeKept
<1> QED  BY <1>1, <1>2

\* A resume command is typed once, into a shell that was spawned for it, and a window
\* that was closed has remembered the directory and the agent as they are, for any
\* number of directories, shells and events (terminal-manager.ts).
THEOREM ResumesAsLeft == Spec => []ResumedAsLeft
<1>1. ResumeKept => ResumedAsLeft
  BY PartsAssumption, ResumeHolds DEF ResumeKept, ResumedAsLeft
<1> QED  BY <1>1, ResumeAlways, PTL DEF Spec

-----------------------------------------------------------------------------
(* Scrollback snapshots                                                    *)

LEMMA SnapsStarts ==
  ASSUME Init, part = "snapshots"
  PROVE  Snaps!Init
BY DEF Init, HostsAlone, ListAlone, ChatAlone, UpdateAlone, StatusAlone, GitAlone,
       ResumeAlone, PrefsAlone, ResizeAlone, FilesAlone, TypingAlone, LinksAlone

LEMMA SnapsMoves ==
  ASSUME [Next]_vars, part = "snapshots"
  PROVE  [Snaps!Next]_(Snaps!vars)
<1>1. CASE UNCHANGED vars
  BY <1>1 DEF vars, snapshotsOnly, Snaps!vars, Snaps!ghosts
<1> QED
  BY <1>1 DEF Next, HostsNext, ListNext, ChatNext, UpdateNext, StatusNext, GitNext,
              ResumeNext, PrefsNext, ResizeNext, SnapsNext, FilesNext, TypingNext,
              LinksNext

SnapsKept == part = "snapshots" => SnapInv

LEMMA SnapsAlways ==
  /\ Init => SnapsKept
  /\ SnapsKept /\ [Next]_vars => SnapsKept'
<1>1. Init => SnapsKept
  BY SnapsStarts, PartsAssumption, InitSnap DEF SnapsKept
<1>2. SnapsKept /\ [Next]_vars => SnapsKept'
  <2>1. ASSUME SnapsKept, [Next]_vars, part' = "snapshots"
        PROVE  SnapInv'
    <3>1. part = "snapshots"
      BY <2>1, PartKept
    <3> QED  BY <2>1, <3>1, SnapsMoves, PartsAssumption, StepSnap DEF SnapsKept
  <2> QED  BY <2>1 DEF SnapsKept
<1> QED  BY <1>1, <1>2



-----------------------------------------------------------------------------
(* Settings                                                                *)

LEMMA PrefsStarts ==
  ASSUME Init, part = "settings"
  PROVE  Prefs!Init
BY DEF Init, HostsAlone, ListAlone, ChatAlone, UpdateAlone, StatusAlone, GitAlone,
       ResumeAlone, ResizeAlone, SnapsAlone, FilesAlone, TypingAlone, LinksAlone

LEMMA PrefsMoves ==
  ASSUME [Next]_vars, part = "settings"
  PROVE  [Prefs!Next]_(Prefs!vars)
<1>1. CASE UNCHANGED vars
  BY <1>1 DEF vars, settingsOnly, Prefs!vars
<1> QED
  BY <1>1 DEF Next, HostsNext, ListNext, ChatNext, UpdateNext, StatusNext, GitNext,
              ResumeNext, PrefsNext, ResizeNext, SnapsNext, FilesNext, TypingNext,
              LinksNext

PrefsKept == part = "settings" => PrefsInv

LEMMA PrefsAlways ==
  /\ Init => PrefsKept
  /\ PrefsKept /\ [Next]_vars => PrefsKept'
<1>1. Init => PrefsKept
  BY PrefsStarts, PartsAssumption, InitPrefs DEF PrefsKept
<1>2. PrefsKept /\ [Next]_vars => PrefsKept'
  <2>1. ASSUME PrefsKept, [Next]_vars, part' = "settings"
        PROVE  PrefsInv'
    <3>1. part = "settings"
      BY <2>1, PartKept
    <3> QED  BY <2>1, <3>1, PrefsMoves, PartsAssumption, StepPrefs DEF PrefsKept
  <2> QED  BY <2>1 DEF PrefsKept
<1> QED  BY <1>1, <1>2

\* Once nothing is under way the settings file means what the program uses and the
\* terminals show it, and what a pane showed when the window closed comes back, for
\* any number of themes, panes, edits and events (config.ts, terminal-manager.ts,
\* session-snapshots.ts).
THEOREM DiskFollows == Spec => []DiskAgrees
<1>1. PrefsKept /\ SnapsKept => DiskAgrees
  BY PartsAssumption, PrefsHolds, SnapHolds DEF PrefsKept, SnapsKept, DiskAgrees
<1> QED  BY <1>1, PrefsAlways, SnapsAlways, PTL DEF Spec

-----------------------------------------------------------------------------
(* Viewer of files                                                         *)

LEMMA FilesStarts ==
  ASSUME Init, part = "files"
  PROVE  Hosts!Files!Init
BY DEF Init, HostsAlone, ListAlone, ChatAlone, UpdateAlone, StatusAlone, GitAlone,
       ResumeAlone, PrefsAlone, ResizeAlone, SnapsAlone, TypingAlone, LinksAlone

LEMMA FilesMoves ==
  ASSUME [Next]_vars, part = "files"
  PROVE  [Hosts!Files!Next]_(Hosts!Files!vars)
<1>1. CASE UNCHANGED vars
  BY <1>1 DEF vars, filesOnly, Hosts!Files!vars
<1> QED
  BY <1>1 DEF Next, HostsNext, ListNext, ChatNext, UpdateNext, StatusNext, GitNext,
              ResumeNext, PrefsNext, ResizeNext, SnapsNext, FilesNext, TypingNext,
              LinksNext

FilesKept == part = "files" => Hosts!FilesInv

LEMMA FilesAlways ==
  /\ Init => FilesKept
  /\ FilesKept /\ [Next]_vars => FilesKept'
<1>1. Init => FilesKept
  BY FilesStarts, PartsAssumption, Hosts!InitFiles DEF FilesKept
<1>2. FilesKept /\ [Next]_vars => FilesKept'
  <2>1. ASSUME FilesKept, [Next]_vars, part' = "files"
        PROVE  Hosts!FilesInv'
    <3>1. part = "files"
      BY <2>1, PartKept
    <3> QED  BY <2>1, <3>1, FilesMoves, PartsAssumption, Hosts!StepFiles DEF FilesKept
  <2> QED  BY <2>1 DEF FilesKept
<1> QED  BY <1>1, <1>2

\* What a file tab shows was read on the machine of its workspace and is no beginning
\* of a file whose rest is missing, and a tab that loads has a read under way, for
\* any files, tabs and clicks, however often the host is lost or removed and whoever
\* deletes its workspace; what a call brings that lost its workspace's owner while it
\* waited is excepted (viewer-store.ts, file-reader.ts, file-link.ts).
THEOREM FilesOwned == Spec => [](part = "files" => Hosts!Files!FilesAreOwn)
<1>1. FilesKept => (part = "files" => Hosts!Files!FilesAreOwn)
  BY PartsAssumption, Hosts!FilesHold DEF FilesKept, Hosts!Files!FilesAreOwn
<1> QED  BY <1>1, FilesAlways, PTL DEF Spec

-----------------------------------------------------------------------------
(* Composition of text                                                     *)

LEMMA TypingStarts ==
  ASSUME Init, part = "typing"
  PROVE  Terminal!Typing!Init
BY DEF Init, HostsAlone, ListAlone, ChatAlone, UpdateAlone, StatusAlone, GitAlone,
       ResumeAlone, PrefsAlone, ResizeAlone, SnapsAlone, FilesAlone, LinksAlone

LEMMA TypingMoves ==
  ASSUME [Next]_vars, part = "typing"
  PROVE  [Terminal!Typing!Next]_(Terminal!Typing!vars)
<1>1. CASE UNCHANGED vars
  BY <1>1 DEF vars, typingOnly, Terminal!Typing!vars
<1> QED
  BY <1>1 DEF Next, HostsNext, ListNext, ChatNext, UpdateNext, StatusNext, GitNext,
              ResumeNext, PrefsNext, ResizeNext, SnapsNext, FilesNext, TypingNext,
              LinksNext

TypingKept == part = "typing" => Terminal!TypingInv

LEMMA TypingAlways ==
  /\ Init => TypingKept
  /\ TypingKept /\ [Next]_vars => TypingKept'
<1>1. Init => TypingKept
  BY TypingStarts, PartsAssumption, Terminal!InitTyping DEF TypingKept
<1>2. TypingKept /\ [Next]_vars => TypingKept'
  <2>1. ASSUME TypingKept, [Next]_vars, part' = "typing"
        PROVE  Terminal!TypingInv'
    <3>1. part = "typing"
      BY <2>1, PartKept
    <3> QED  BY <2>1, <3>1, TypingMoves, PartsAssumption, Terminal!StepTyping DEF TypingKept
  <2> QED  BY <2>1 DEF TypingKept
<1> QED  BY <1>1, <1>2

\* Once a key's events and timers are done, what was typed and committed has reached
\* the PTY once and in its order, after any number of keys, compositions and commits
\* without one, on Linux and on macOS (terminal-composition-guard.ts,
\* terminal-macos-composition.ts).
THEOREM TypedReaches == Spec => []TypedOnce
<1>1. TypingKept => TypedOnce
  BY Terminal!TypingHolds DEF TypingKept, TypedOnce
<1> QED  BY <1>1, TypingAlways, PTL DEF Spec

-----------------------------------------------------------------------------
(* Terminal links                                                          *)

LEMMA LinksStarts ==
  ASSUME Init, part = "links"
  PROVE  Terminal!Links!Init
BY DEF Init, HostsAlone, ListAlone, ChatAlone, UpdateAlone, StatusAlone, GitAlone,
       ResumeAlone, PrefsAlone, ResizeAlone, SnapsAlone, FilesAlone, TypingAlone

LEMMA LinksMoves ==
  ASSUME [Next]_vars, part = "links"
  PROVE  [Terminal!Links!Next]_(Terminal!Links!linkVars)
<1>1. CASE UNCHANGED vars
  BY <1>1 DEF vars, linksOnly, Terminal!Links!linkVars
<1> QED
  BY <1>1 DEF Next, HostsNext, ListNext, ChatNext, UpdateNext, StatusNext, GitNext,
              ResumeNext, PrefsNext, ResizeNext, SnapsNext, FilesNext, TypingNext,
              LinksNext

LinksKept == part = "links" => Terminal!LinksInv

LEMMA LinksAlways ==
  /\ Init => LinksKept
  /\ LinksKept /\ [Next]_vars => LinksKept'
<1>1. Init => LinksKept
  BY LinksStarts, PartsAssumption, Terminal!InitLinks DEF LinksKept
<1>2. LinksKept /\ [Next]_vars => LinksKept'
  <2>1. ASSUME LinksKept, [Next]_vars, part' = "links"
        PROVE  Terminal!LinksInv'
    <3>1. part = "links"
      BY <2>1, PartKept
    <3> QED  BY <2>1, <3>1, LinksMoves, PartsAssumption, Terminal!StepLinks DEF LinksKept
  <2> QED  BY <2>1 DEF LinksKept
<1> QED  BY <1>1, <1>2


-----------------------------------------------------------------------------
(* All parts                                                               *)

\* No part ever leaves its types, whatever its constants are: the records, sequences
\* and tables that the parts' operators take are of the shapes they are written for.
THEOREM TypesHold == Spec => []TypesOK
<1>1. Attached => (part = "hosts" => Hosts!TypeOK)
  BY Hosts!SoundTyped DEF Attached
<1>2. ListKept => (part = "list" => Hosts!List!TypeOK)
  BY PartsAssumption, Hosts!ListTyped DEF ListKept
<1>3. ChatKept => (part = "chat" => Chat!TypeOK)
  BY PartsAssumption, ChatHolds DEF ChatKept
<1>4. UpdateKept => (part = "update" => Update!TypeOK)
  BY DEF UpdateKept, UpdaterInv
<1>5. StatusKept => (part = "status" => Status!TypeOK)
  BY StatusHolds DEF StatusKept
<1>6. GitKept => (part = "git" => Git!TypeOK)
  BY PartsAssumption, GitHolds DEF GitKept
<1>7. ResumeKept => (part = "resume" => Resume!TypeOK)
  BY ResumeHolds DEF ResumeKept
<1>8. PrefsKept => (part = "settings" => Prefs!TypeOK)
  BY PartsAssumption, PrefsHolds DEF PrefsKept
<1>9. ResizeKept => (part = "resize" => Terminal!TypeOK)
  BY DEF ResizeKept, Terminal!ResizeInv
<1>10. SnapsKept => (part = "snapshots" => Snaps!TypeOK)
  BY PartsAssumption, SnapHolds DEF SnapsKept
<1>11. FilesKept => (part = "files" => Hosts!Files!TypeOK)
  BY PartsAssumption, Hosts!FilesHold DEF FilesKept
<1>12. TypingKept => (part = "typing" => Terminal!Typing!TypeOK)
  BY Terminal!TypingHolds DEF TypingKept
<1>13. LinksKept => (part = "links" => Terminal!Links!TypeOK)
  BY Terminal!LinksHold DEF LinksKept
<1>14. /\ Attached /\ ListKept /\ ChatKept /\ UpdateKept /\ StatusKept /\ GitKept
       /\ ResumeKept /\ PrefsKept /\ ResizeKept /\ SnapsKept /\ FilesKept /\ TypingKept
       /\ LinksKept
       => TypesOK
  BY <1>1, <1>2, <1>3, <1>4, <1>5, <1>6, <1>7, <1>8, <1>9, <1>10, <1>11, <1>12, <1>13
     DEF TypesOK
<1> QED
  BY <1>14, AttachedAlways, ListAlways, ChatAlways, UpdateAlways, StatusAlways, GitAlways,
     ResumeAlways, PrefsAlways, ResizeAlways, SnapsAlways, FilesAlways, TypingAlways,
     LinksAlways, PTL DEF Spec
=============================================================================

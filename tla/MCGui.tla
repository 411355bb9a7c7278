------------------------------- MODULE MCGui --------------------------------
(***************************************************************************)
(* Instances for TLC of the parts of the GUI whose models share no state:  *)
(* a behaviour is one of one part, which `part` names; the variables of    *)
(* the others are None.  Variables of two parts that have one name are     *)
(* not the same variable, only one at a time is in use.  The hosts with    *)
(* their list and files, and the terminal with its composition and links,  *)
(* are instantiated from their modules of proofs, for GuiProofs.           *)
(***************************************************************************)
EXTENDS GuiParts

CONSTANTS
  Host, Device, DeviceOf, MaxTries, MaxClicks, Hasty,         \* hosts
  Local, MaxIds,                                              \* list
  Viewable, Chunks, MaxTabs, FileClicks,                      \* files
  Client, Size, FirstClient, FirstSize, MaxFits, MaxTakes,    \* resize
  Char, MaxKeys,                                              \* typing
  Cols, Outputs, MaxOutputs,                                  \* links
  h1, h2, d1, p1, p2, a, b, t0, t1, odd, proxy0

\* Both profiles lead to one machine.
OneDevice == [h \in Host |-> d1]

\* Each pane has a tab of its own, and a host of its own.
OwnTab == [p \in Pane |-> p]
OwnHost == [p \in Pane |-> IF p = p1 THEN h1 ELSE h2]

\* What the user may write into config.json: no JSON, and settings in and out of
\* their ranges.
Edits == {Bad, [theme |-> t1, lines |-> 1, proxy |-> proxy0],
          [theme |-> odd, lines |-> 4, proxy |-> proxy0]}

\* The file on the hosts: three chunks, later one.
Shrinking == <<3, 1>>

\* One program prints URLs among letters that are wide, accented or missing, the
\* other paths among punctuation.
Printed == {{"url", "letter", "dot", "accent", "wide", "newline", "gap"},
            {"url", "letter", "slash", "dot", "colon", "digit", "quote", "stop"}}

VARIABLES
  part,
  workspaces, activeId, stored, known, tasks, reachable, minted,
  ptySize, recorded, owner, reqs, serving, feed, fit, grid, pty, frames, fits, takes,
  late,
  net, version, tabs, texts, links, reads, opened,
  os, value, xterm, guard, script, typed, sent, keys,
  rows, program, outputs

Hosts == INSTANCE HostsProofs
Terminal == INSTANCE TerminalProofs

ASSUME PartsAssumption ==
  /\ Hosts!HostsAssumption /\ Hosts!List!ListAssumption /\ Chat!ChatAssumption
  /\ Update!UpdaterAssumption /\ Status!StatusAssumption /\ Git!GitAssumption /\ Resume!ResumeAssumption
  /\ Prefs!SettingsAssumption /\ Terminal!ResizeAssumption /\ Snaps!SnapshotsAssumption
  /\ Hosts!Files!FilesAssumption /\ Terminal!Typing!CompositionAssumption
  /\ Terminal!Links!LinksAssumption

-----------------------------------------------------------------------------
listOnly == <<workspaces, activeId, stored, known, tasks, reachable, minted>>
chatOnly == <<ai, stream, sends>>
updateOnly == <<up, waits, installed, latest>>
statusOnly == <<panes, sessions, active, everActive, timeouts, silence, hookState,
                reported, runtimeStatus, waiting, look>>
gitOnly == <<shells, repos, git, settle, unseen>>
resumeOnly == <<shell, leaf, cwdSnapshot, agentSnapshot, raced>>
settingsOnly == <<store, disk, panel, token, loads, unread, crossed>>
resizeOnly == <<ptySize, recorded, owner, reqs, serving, feed, fit, grid, pty, frames,
                fits, takes, late>>
snapshotsOnly == <<open, session, cache, db, legacy, saving, kept, due>>
filesOnly == <<net, version, tabs, texts, links, reads, opened>>
typingOnly == <<os, value, xterm, guard, script, typed, sent, keys>>
linksOnly == <<rows, program, outputs>>

ListOff ==
  /\ workspaces = None /\ activeId = None /\ stored = None /\ known = None
  /\ tasks = None /\ reachable = None /\ minted = None
ChatOff ==
  /\ ai = None /\ stream = None /\ sends = None
UpdateOff ==
  /\ up = None /\ waits = None /\ installed = None /\ latest = None
StatusOff ==
  /\ panes = None /\ sessions = None /\ active = None /\ everActive = None
  /\ timeouts = None /\ silence = None /\ hookState = None /\ reported = None
  /\ runtimeStatus = None /\ waiting = None /\ look = None
GitOff ==
  /\ shells = None /\ repos = None /\ git = None /\ settle = None /\ unseen = None
ResumeOff ==
  /\ shell = None /\ leaf = None /\ cwdSnapshot = None /\ agentSnapshot = None
  /\ raced = None
SettingsOff ==
  /\ store = None /\ disk = None /\ panel = None /\ token = None /\ loads = None
  /\ unread = None /\ crossed = None
ResizeOff ==
  /\ ptySize = None /\ recorded = None /\ owner = None /\ reqs = None /\ serving = None
  /\ feed = None /\ fit = None /\ grid = None /\ pty = None /\ frames = None
  /\ fits = None /\ takes = None /\ late = None
SnapshotsOff ==
  /\ open = None /\ session = None /\ cache = None /\ db = None /\ legacy = None
  /\ saving = None /\ kept = None /\ due = None
FilesOff ==
  /\ net = None /\ version = None /\ tabs = None /\ texts = None /\ links = None
  /\ reads = None /\ opened = None
TypingOff ==
  /\ os = None /\ value = None /\ xterm = None /\ guard = None /\ script = None
  /\ typed = None /\ sent = None /\ keys = None
LinksOff ==
  /\ rows = None /\ program = None /\ outputs = None

vars == <<part, gui, fails, clicks, timers, events, answers, calls, phase, shown,
          failed, listOnly, chatOnly, updateOnly, statusOnly, gitOnly, resumeOnly,
          settingsOnly, resizeOnly, snapshotsOnly, filesOnly, typingOnly, linksOnly>>

\* Only this part's variables are in use.
HostsAlone ==
  /\ part = "hosts" /\ ListOff /\ ChatOff /\ UpdateOff /\ StatusOff /\ GitOff
  /\ ResumeOff /\ SettingsOff /\ ResizeOff /\ SnapshotsOff /\ FilesOff /\ TypingOff
  /\ LinksOff /\ timers = None /\ events = None /\ answers = None /\ calls = None
  /\ phase = None /\ shown = None /\ failed = None
ListAlone ==
  /\ part = "list" /\ ChatOff /\ UpdateOff /\ StatusOff /\ GitOff /\ ResumeOff
  /\ SettingsOff /\ ResizeOff /\ SnapshotsOff /\ FilesOff /\ TypingOff /\ LinksOff
  /\ gui = None /\ fails = None /\ timers = None /\ events = None /\ answers = None
  /\ calls = None /\ phase = None /\ shown = None /\ failed = None
ChatAlone ==
  /\ part = "chat" /\ ListOff /\ UpdateOff /\ StatusOff /\ GitOff /\ ResumeOff
  /\ SettingsOff /\ ResizeOff /\ SnapshotsOff /\ FilesOff /\ TypingOff /\ LinksOff
  /\ gui = None /\ fails = None /\ clicks = None /\ timers = None /\ events = None
  /\ answers = None /\ calls = None /\ phase = None /\ shown = None /\ failed = None
UpdateAlone ==
  /\ part = "update" /\ ListOff /\ ChatOff /\ StatusOff /\ GitOff /\ ResumeOff
  /\ SettingsOff /\ ResizeOff /\ SnapshotsOff /\ FilesOff /\ TypingOff /\ LinksOff
  /\ gui = None /\ fails = None /\ timers = None /\ events = None /\ answers = None
  /\ calls = None /\ phase = None /\ shown = None /\ failed = None
StatusAlone ==
  /\ part = "status" /\ ListOff /\ ChatOff /\ UpdateOff /\ GitOff /\ ResumeOff
  /\ SettingsOff /\ ResizeOff /\ SnapshotsOff /\ FilesOff /\ TypingOff /\ LinksOff
  /\ gui = None /\ fails = None /\ clicks = None /\ answers = None /\ calls = None
  /\ phase = None /\ shown = None /\ failed = None
GitAlone ==
  /\ part = "git" /\ ListOff /\ ChatOff /\ UpdateOff /\ StatusOff /\ ResumeOff
  /\ SettingsOff /\ ResizeOff /\ SnapshotsOff /\ FilesOff /\ TypingOff /\ LinksOff
  /\ gui = None /\ fails = None /\ clicks = None /\ timers = None /\ calls = None
  /\ phase = None /\ shown = None /\ failed = None
ResumeAlone ==
  /\ part = "resume" /\ ListOff /\ ChatOff /\ UpdateOff /\ StatusOff /\ GitOff
  /\ SettingsOff /\ ResizeOff /\ SnapshotsOff /\ FilesOff /\ TypingOff /\ LinksOff
  /\ fails = None /\ clicks = None /\ timers = None /\ answers = None /\ calls = None
  /\ phase = None /\ shown = None /\ failed = None
PrefsAlone ==
  /\ part = "settings" /\ ListOff /\ ChatOff /\ UpdateOff /\ StatusOff /\ GitOff
  /\ ResumeOff /\ ResizeOff /\ SnapshotsOff /\ FilesOff /\ TypingOff /\ LinksOff
  /\ gui = None /\ timers = None
ResizeAlone ==
  /\ part = "resize" /\ ListOff /\ ChatOff /\ UpdateOff /\ StatusOff /\ GitOff
  /\ ResumeOff /\ SettingsOff /\ SnapshotsOff /\ FilesOff /\ TypingOff /\ LinksOff
  /\ gui = None /\ fails = None /\ clicks = None /\ timers = None /\ events = None
  /\ answers = None /\ calls = None /\ phase = None /\ shown = None /\ failed = None
SnapsAlone ==
  /\ part = "snapshots" /\ ListOff /\ ChatOff /\ UpdateOff /\ StatusOff /\ GitOff
  /\ ResumeOff /\ SettingsOff /\ ResizeOff /\ FilesOff /\ TypingOff /\ LinksOff
  /\ gui = None /\ clicks = None /\ timers = None /\ answers = None /\ shown = None
FilesAlone ==
  /\ part = "files" /\ ListOff /\ ChatOff /\ UpdateOff /\ StatusOff /\ GitOff
  /\ ResumeOff /\ SettingsOff /\ ResizeOff /\ SnapshotsOff /\ TypingOff /\ LinksOff
  /\ gui = None /\ timers = None /\ events = None /\ answers = None /\ calls = None
  /\ phase = None /\ failed = None
TypingAlone ==
  /\ part = "typing" /\ ListOff /\ ChatOff /\ UpdateOff /\ StatusOff /\ GitOff
  /\ ResumeOff /\ SettingsOff /\ ResizeOff /\ SnapshotsOff /\ FilesOff /\ LinksOff
  /\ gui = None /\ fails = None /\ clicks = None /\ events = None /\ answers = None
  /\ calls = None /\ phase = None /\ shown = None /\ failed = None
LinksAlone ==
  /\ part = "links" /\ ListOff /\ ChatOff /\ UpdateOff /\ StatusOff /\ GitOff
  /\ ResumeOff /\ SettingsOff /\ ResizeOff /\ SnapshotsOff /\ FilesOff /\ TypingOff
  /\ gui = None /\ fails = None /\ clicks = None /\ timers = None /\ events = None
  /\ answers = None /\ calls = None /\ phase = None /\ shown = None /\ failed = None

Init ==
  \/ Hosts!Init /\ HostsAlone
  \/ Hosts!List!Init /\ ListAlone
  \/ Chat!Init /\ ChatAlone
  \/ Update!Init /\ UpdateAlone
  \/ Status!Init /\ StatusAlone
  \/ Git!Init /\ GitAlone
  \/ Resume!Init /\ ResumeAlone
  \/ Prefs!Init /\ PrefsAlone
  \/ Terminal!Init /\ ResizeAlone
  \/ Snaps!Init /\ SnapsAlone
  \/ Hosts!Files!Init /\ FilesAlone
  \/ Terminal!Typing!Init /\ TypingAlone
  \/ Terminal!Links!Init /\ LinksAlone

HostsNext ==
  /\ part = "hosts" /\ Hosts!Next
  /\ UNCHANGED <<part, timers, events, answers, calls, phase, shown, failed, listOnly,
                 chatOnly, updateOnly, statusOnly, gitOnly, resumeOnly, settingsOnly,
                 resizeOnly, snapshotsOnly, filesOnly, typingOnly, linksOnly>>
ListNext ==
  /\ part = "list" /\ Hosts!List!Next
  /\ UNCHANGED <<part, gui, fails, timers, events, answers, calls, phase, shown, failed,
                 chatOnly, updateOnly, statusOnly, gitOnly, resumeOnly, settingsOnly,
                 resizeOnly, snapshotsOnly, filesOnly, typingOnly, linksOnly>>
ChatNext ==
  /\ part = "chat" /\ Chat!Next
  /\ UNCHANGED <<part, gui, fails, clicks, timers, events, answers, calls, phase, shown,
                 failed, listOnly, updateOnly, statusOnly, gitOnly, resumeOnly,
                 settingsOnly, resizeOnly, snapshotsOnly, filesOnly, typingOnly,
                 linksOnly>>
UpdateNext ==
  /\ part = "update" /\ Update!Next
  /\ UNCHANGED <<part, gui, fails, timers, events, answers, calls, phase, shown, failed,
                 listOnly, chatOnly, statusOnly, gitOnly, resumeOnly, settingsOnly,
                 resizeOnly, snapshotsOnly, filesOnly, typingOnly, linksOnly>>
StatusNext ==
  /\ part = "status" /\ Status!Next
  /\ UNCHANGED <<part, gui, fails, clicks, answers, calls, phase, shown, failed,
                 listOnly, chatOnly, updateOnly, gitOnly, resumeOnly, settingsOnly,
                 resizeOnly, snapshotsOnly, filesOnly, typingOnly, linksOnly>>
GitNext ==
  /\ part = "git" /\ Git!Next
  /\ UNCHANGED <<part, gui, fails, clicks, timers, calls, phase, shown, failed,
                 listOnly, chatOnly, updateOnly, statusOnly, resumeOnly, settingsOnly,
                 resizeOnly, snapshotsOnly, filesOnly, typingOnly, linksOnly>>
ResumeNext ==
  /\ part = "resume" /\ Resume!Next
  /\ UNCHANGED <<part, fails, clicks, timers, answers, calls, phase, shown, failed,
                 listOnly, chatOnly, updateOnly, statusOnly, gitOnly, settingsOnly,
                 resizeOnly, snapshotsOnly, filesOnly, typingOnly, linksOnly>>
PrefsNext ==
  /\ part = "settings" /\ Prefs!Next
  /\ UNCHANGED <<part, gui, timers, listOnly, chatOnly, updateOnly, statusOnly, gitOnly,
                 resumeOnly, resizeOnly, snapshotsOnly, filesOnly, typingOnly, linksOnly>>
ResizeNext ==
  /\ part = "resize" /\ Terminal!Next
  /\ UNCHANGED <<part, gui, fails, clicks, timers, events, answers, calls, phase, shown,
                 failed, listOnly, chatOnly, updateOnly, statusOnly, gitOnly,
                 resumeOnly, settingsOnly, snapshotsOnly, filesOnly, typingOnly,
                 linksOnly>>
SnapsNext ==
  /\ part = "snapshots" /\ Snaps!Next
  /\ UNCHANGED <<part, gui, clicks, timers, answers, shown, listOnly, chatOnly,
                 updateOnly, statusOnly, gitOnly, resumeOnly, settingsOnly, resizeOnly,
                 filesOnly, typingOnly, linksOnly>>
FilesNext ==
  /\ part = "files" /\ Hosts!Files!Next
  /\ UNCHANGED <<part, gui, timers, events, answers, calls, phase, failed, listOnly,
                 chatOnly, updateOnly, statusOnly, gitOnly, resumeOnly, settingsOnly,
                 resizeOnly, snapshotsOnly, typingOnly, linksOnly>>
TypingNext ==
  /\ part = "typing" /\ Terminal!Typing!Next
  /\ UNCHANGED <<part, gui, fails, clicks, events, answers, calls, phase, shown, failed,
                 listOnly, chatOnly, updateOnly, statusOnly, gitOnly, resumeOnly,
                 settingsOnly, resizeOnly, snapshotsOnly, filesOnly, linksOnly>>
LinksNext ==
  /\ part = "links" /\ Terminal!Links!Next
  /\ UNCHANGED <<part, gui, fails, clicks, timers, events, answers, calls, phase, shown,
                 failed, listOnly, chatOnly, updateOnly, statusOnly, gitOnly,
                 resumeOnly, settingsOnly, resizeOnly, snapshotsOnly, filesOnly,
                 typingOnly>>

Next ==
  \/ HostsNext \/ ListNext \/ ChatNext \/ UpdateNext \/ StatusNext
  \/ GitNext \/ ResumeNext \/ PrefsNext \/ ResizeNext \/ SnapsNext
  \/ FilesNext \/ TypingNext \/ LinksNext

\* What the parts' own fairness says, for a behaviour of the part.
Fairness ==
  /\ \A h \in Host : WF_<<gui, fails, clicks>>(part = "hosts" /\ Hosts!Await(h))
  /\ WF_<<gui, fails, clicks>>(part = "hosts" /\ \E c \in gui.closing : Hosts!Closed(c))
  /\ \A step \in {"cancel", "control", "command"} :
       WF_chatOnly(part = "chat" /\ CASE step = "cancel" -> Chat!CancelArrives
                                      [] step = "control" -> Chat!ControlTaken
                                      [] step = "command" -> Chat!CommandEnds)
  /\ WF_updateOnly(part = "update" /\ Update!Returns)
  /\ WF_updateOnly(part = "update" /\ Update!AutoCheck)
  /\ WF_<<statusOnly, events>>(part = "status" /\ Status!Tick)
  /\ WF_<<statusOnly, events>>(part = "status" /\ \E t \in timeouts : Status!IdleCheck(t))

Spec == Init /\ [][Next]_vars /\ Fairness

-----------------------------------------------------------------------------
(* The properties of the parts; their modules say what they mean.          *)

\* Every variable of a part has its type.
TypesOK ==
  /\ part = "hosts" => Hosts!TypeOK
  /\ part = "list" => Hosts!List!TypeOK
  /\ part = "chat" => Chat!TypeOK
  /\ part = "update" => Update!TypeOK
  /\ part = "status" => Status!TypeOK
  /\ part = "git" => Git!TypeOK
  /\ part = "resume" => Resume!TypeOK
  /\ part = "settings" => Prefs!TypeOK
  /\ part = "resize" => Terminal!TypeOK
  /\ part = "snapshots" => Snaps!TypeOK
  /\ part = "files" => Hosts!Files!TypeOK
  /\ part = "typing" => Terminal!Typing!TypeOK
  /\ part = "links" => Terminal!Links!TypeOK

\* One machine is attached through one host at a time; a host that was paused or
\* removed is not connected, and a removed one not listed, once nothing of it is
\* under way (RemoteHosts).  The list shows what its hosts store, less what is being
\* deleted, and the active workspace is in it (WorkspaceList).
HostsAgree ==
  /\ part = "hosts" => Hosts!OneHostPerDevice /\ Hosts!StoppedIsStopped
  /\ part = "list" => Hosts!List!ListIsStored

\* Each tool call of the model is answered before the model is asked again, and
\* only what the user agreed to runs (AiChat).
CallsAnswered == part = "chat" => Chat!CallsAnswered

\* What the dialog offers to install is there, whole, and newer (Updater).
ReadyIsInstallable == part = "update" => Update!ReadyIsInstallable

\* The marks of activity follow the panes' output and go with the panes
\* (AgentStatus).
ActivityTracksOutput == part = "status" => Status!ActivityTracksOutput

\* The panel comes to show the repository of the active pane, and the diff of the
\* file that is open (GitPanel).
PanelSettles == part = "git" => Git!PanelSettles /\ Git!DiffOfFile

\* A resume command is typed once, into a shell that was spawned for it, and a
\* closed window has remembered the directory and the agent (AgentResume).
ResumedAsLeft == part = "resume" => Resume!ResumedOnce /\ Resume!Remembered

\* What is on disk is what the program has: at rest config.json, the settings in
\* memory and the terminals' theme agree (Settings), and a pane comes back with the
\* history that is known to be stored (Snapshots).
DiskAgrees ==
  /\ part = "settings" => Prefs!FileIsStore /\ Prefs!ShownIsStored
  /\ part = "snapshots" => Snaps!HistoryComesBack

\* At rest the PTY, its record and the controller's screen have one grid
\* (PaneResize).
GridsAgree == part = "resize" => Terminal!GridsAgree

\* A click leads where it seems to lead: what is underlined, what opens and what a
\* reader sees under the mouse is one link (TerminalLinks); a file tab shows what was
\* read on its own machine, whole, and no path of a remote pane is opened by this one:
\* by no call whose workspace kept its owner while the call waited (FileTabs).
ClicksLeadRight ==
  /\ part = "links" => Terminal!Links!LinkUnderMouse
  /\ part = "files" => Hosts!Files!FilesAreOwn

\* What was typed and committed reaches the PTY once and in order (Composition).
TypedOnce == part = "typing" => Terminal!Typing!TypedOnce

\* What AiChat's ProviderGoesOn says, for a behaviour of the part.
ProviderGoesOn ==
  \A at \in {"asking", "open"} :
    WF_chatOnly(/\ part = "chat" /\ stream.phase = at
                /\ CASE at = "asking" -> Chat!Answers \/ Chat!StreamEnds
                     [] at = "open" -> stream.flag /\ Chat!StreamEnds)

\* Work ends: wanted hosts come online once connections stop failing; the agent's
\* commands are worked off, and a stop that reaches a registered stream ends it if
\* the provider goes on at all; a check or download of an update ends, and quiet
\* panes stop being shown as executing.
GuiSettles ==
  /\ <>[](part = "hosts" => Hosts!WantedAreOnline)
  /\ (part = "chat" /\ ai.at \in {"control", "command"})
       ~> (part = "chat" => ai.at \in {"model", "user", "idle"})
  /\ ProviderGoesOn => ((part = "chat" /\ Chat!Stopping) ~> (part = "chat" => ~ai.sending))
  /\ []<>(part = "update" => up.state \notin {"checking", "downloading", "installing"})
  /\ <>[](part = "status" => active = {})
=============================================================================

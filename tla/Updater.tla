------------------------------ MODULE Updater ------------------------------
(***************************************************************************)
(* The self-update of the program (updater-store.ts, updater-deb.ts,       *)
(* updater-auto-check.ts, UpdateDialog.tsx and the subscription in         *)
(* App.tsx): look for a release, download and verify it, install it and    *)
(* restart.                                                                *)
(*                                                                         *)
(* `up` is the store and the dialog.  An await is a member of `waits`, and *)
(* the action named after it is what follows.  A release is its number.    *)
(***************************************************************************)
EXTENDS Naturals, FiniteSets

CONSTANTS
  None,
  MaxRelease,  \* bound: releases
  MaxClicks    \* bound: what the user does

UpdaterAssumption == MaxRelease \in Nat \ {0} /\ MaxClicks \in Nat /\ None \notin Nat

VARIABLES
  up,         \* the GUI
  waits,      \* what the store is waiting for
  installed,  \* the release that runs
  latest,     \* the newest release there is
  clicks

updaterVars == <<up, waits, installed, latest, clicks>>

Release == 1 .. MaxRelease

States == {"idle", "checking", "up-to-date", "available", "downloading", "ready",
           "installing", "error"}

UpdaterState ==
  [state : States, kind : {"appimage", "deb", "rpm"},
   shown : Release \cup {None},      \* manifest.version
   handle : Release \cup {None},     \* pendingUpdate
   loaded : BOOLEAN,                 \* its download has been verified
   path : Release \cup {None},       \* debDownloadedPath, debSignature
   manual : BOOLEAN,                 \* debManualPath
   background : BOOLEAN, auto : BOOLEAN, timer : BOOLEAN, dialog : BOOLEAN]

TypeOK ==
  /\ up \in UpdaterState
  /\ waits \subseteq {"kind", "check", "load", "fetch", "loadDeb", "install"}
  /\ installed \in Release /\ latest \in Release /\ clicks \in 0 .. MaxClicks

\* App.tsx: the dialog comes up for what needs the user.
Foreground(before, g) ==
  [g EXCEPT !.dialog = @ \/ (g.state = "available" /\ before # "available" /\ ~g.background)
                         \/ (g.state = "ready" /\ before # "ready")]

Becomes(g) == up' = Foreground(up.state, g)

Error(g) == [g EXCEPT !.state = "error"]

----------------------------------------------------------------------------
(* The store.                                                              *)

Reset(g) == [g EXCEPT !.path = None, !.manual = FALSE]

\* check, up to its first await.
Check(g, auto) ==
  /\ up' = Reset([g EXCEPT !.state = "checking", !.background = FALSE, !.auto = auto])
  /\ waits' = waits \cup {"kind"}

\* Faulty: a check may begin during a download.
MayCheckAgain == up.state \notin {"checking", "ready", "installing"}

MayCheck == up.state \notin {"checking", "downloading", "ready", "installing"}

\* The flavour is known and the old handle closed.
Kind ==
  /\ "kind" \in waits
  /\ waits' = (waits \ {"kind"}) \cup {"check"}
  /\ up' = [up EXCEPT !.handle = None, !.loaded = FALSE]
  /\ UNCHANGED <<installed, latest, clicks>>

\* startDownload: the new state, and what it waits for.
Downloading(g) ==
  IF g.kind = "rpm" THEN Error(g)
  ELSE Reset([g EXCEPT !.state = "downloading", !.background = TRUE])

Awaited(g) == CASE g.kind = "rpm" -> {} [] g.kind = "deb" -> {"fetch"} [] OTHER -> {"load"}

\* checkUpdate has answered: nothing newer, a release, or an error.  The setting
\* autoDownloadUpdates is read here.
Checked ==
  /\ "check" \in waits
  /\ \/ /\ Becomes([Error(up) EXCEPT !.handle = None])
        /\ waits' = waits \ {"check"}
     \/ /\ latest = installed
        /\ Becomes([up EXCEPT !.state = "up-to-date", !.shown = None])
        /\ waits' = waits \ {"check"}
     \/ /\ latest # installed
        /\ \E setting \in BOOLEAN :
             LET auto == up.auto /\ setting
                 g == [up EXCEPT !.state = "available", !.background = auto,
                                 !.shown = latest, !.handle = latest, !.loaded = FALSE]
             IN /\ Becomes(IF auto THEN Downloading(g) ELSE g)
                /\ waits' = (waits \ {"check"}) \cup (IF auto THEN Awaited(g) ELSE {})
  /\ UNCHANGED <<installed, latest, clicks>>

\* pendingUpdate.download, which verifies the signature before it resolves.
Loaded ==
  /\ "load" \in waits /\ waits' = waits \ {"load"}
  /\ \/ Becomes(Error(up))
     \/ Becomes([up EXCEPT !.state = "ready", !.loaded = up.handle # None])
  /\ UNCHANGED <<installed, latest, clicks>>

\* The manifest is fetched again; it is that of the newest release by now.
Fetched ==
  /\ "fetch" \in waits
  /\ \/ Becomes(Error(up)) /\ waits' = waits \ {"fetch"}
     \/ UNCHANGED up /\ waits' = (waits \ {"fetch"}) \cup {"loadDeb"}
  /\ UNCHANGED <<installed, latest, clicks>>

LoadedDeb ==
  /\ "loadDeb" \in waits /\ waits' = waits \ {"loadDeb"}
  /\ \/ Becomes(Error(up))
     \/ \E r \in Release : r <= latest /\ r >= up.shown
          /\ Becomes([up EXCEPT !.state = "ready", !.path = r])
  /\ UNCHANGED <<installed, latest, clicks>>

\* relaunch: installed and restarted, or left to the user, or failed.
Installed ==
  /\ "install" \in waits /\ waits' = waits \ {"install"}
  /\ \/ Becomes(Error(up)) /\ UNCHANGED installed
     \/ /\ up.kind = "deb"
        /\ Becomes([up EXCEPT !.state = "ready", !.manual = TRUE])
        /\ UNCHANGED installed
     \/ /\ installed' = IF up.kind = "deb" THEN up.path ELSE up.handle
        /\ up' = [up EXCEPT !.state = "idle", !.shown = None, !.handle = None,
                            !.loaded = FALSE, !.path = None, !.background = FALSE,
                            !.timer = TRUE, !.dialog = FALSE]
  /\ UNCHANGED <<latest, clicks>>

----------------------------------------------------------------------------
(* The user, and time.                                                     *)

Click == clicks < MaxClicks /\ clicks' = clicks + 1 /\ UNCHANGED <<installed, latest>>

\* scheduleAutoCheck, five seconds after the start.
AutoCheck ==
  /\ up.timer
  /\ LET g == [up EXCEPT !.timer = FALSE] IN
     IF MayCheck THEN Check(g, TRUE) ELSE up' = g /\ UNCHANGED waits
  /\ UNCHANGED <<installed, latest, clicks>>

\* The button in the settings, and Retry in the dialog.
UserCheck == Click /\ MayCheck /\ Check(up, FALSE)

StartDownload ==
  /\ Click /\ up.state = "available"
  /\ Becomes([Downloading(up) EXCEPT !.dialog = FALSE])
  /\ waits' = waits \cup Awaited(up)

Relaunch ==
  /\ Click /\ up.state = "ready" /\ ~up.manual
  /\ LET there == IF up.kind = "deb" THEN up.path # None ELSE up.handle # None IN
     /\ up' = IF there THEN [up EXCEPT !.state = "installing"] ELSE Error(up)
     /\ waits' = IF there THEN waits \cup {"install"} ELSE waits

Close == Click /\ up.dialog /\ up' = [up EXCEPT !.dialog = FALSE] /\ UNCHANGED waits

Released ==
  latest < MaxRelease /\ latest' = latest + 1 /\ UNCHANGED <<up, waits, installed, clicks>>

----------------------------------------------------------------------------

Init ==
  /\ \E kind \in {"appimage", "deb", "rpm"} :
       up = [state |-> "idle", kind |-> kind, shown |-> None, handle |-> None,
             loaded |-> FALSE, path |-> None, manual |-> FALSE, background |-> FALSE,
             auto |-> FALSE, timer |-> TRUE, dialog |-> FALSE]
  /\ waits = {} /\ installed = 1 /\ latest = 1 /\ clicks = 0

Returns == Kind \/ Checked \/ Loaded \/ Fetched \/ LoadedDeb \/ Installed

Next ==
  \/ Returns \/ AutoCheck \/ UserCheck \/ StartDownload \/ Relaunch \/ Close \/ Released

Fairness == WF_updaterVars(Returns) /\ WF_updaterVars(AutoCheck)

Spec == Init /\ [][Next]_updaterVars /\ Fairness

----------------------------------------------------------------------------
(* Properties.                                                             *)

\* What the user is offered to install is there and was verified, and nothing that
\* is still running can take it away: the automatic check, a check the user asked
\* for, and the end of an earlier download race for the same handle.  A package is
\* at least as new as what the dialog showed.  Nothing else is waited for meanwhile.
ReadyIsInstallable ==
  /\ up.state \in {"ready", "installing"} =>
       /\ up.kind # "rpm"
       /\ IF up.kind = "deb" THEN up.path # None /\ up.path >= up.shown
          ELSE up.loaded /\ up.handle = up.shown
       /\ waits = IF up.state = "installing" THEN {"install"} ELSE {}
  /\ up.state = "ready" /\ ~up.manual => up.shown # installed

\* The user is asked only about what needs an answer, and no state in which the
\* store works is its last.
WorkEnds == []<>(up.state \notin {"checking", "downloading", "installing"})
=============================================================================

------------------------------ MODULE Settings ------------------------------
(***************************************************************************)
(* The settings of the GUI and the copies they have: the store (kept in    *)
(* the web view's local storage, so it survives a restart), the JSON file  *)
(* that the user may edit or synchronise by other means, and the look of   *)
(* the open terminals.  The panel saves what the user changes, the window  *)
(* reloads the file whenever it gets the focus, and both go through        *)
(* commands that the backend takes one after the other                     *)
(* (src/src/lib/config.ts, src/src/components/SettingsPanel.tsx,           *)
(* src/src/App.tsx, src/src/lib/terminal-manager.ts).                      *)
(*                                                                         *)
(* Four settings stand for the many: the theme (no range, saved by the     *)
(* panel's effect, shown by the terminals), the scrollback lines (a range, *)
(* typed through a draft), the updater's proxy (saved by the update tab    *)
(* itself), and the alert sound (in the store only).                       *)
(***************************************************************************)
EXTENDS Integers, Sequences

CONSTANTS Theme, DefaultTheme,   \* the themes the program knows
          Proxy, DefaultProxy,
          Bad, Blank,            \* a file that is not JSON, an empty or missing one
          Edited,                \* what the user may write into the file by hand
          MaxClicks, MaxEvents, MaxFails,
          None

VARIABLES store,      \* the settings in memory and in local storage
          disk,       \* the contents of config.json
          calls,      \* commands on their way to the backend
          answers,    \* what read_config returned, on its way back
          phase,      \* "boot", "loading", "loaded", "painting", "ready"
          panel,      \* None, or the open panel: its draft and what its effect saw
          token,      \* applyAppearanceToken
          loads,      \* applications of the appearance that wait for the font
          shown,      \* the theme of the open terminals, None before the first
          clicks, events, fails,
          unread,     \* the file was edited by hand since it was last read
          failed,     \* a command failed since the last write that succeeded
          crossed     \* the user changed a setting while the file was being read, or
                      \* an edit by hand was read while an earlier reload was unfinished

vars == <<store, disk, calls, answers, phase, panel, token, loads, shown,
          clicks, events, fails, unread, failed, crossed>>

Unlimited == 0
MinLines == 2
MostLines == 4
DefaultLines == 3

Lines == {Unlimited} \cup MinLines..MostLines
Config == [theme : Theme, lines : Lines, proxy : Proxy]

SettingsAssumption ==
  /\ DefaultTheme \in Theme /\ DefaultProxy \in Proxy
  /\ MaxClicks \in Nat /\ MaxEvents \in Nat /\ MaxFails \in Nat
  /\ Bad # Blank /\ {Bad, Blank} \cap Config = {}
  /\ \A text \in Edited \ {Bad, Blank} : text.lines \in Int
  /\ None \notin Theme \cup [draft : Lines, seen : [theme : Theme, lines : Lines]]

(***************************************************************************)
(* The file.                                                               *)
(***************************************************************************)
Clamp(n) == IF n < MinLines THEN MinLines ELSE IF n > MostLines THEN MostLines ELSE n

\* Faulty: only numbers above the largest are out of range.
clampAbove(n) == IF n > MostLines THEN MostLines ELSE n

clampScrollback(n) == IF n = Unlimited THEN Unlimited ELSE Clamp(n)

configFromStore(s) == [theme |-> s.theme, lines |-> s.lines, proxy |-> s.proxy]

\* Unknown values fall back to the defaults, numbers are clamped.
parseConfig(text) ==
  [theme |-> IF text.theme \in Theme THEN text.theme ELSE DefaultTheme,
   lines |-> clampScrollback(text.lines),
   proxy |-> IF text.proxy \in Proxy THEN text.proxy ELSE DefaultProxy]

Parses(text) == text \notin {Bad, Blank}

applyConfigToStore(cfg) ==
  [store EXCEPT !.theme = cfg.theme, !.lines = cfg.lines, !.proxy = cfg.proxy]

\* The settings whose change makes the panel's effect run.
Watched(s) == [theme |-> s.theme, lines |-> s.lines]

readConfig(why) == [cmd |-> "read", why |-> why]

writeConfig(s) == [cmd |-> "write", text |-> configFromStore(s)]

\* A reload is still to be applied, or the write that it led to is behind a read.
Unfinished == answers # <<>> \/ \E k \in 2..Len(calls) : calls[k].cmd = "write"

Reading == answers # <<>> \/ \E k \in 1..Len(calls) : calls[k].cmd = "read"

applyAppearance(s) ==
  /\ token' = token + 1
  /\ loads' = loads \cup {[token |-> token + 1, theme |-> s.theme]}

LookUnchanged == UNCHANGED <<token, loads, shown>>

-----------------------------------------------------------------------------
Defaults == [theme |-> DefaultTheme, lines |-> DefaultLines, proxy |-> DefaultProxy]

Init ==
  /\ store = [theme |-> DefaultTheme, lines |-> DefaultLines,
              proxy |-> DefaultProxy, sound |-> TRUE]
  /\ disk \in {Blank, Defaults}
  /\ calls = <<>> /\ answers = <<>>
  /\ phase = "boot"
  /\ panel = None
  /\ token = 0 /\ loads = {} /\ shown = None
  /\ clicks = 0 /\ events = 0 /\ fails = 0
  /\ unread = FALSE /\ failed = FALSE /\ crossed = FALSE

(***************************************************************************)
(* Startup: the file, then the appearance, then the user interface.        *)
(***************************************************************************)
Boot ==
  /\ phase = "boot"
  /\ phase' = "loading"
  /\ calls' = Append(calls, readConfig("start"))
  /\ UNCHANGED <<store, disk, answers, panel, clicks, events, fails, unread,
                 failed, crossed>>
  /\ LookUnchanged

Paint ==
  /\ phase = "loaded"
  /\ phase' = "painting"
  /\ applyAppearance(store)
  /\ UNCHANGED <<store, disk, calls, answers, panel, shown, clicks, events, fails,
                 unread, failed, crossed>>

\* The font of one application is there: a newer application wins; at startup
\* the first terminals open with the settings of the moment.
FontLoaded(l) ==
  /\ l \in loads
  /\ loads' = loads \ {l}
  /\ IF phase = "painting"
     THEN phase' = "ready" /\ shown' = store.theme
     ELSE /\ shown' = IF l.token = token THEN l.theme ELSE shown
          /\ UNCHANGED phase
  /\ UNCHANGED <<store, disk, calls, answers, panel, token, clicks, events, fails,
                 unread, failed, crossed>>

(***************************************************************************)
(* The backend runs one command after the other; each may fail.            *)
(***************************************************************************)
RunRead ==
  /\ calls # <<>> /\ Head(calls).cmd = "read"
  /\ calls' = Tail(calls)
  /\ \E works \in BOOLEAN :
       /\ answers' = Append(answers, [why |-> Head(calls).why, works |-> works,
                                      text |-> IF works THEN disk ELSE Blank])
       /\ works \/ fails < MaxFails
       /\ fails' = IF works THEN fails ELSE fails + 1
       /\ failed' = (failed \/ ~works)
       /\ unread' = (unread /\ ~works)
       /\ crossed' = (crossed \/ (works /\ unread /\ Unfinished))
  /\ UNCHANGED <<store, disk, phase, panel, clicks, events>>
  /\ LookUnchanged

RunWrite ==
  /\ calls # <<>> /\ Head(calls).cmd = "write"
  /\ calls' = Tail(calls)
  /\ \/ disk' = Head(calls).text /\ failed' = FALSE /\ unread' = FALSE /\ UNCHANGED fails
     \/ /\ fails < MaxFails
        /\ fails' = fails + 1 /\ failed' = TRUE
        /\ UNCHANGED <<disk, unread>>
  /\ UNCHANGED <<store, answers, phase, panel, clicks, events, crossed>>
  /\ LookUnchanged

(***************************************************************************)
(* loadConfigFromDisk, resumed with the contents of the file.  An empty    *)
(* file is seeded from the store; one that does not parse is ignored.  An  *)
(* open panel renders the new settings, and saves them, before anything    *)
(* else happens (its application of the appearance and the reload's are    *)
(* one here: they apply the same settings).                                *)
(***************************************************************************)
Loaded ==
  /\ answers # <<>>
  /\ answers' = Tail(answers)
  /\ LET answer == Head(answers)
         changed == answer.works /\ Parses(answer.text)
         new == IF changed THEN applyConfigToStore(parseConfig(answer.text)) ELSE store
         seen == panel # None /\ panel.seen # Watched(new)
     IN  /\ store' = new
         /\ panel' = IF seen THEN [panel EXCEPT !.seen = Watched(new)] ELSE panel
         /\ calls' = IF seen \/ (answer.works /\ answer.text = Blank)
                     THEN Append(calls, writeConfig(new)) ELSE calls
         /\ phase' = IF answer.why = "start" THEN "loaded" ELSE phase
         /\ IF changed /\ answer.why = "focus"
            THEN applyAppearance(new) ELSE UNCHANGED <<token, loads>>
  /\ UNCHANGED <<disk, shown, clicks, events, fails, unread, failed, crossed>>

Focus ==
  /\ phase = "ready"
  /\ events < MaxEvents
  /\ events' = events + 1
  /\ calls' = Append(calls, readConfig("focus"))
  /\ crossed' = (crossed /\ Reading)
  /\ UNCHANGED <<store, disk, answers, phase, panel, clicks, fails, unread, failed>>
  /\ LookUnchanged

\* The user edits the file, or a synchronisation replaces it.
EditFile(text) ==
  /\ events < MaxEvents
  /\ events' = events + 1
  /\ disk' = text
  /\ unread' = TRUE
  /\ UNCHANGED <<store, calls, answers, phase, panel, clicks, fails, failed, crossed>>
  /\ LookUnchanged

\* The program ends and starts again: local storage keeps the store.
Restart ==
  /\ phase = "ready"
  /\ events < MaxEvents
  /\ events' = events + 1
  /\ phase' = "boot"
  /\ calls' = <<>> /\ answers' = <<>>
  /\ panel' = None
  /\ token' = 0 /\ loads' = {} /\ shown' = None
  /\ crossed' = FALSE
  /\ UNCHANGED <<store, disk, clicks, fails, unread, failed>>

(***************************************************************************)
(* The panel.  Its effect runs on the first rendering, when it only        *)
(* applies the appearance, and whenever a watched setting has changed.     *)
(***************************************************************************)
OpenPanel ==
  /\ phase = "ready" /\ panel = None
  /\ clicks < MaxClicks
  /\ clicks' = clicks + 1
  /\ panel' = [draft |-> store.lines, seen |-> Watched(store)]
  /\ applyAppearance(store)
  /\ UNCHANGED <<store, disk, calls, answers, phase, shown, events, fails, unread,
                 failed, crossed>>

ClosePanel ==
  /\ panel # None
  /\ panel' = None
  /\ UNCHANGED <<store, disk, calls, answers, phase, clicks, events, fails, unread,
                 failed, crossed>>
  /\ LookUnchanged

\* What the user changes is rendered, and the effect run, before the next event.
Changes(new, draft) ==
  /\ panel # None
  /\ clicks < MaxClicks
  /\ clicks' = clicks + 1
  /\ store' = new
  /\ panel' = [draft |-> draft, seen |-> Watched(new)]
  /\ crossed' = (crossed \/ (Reading /\ configFromStore(new) # configFromStore(store)))
  /\ IF panel.seen # Watched(new)
     THEN calls' = Append(calls, writeConfig(new)) /\ applyAppearance(new)
     ELSE UNCHANGED <<calls, token, loads>>
  /\ UNCHANGED <<disk, answers, phase, shown, events, fails, unread, failed>>

setTheme(t) == t # store.theme /\ Changes([store EXCEPT !.theme = t], panel.draft)

setAlertSound == Changes([store EXCEPT !.sound = ~@], panel.draft)

\* The field is left or Enter pressed: an empty draft is the number zero.
commitScrollbackDraft(typed) ==
  /\ store.lines # Unlimited
  /\ Changes([store EXCEPT !.lines = Clamp(typed)], Clamp(typed))

toggleUnlimited ==
  LET n == IF panel.draft = 0 THEN DefaultLines ELSE panel.draft
  IN  IF store.lines = Unlimited
      THEN Changes([store EXCEPT !.lines = clampScrollback(n)], n)
      ELSE Changes([store EXCEPT !.lines = Unlimited], panel.draft)

\* The update tab saves for itself; the effect does not watch its fields.
setUpdateHttpProxy(p) ==
  /\ panel # None
  /\ clicks < MaxClicks
  /\ clicks' = clicks + 1
  /\ p # store.proxy
  /\ store' = [store EXCEPT !.proxy = p]
  /\ calls' = Append(calls, writeConfig(store'))
  /\ crossed' = (crossed \/ Reading)
  /\ UNCHANGED <<disk, answers, phase, panel, events, fails, unread, failed>>
  /\ LookUnchanged

Typed == {0, 1, 4}

Next ==
  \/ Boot \/ Paint \/ RunRead \/ RunWrite \/ Loaded \/ Focus \/ Restart
  \/ \E l \in loads : FontLoaded(l)
  \/ \E text \in Edited : EditFile(text)
  \/ OpenPanel \/ ClosePanel
  \/ \E t \in Theme : setTheme(t)
  \/ \E n \in Typed : commitScrollbackDraft(n)
  \/ \E p \in Proxy : setUpdateHttpProxy(p)
  \/ (panel # None /\ (setAlertSound \/ toggleUnlimited))

Spec == Init /\ [][Next]_vars

-----------------------------------------------------------------------------
TypeOK ==
  /\ configFromStore(store) \in Config /\ store.sound \in BOOLEAN
  /\ disk \in {Bad, Blank} \cup Config \cup Edited
  /\ phase \in {"boot", "loading", "loaded", "painting", "ready"}
  /\ shown \in Theme \cup {None}
  /\ (shown # None) = (phase = "ready")
  /\ \A l \in loads : l.token \in 1..token /\ l.theme \in Theme

Quiet == phase = "ready" /\ calls = <<>> /\ answers = <<>>

\* Once nothing is under way, what the file means is what the program uses, in
\* every setting the file holds: whichever of the panel, the update tab and the
\* reloads wrote last, unless the file was edited by hand since it was read, a
\* command failed, the user changed a setting while the file was being read, or an
\* edit by hand was read before an earlier reload had finished, whose write then
\* replaces it (App.tsx reload, SettingsPanel.tsx effect and update tab, config.ts).
FileIsStore ==
  Quiet /\ Parses(disk) /\ ~unread /\ ~failed /\ ~crossed =>
    parseConfig(disk) = configFromStore(store)

\* Once nothing is under way the open terminals show the theme of the store:
\* of two applications whose fonts load at different speeds the later one wins,
\* and a reload reaches the terminals too (terminal-manager.ts applyAppearance).
ShownIsStored ==
  Quiet /\ loads = {} => shown = store.theme

\* Claimed by src/src/components/SettingsPanel.tsx:71 ("All changes apply live ...
\* and are written to the on-disk JSON config"): with nothing under way and no
\* edit by hand or failure, the file holds what the program uses.
ChangesAreWritten ==
  Quiet /\ Parses(disk) /\ ~unread /\ ~failed =>
    parseConfig(disk) = configFromStore(store)

=============================================================================

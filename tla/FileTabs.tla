------------------------------ MODULE FileTabs -------------------------------
(***************************************************************************)
(* The files a user opens by a click on a path in a terminal               *)
(* (src/src/lib/file-link.ts), the requests that probe and read them on    *)
(* the machine of the workspace (src/src/lib/file-reader.ts), and the      *)
(* texts the viewer keeps by tab (src/src/stores/viewer-store.ts,          *)
(* src/src/components/FileViewer.tsx).                                     *)
(*                                                                         *)
(* Two workspaces: `near` is of the GUI's machine, `far` of a remote host  *)
(* that loses its connection, is removed and is added again; `far` itself  *)
(* is deleted, here or by another client.  A file has the same name on     *)
(* both machines.  Every await is a step of its own; a call keeps the      *)
(* workspace's id and asks again, after the await, whether that workspace  *)
(* is remote.                                                              *)
(***************************************************************************)
EXTENDS Naturals, Sequences

CONSTANTS
  Path, Viewable,      \* what a token may name; the paths the viewer shows
  Chunks,              \* the versions of a file: their lengths in chunks
  MaxTabs, MaxClicks, MaxFails,   \* bounds
  None

FilesAssumption ==
  /\ Viewable \subseteq Path /\ Chunks \in Seq(Nat) /\ Chunks # <<>>
  /\ {MaxTabs, MaxClicks, MaxFails} \subseteq Nat
  /\ None \notin Nat \cup {"near", "far"} \cup [ws : {"near", "far"}, path : Path]
  /\ None \notin Seq({"near", "far"} \X Nat)
  /\ None \notin [is : {"loading", "error", "text"}, text : {None} \cup Seq({"near", "far"} \X Nat),
                   stray : BOOLEAN]

VARIABLES
  net,      \* workspace-sync.ts: the far host's connection, whether its workspace
            \* is kept by the agent, listed in the store, in owners and being
            \* deleted by the user, and remoteHomes of file-link.ts
  version,  \* of the file, on both machines alike
  tabs,     \* the file tabs minted so far: their workspace and path, None once closed
  shown,    \* the tab whose FileViewer is mounted
  texts,    \* viewer-store's files, by tab
  links,    \* calls of handleClickedToken
  reads,    \* calls of readTextFile
            \* both `stray` once the owner of their workspace was deleted under them
  opened,   \* <<workspace, stray>> of the paths handed to the GUI machine's OS
  clicks, fails

vars == <<net, version, tabs, shown, texts, links, reads, opened, clicks, fails>>

Work == {"near", "far"}
TabIds == 1 .. MaxTabs
Chunk == Work \X DOMAIN Chunks       \* a piece of the file: its machine and version
Text == UNION {[1 .. n -> Chunk] : n \in {Chunks[v] : v \in DOMAIN Chunks}}

TypeOK ==
  /\ net \in [conn : {"up", "down", "closing", "gone"}, kept : BOOLEAN,
              listed : BOOLEAN, owned : BOOLEAN, removing : BOOLEAN, home : BOOLEAN]
  /\ version \in DOMAIN Chunks
  /\ Len(tabs) <= MaxTabs
  /\ \A t \in DOMAIN tabs : tabs[t] = None \/ tabs[t] \in [ws : Work, path : Viewable]
  /\ shown \in DOMAIN tabs \cup {None}
  /\ \A t \in DOMAIN texts :
       texts[t] = None \/ (texts[t].is \in {"loading", "error", "text"}
                           /\ (texts[t].is = "text" <=> texts[t].text # None))
  /\ links \subseteq [ws : Work, path : Path, at : {"home", "ask", "invoke"},
                      to : Work \cup {None}, n : 1 .. MaxClicks, stray : BOOLEAN]
  /\ \A r \in reads : r.tab \in DOMAIN tabs /\ r.at \in {"ask", "invoke"}
                     /\ r.to \in Work \cup {None} /\ r.n \in 1 .. MaxClicks
  /\ opened \subseteq Work \X BOOLEAN /\ clicks \in 0 .. MaxClicks /\ fails \in 0 .. MaxFails

-----------------------------------------------------------------------------
(* workspace-sync.ts                                                       *)

Listed == IF net.listed THEN Work ELSE {"near"}

\* An id without an owner counts as local.
isRemoteWorkspace(w) == w = "far" /\ net.owned

\* An id without an owner has the local agent's transport.
transportForWorkspace(w) ==
  CASE ~isRemoteWorkspace(w) -> "near"
    [] isRemoteWorkspace(w) /\ net.conn = "up" -> "far"
    [] OTHER -> None

-----------------------------------------------------------------------------
(* viewer-store.ts and file-reader.ts                                      *)

\* A request goes `to` a machine, to None once that connection is closed.
Reading(t, to) ==
  [tab |-> t, ws |-> tabs'[t].ws, at |-> "ask", to |-> to, text |-> <<>>, n |-> clicks',
   stray |-> FALSE]

\* A tab whose text was loaded, is being loaded or could not be loaded is left alone.
load(t) ==
  LET w == tabs'[t].ws
      to == transportForWorkspace(w) IN
  IF texts[t] # None THEN UNCHANGED <<texts, reads>>
  ELSE IF to = None
    THEN texts' = [texts EXCEPT ![t] = [is |-> "error", text |-> None, stray |-> FALSE]]
         /\ UNCHANGED reads
    ELSE texts' = [texts EXCEPT ![t] = [is |-> "loading", text |-> None, stray |-> FALSE]]
         /\ reads' = reads \cup {Reading(t, to)}

\* The result of a read, for a tab that was not dropped meanwhile.
Store(r, is, text) ==
  texts' = [texts EXCEPT ![r.tab] =
              IF @ = None THEN @ ELSE [is |-> is, text |-> text, stray |-> r.stray]]

drop(t) == texts' = [texts EXCEPT ![t] = None]

\* One chunk: the file may have changed since the last one.  Behind its end there is
\* nothing; an offset beyond it is refused.
ReadAnswer(r) ==
  /\ r \in reads /\ r.at = "ask" /\ r.to # None
  /\ LET v == version
         text == IF Len(r.text) < Chunks[v] THEN Append(r.text, <<r.to, v>>) ELSE r.text IN
     /\ Len(r.text) <= Chunks[v]
     /\ IF Len(text) = Chunks[v]
        THEN Store(r, "text", text) /\ reads' = reads \ {r}
        ELSE reads' = (reads \ {r}) \cup {[r EXCEPT !.text = text]} /\ UNCHANGED texts
  /\ UNCHANGED <<net, version, tabs, shown, links, opened, clicks, fails>>

\* Faulty: a read that failed is always tried on this machine.
ReadFailsOver(r) ==
  /\ r \in reads /\ r.at = "ask"
  /\ reads' = (reads \ {r}) \cup {[r EXCEPT !.at = "invoke", !.to = "near"]}
  /\ UNCHANGED <<net, version, tabs, shown, texts, links, opened, clicks, fails>>

\* A request fails, alone or with its connection: a local file is read once more by
\* the GUI's own backend, a remote one is not.
ReadFails(r) ==
  /\ r \in reads /\ r.at = "ask"
  /\ IF r.to = None THEN UNCHANGED fails
     ELSE IF Len(r.text) > Chunks[version] THEN UNCHANGED fails
     ELSE fails < MaxFails /\ fails' = fails + 1
  /\ IF isRemoteWorkspace(r.ws)
     THEN Store(r, "error", None) /\ reads' = reads \ {r}
     ELSE reads' = (reads \ {r}) \cup {[r EXCEPT !.at = "invoke", !.to = "near"]}
          /\ UNCHANGED texts
  /\ UNCHANGED <<net, version, tabs, shown, links, opened, clicks>>

\* The backend's read_text_file: the whole file, or an error.
InvokeAnswer(r, ok) ==
  /\ r \in reads /\ r.at = "invoke"
  /\ LET v == version IN
     IF ok THEN Store(r, "text", [i \in 1 .. Chunks[v] |-> <<"near", v>>])
           ELSE Store(r, "error", None)
  /\ reads' = reads \ {r}
  /\ UNCHANGED <<net, version, tabs, shown, links, opened, clicks, fails>>

-----------------------------------------------------------------------------
(* file-link.ts                                                            *)

\* pathIsFile from its call to its first await, or to its answer FALSE.
Probe(link) ==
  LET to == transportForWorkspace(link.ws) IN
  links' = (links \ {link}) \cup
    (IF to # None THEN {[link EXCEPT !.at = "ask", !.to = to]} ELSE {})

\* A click on a path, perhaps one that begins with ~: the far home is asked for once.
Click(w, path, tilde) ==
  LET link == [ws |-> w, path |-> path, at |-> "home", to |-> transportForWorkspace(w),
               n |-> clicks + 1, stray |-> FALSE] IN
  /\ w \in Listed /\ clicks < MaxClicks /\ clicks' = clicks + 1
  /\ IF tilde /\ isRemoteWorkspace(w) /\ ~net.home
     THEN links' = IF link.to # None THEN links \cup {link} ELSE links
     ELSE Probe(link)
  /\ UNCHANGED <<net, version, tabs, shown, texts, reads, opened, fails>>

HomeAnswer(l, ok) ==
  /\ l \in links /\ l.at = "home"
  /\ l.to = None => ~ok
  /\ net' = [net EXCEPT !.home = @ \/ ok]
  /\ IF ok THEN Probe(l) ELSE links' = links \ {l}
  /\ UNCHANGED <<version, tabs, shown, texts, reads, opened, clicks, fails>>

\* store.openFileTab: the tab of that path, or a new one, becomes its workspace's active
\* tab; its viewer is mounted if that workspace is still on screen.
openFileTab(w, path) ==
  LET old == {t \in DOMAIN tabs : tabs[t] = [ws |-> w, path |-> path]} IN
  IF w \notin Listed THEN UNCHANGED <<tabs, shown, texts, reads>>
  ELSE \E t \in IF old # {} THEN old ELSE {Len(tabs) + 1} \cap TabIds, onScreen \in BOOLEAN :
    /\ tabs' = IF old # {} THEN tabs ELSE Append(tabs, [ws |-> w, path |-> path])
    /\ IF onScreen THEN shown' = t /\ load(t) ELSE UNCHANGED <<shown, texts, reads>>

\* handleClickedToken once the path is known to be a file.
Found(l) ==
  /\ links' = links \ {l}
  /\ IF l.path \in Viewable
     THEN openFileTab(l.ws, l.path) /\ UNCHANGED opened
     ELSE /\ opened' = IF isRemoteWorkspace(l.ws) THEN opened ELSE opened \cup {<<l.ws, l.stray>>}
          /\ UNCHANGED <<tabs, shown, texts, reads>>

ProbeAnswer(l) ==
  /\ l \in links /\ l.at \in {"ask", "invoke"} /\ clicks' = clicks
  /\ l.at = "ask" => l.to # None
  /\ \/ Found(l)
     \/ links' = links \ {l} /\ UNCHANGED <<tabs, shown, texts, reads, opened>>
  /\ UNCHANGED <<net, version, fails>>

ProbeFails(l) ==
  /\ l \in links /\ l.at = "ask"
  /\ IF l.to = None THEN UNCHANGED fails
     ELSE fails < MaxFails /\ fails' = fails + 1
  /\ links' = (links \ {l}) \cup
       (IF isRemoteWorkspace(l.ws) THEN {} ELSE {[l EXCEPT !.at = "invoke", !.to = "near"]})
  /\ UNCHANGED <<net, version, tabs, shown, texts, reads, opened, clicks>>

-----------------------------------------------------------------------------
(* The tabs: TabBar.tsx, App.tsx, FileViewer.tsx                           *)

Open(t) == tabs[t] # None /\ tabs[t].ws \in Listed

\* The user goes to a file tab, or to something else.
Show(t) ==
  /\ t # shown /\ clicks < MaxClicks /\ clicks' = clicks + 1
  /\ shown' = t /\ tabs' = tabs
  /\ IF t = None THEN UNCHANGED <<texts, reads>> ELSE Open(t) /\ load(t)
  /\ UNCHANGED <<net, version, links, opened, fails>>

\* The text goes first, then the tab.
closeTab(t) ==
  /\ Open(t) /\ clicks < MaxClicks /\ clicks' = clicks + 1
  /\ drop(t)
  /\ tabs' = [tabs EXCEPT ![t] = None]
  /\ shown' = IF shown = t THEN None ELSE shown
  /\ UNCHANGED <<net, version, links, reads, opened, fails>>

\* The close shortcut drops the text of the tab on screen, also when that is the only
\* tab of the only workspace and stays.
closeCascade ==
  /\ shown # None /\ clicks < MaxClicks /\ clicks' = clicks + 1
  /\ drop(shown)
  /\ \/ tabs' = [tabs EXCEPT ![shown] = None] /\ shown' = None
     \/ Listed = {tabs[shown].ws} /\ (\A t \in DOMAIN tabs \ {shown} : ~Open(t))
        /\ UNCHANGED <<tabs, shown>>
  /\ UNCHANGED <<net, version, links, reads, opened, fails>>

-----------------------------------------------------------------------------
(* The far host and the files                                              *)

\* hosts.delete comes first: by an offline status, or by removeRemoteHost, which waits
\* for host_disconnect.  What was asked of the host is still to fail.
Disconnect(why) ==
  /\ net.conn = "up" /\ clicks < MaxClicks /\ clicks' = clicks + 1
  /\ net' = [net EXCEPT !.conn = why]
  /\ reads' = {IF r.to = "far" THEN [r EXCEPT !.to = None] ELSE r : r \in reads}
  /\ links' = {IF l.to = "far" THEN [l EXCEPT !.to = None] ELSE l : l \in links}
  /\ UNCHANGED <<version, tabs, shown, texts, opened, fails>>

\* owners.delete and sink.remove.  The viewer's texts stay.
Disowned(n) ==
  /\ net' = [n EXCEPT !.listed = FALSE, !.owned = FALSE]
  /\ reads' = {IF r.ws = "far" THEN [r EXCEPT !.stray = TRUE] ELSE r : r \in reads}
  /\ links' = {IF l.ws = "far" THEN [l EXCEPT !.stray = TRUE] ELSE l : l \in links}
  /\ shown' = IF shown # None /\ tabs[shown].ws = "far" THEN None ELSE shown

\* forgetRemoteWorkspaceHost after its await; what was asked of the host may not have
\* failed yet.
Forget ==
  /\ net.conn \in {"closing", "down"}
  /\ Disowned([net EXCEPT !.conn = "gone"])
  /\ UNCHANGED <<version, tabs, texts, opened, clicks, fails>>

\* The user deletes the far workspace: the store first, its owner with the answer.  One
\* deletion at a time.
removeWorkspace ==
  /\ net.listed /\ ~net.removing /\ clicks < MaxClicks /\ clicks' = clicks + 1
  /\ net' = [net EXCEPT !.listed = FALSE, !.removing = TRUE]
  /\ shown' = IF shown # None /\ tabs[shown].ws = "far" THEN None ELSE shown
  /\ UNCHANGED <<version, tabs, texts, links, reads, opened, fails>>

\* The answer, or workspace_removed, whoever deleted it; the host stays connected.
WorkspaceRemoved ==
  /\ net.conn = "up" /\ net.kept
  /\ Disowned([net EXCEPT !.kept = FALSE, !.removing = FALSE])
  /\ UNCHANGED <<version, tabs, texts, opened, clicks, fails>>

\* The deletion failed, here or with its connection.  rollbackWorkspace: it is listed
\* again if its document is still known, which is kept and deleted with its owner.
RemovalFails ==
  /\ net.removing /\ fails < MaxFails /\ fails' = fails + 1
  /\ net' = [net EXCEPT !.listed = @ \/ net.owned, !.removing = FALSE]
  /\ UNCHANGED <<version, tabs, shown, texts, links, reads, opened, clicks>>

\* Another client deletes it while the GUI is away.
RemovedAway ==
  /\ net.conn # "up" /\ net.kept /\ clicks < MaxClicks /\ clicks' = clicks + 1
  /\ net' = [net EXCEPT !.kept = FALSE]
  /\ UNCHANGED <<version, tabs, shown, texts, links, reads, opened, fails>>

\* The host is connected again, or added again: its workspace, with its tabs, is listed
\* if there is one; the owner of one that was deleted meanwhile is not.
Connect ==
  /\ net.conn \in {"down", "gone"} /\ clicks < MaxClicks /\ clicks' = clicks + 1
  /\ net' = [net EXCEPT !.conn = "up", !.listed = net.kept, !.owned = @ \/ net.kept]
  /\ shown' = IF ~net.kept /\ shown # None /\ tabs[shown].ws = "far" THEN None ELSE shown
  /\ UNCHANGED <<version, tabs, texts, links, reads, opened, fails>>

Edit ==
  /\ version + 1 \in DOMAIN Chunks
  /\ version' = version + 1
  /\ UNCHANGED <<net, tabs, shown, texts, links, reads, opened, clicks, fails>>

Init ==
  /\ net = [conn |-> "up", kept |-> TRUE, listed |-> TRUE, owned |-> TRUE,
            removing |-> FALSE, home |-> FALSE]
  /\ version = 1
  /\ tabs = <<>> /\ shown = None /\ texts = [t \in TabIds |-> None]
  /\ links = {} /\ reads = {} /\ opened = {}
  /\ clicks = 0 /\ fails = 0

Next ==
  \/ \E r \in reads : ReadAnswer(r) \/ ReadFails(r)
  \/ \E r \in reads, ok \in BOOLEAN : InvokeAnswer(r, ok)
  \/ \E w \in Work, path \in Path, tilde \in BOOLEAN : Click(w, path, tilde)
  \/ \E l \in links, ok \in BOOLEAN : HomeAnswer(l, ok)
  \/ \E l \in links : ProbeAnswer(l) \/ ProbeFails(l)
  \/ \E t \in DOMAIN tabs \cup {None} : Show(t)
  \/ \E t \in DOMAIN tabs : closeTab(t)
  \/ closeCascade
  \/ \E why \in {"down", "closing"} : Disconnect(why)
  \/ Forget \/ removeWorkspace \/ WorkspaceRemoved \/ RemovalFails \/ RemovedAway
  \/ Connect \/ Edit

Spec == Init /\ [][Next]_vars

-----------------------------------------------------------------------------
(* Properties                                                              *)

\* What a tab shows was read on the machine of its workspace, and no path of a remote
\* pane was opened by this machine (workspace-sync.ts:44-46, file-link.ts:89-92),
\* however often the host went, was removed and came back, and whoever deleted the
\* workspace: by no call that had not lost its workspace's owner while it waited.
OwnMachine ==
  /\ \A t \in DOMAIN tabs :
       tabs[t] # None /\ texts[t] # None /\ texts[t].is = "text" /\ ~texts[t].stray =>
         \A i \in DOMAIN texts[t].text : texts[t].text[i][1] = tabs[t].ws
  /\ <<"far", FALSE>> \notin opened

\* A tab that says "Loading" has a read under way; a text is never the beginning of a
\* file whose rest could not be read (file-reader.ts:45-47).
WholeTexts ==
  \A t \in TabIds : texts[t] # None =>
    /\ texts[t].is = "loading" => \E r \in reads : r.tab = t
    /\ texts[t].is = "text" =>
         \E v \in 1 .. version : Len(texts[t].text) = Chunks[v]

FilesAreOwn == OwnMachine /\ WholeTexts

(***************************************************************************)
(* Does not hold: file-link.ts:89-91 leaves a remote path untouched        *)
(* "instead of opening a same-named local file by accident", but a call    *)
(* whose workspace is deleted, or whose host is removed, while its probe   *)
(* is under way finds the id without an owner, which counts as local.      *)
(***************************************************************************)
FarNeverOpens == <<"far", TRUE>> \notin opened

(***************************************************************************)
(* Does not hold: viewer-store.ts:4-5 has the text re-read whenever a file *)
(* tab first renders, but the close shortcut on the only tab of the only   *)
(* workspace drops the text of a viewer that stays mounted, which shows    *)
(* "Loading" until the user leaves the tab and comes back.                 *)
(***************************************************************************)
ShownIsLoaded == shown # None => texts[shown] # None

(***************************************************************************)
(* Does not hold: viewer-store.ts:25-29 leaves alone "a tab that already   *)
(* has content (or is mid-load)", and the code also one whose read failed: *)
(* a tab that was opened while its host was offline shows that error until *)
(* it is closed, however often the host is reached and the tab activated.  *)
(***************************************************************************)
ErrorsAreRetried ==
  [][\A t \in TabIds : shown' = t /\ shown # t /\ texts[t] # None => texts[t].is # "error"]_vars
=============================================================================

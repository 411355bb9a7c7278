------------------------------ MODULE GitPanel ------------------------------
(***************************************************************************)
(* The source control panel (git-store.ts, git.ts, GitSidebar.tsx and what *)
(* refreshes it: App.tsx and the prompts that terminal-manager.ts sees).   *)
(*                                                                         *)
(* A directory is a path on a host; its status is the version of what is   *)
(* in it, and the files that version changes.  `git` is the GUI's state,   *)
(* an answer to come is a member of `answers`.                             *)
(***************************************************************************)
EXTENDS Naturals, Sequences, SequencesExt, FiniteSets

CONSTANTS
  Pane,
  HostOf,    \* the host a pane's workspace is on
  Path,      \* directories
  None,
  MaxEvents, \* bound: what the user and the shells do
  MaxLines   \* bound: lines of a diff of which the gutter is checked

GitAssumption ==
  /\ DOMAIN HostOf = Pane /\ Path # {} /\ MaxEvents \in Nat /\ MaxLines \in Nat
  /\ None \notin Nat \cup Path \cup Pane

VARIABLES
  shells,    \* the directory a pane's shell is in
  repos,     \* of each directory of a host, the version and the changed files
  git,       \* git-store and the panel's own state
  answers,   \* requests under way
  settle,    \* commandSettledTimer
  unseen,    \* a repository was changed by another program since the last focus
  events

gitVars == <<shells, repos, git, answers, settle, unseen, events>>

Files == {"f", "g"}

HostIds == {HostOf[p] : p \in Pane}

Place == [host : HostIds, path : Path]

Empty == [place |-> None, version |-> 0, files |-> {}]

TypeOK ==
  /\ shells \in [Pane -> Path]
  /\ \A d \in Place : repos[d].files \subseteq Files /\ repos[d].version <= MaxEvents
  /\ git.active \in Pane \cup {None} /\ git.open \in BOOLEAN /\ git.loading \in BOOLEAN
  /\ git.shown.place \in Place \cup {None} /\ git.openPath \in Files \cup {None}
  /\ \A a \in answers : a.kind \in {"cwd", "status", "diff"} /\ a.seq \in Nat
  /\ settle \in BOOLEAN /\ unseen \in BOOLEAN

Status(d) == [place |-> d, version |-> repos[d].version, files |-> repos[d].files]

Failure(d) == [place |-> d, version |-> None, files |-> {}]

----------------------------------------------------------------------------
(* git-store.ts and GitSidebar.tsx                                         *)

Collapse(g) == [g EXCEPT !.openPath = None, !.diff = None]

\* The panel's two effects: a diff is closed when the directory changes, and when
\* its file is no longer listed.
Shows(g, status) ==
  LET next == [g EXCEPT !.shown = status]
      path(x) == IF x.place = None THEN None ELSE x.place.path
  IN IF path(g.shown) # path(status) \/ g.openPath \notin status.files THEN Collapse(next)
     ELSE next

\* refresh, up to the call of getSessionCwd: the panel follows the pane in front.
refresh(g) ==
  IF ~g.open THEN g
  ELSE IF g.active = None
  THEN Shows([g EXCEPT !.seq = @ + 1, !.loading = FALSE], Empty)
  ELSE [g EXCEPT !.seq = @ + 1, !.loading = TRUE]

Request(kind, seq, place, file) == [kind |-> kind, seq |-> seq, place |-> place, file |-> file]

\* What refresh asks for in state g.
Requests(g) ==
  IF ~g.open \/ g.active = None THEN {}
  ELSE {[kind |-> "cwd", seq |-> refresh(g).seq, pane |-> g.active]}

\* Faulty: the answer of an earlier refresh is shown as well.
AnswerAny(a) ==
  /\ a \in answers /\ a.kind = "status"
  /\ answers' = answers \ {a}
  /\ git' = Shows([git EXCEPT !.loading = FALSE], Status(a.place))
  /\ UNCHANGED <<shells, repos, settle, unseen, events>>

\* getSessionCwd has answered, and git_status is asked for.
CwdAnswer(a) ==
  /\ a \in answers /\ a.kind = "cwd"
  /\ LET place == [host |-> HostOf[a.pane], path |-> shells[a.pane]] IN
     answers' = (answers \ {a}) \cup
       (IF a.seq # git.seq THEN {} ELSE {Request("status", a.seq, place, None)})
  /\ UNCHANGED <<shells, repos, git, settle, unseen, events>>

\* gitStatus has answered; what failed looks like a directory without a repository.
StatusAnswer(a) ==
  /\ a \in answers /\ a.kind = "status"
  /\ answers' = answers \ {a}
  /\ \E status \in {Status(a.place), Failure(a.place)} :
       git' = IF a.seq # git.seq THEN git
              ELSE Shows([git EXCEPT !.loading = FALSE], status)
  /\ UNCHANGED <<shells, repos, settle, unseen, events>>

DiffAnswer(a) ==
  /\ a \in answers /\ a.kind = "diff"
  /\ answers' = answers \ {a}
  /\ git' = IF a.seq # git.diffSeq THEN git
            ELSE [git EXCEPT !.diff = [of |-> a.place, file |-> a.file],
                             !.diffLoading = FALSE]
  /\ UNCHANGED <<shells, repos, settle, unseen, events>>

----------------------------------------------------------------------------
(* The user and the shells.                                                *)

Event == events < MaxEvents /\ events' = events + 1

\* The effect of App on the active pane.
SwitchTo(p) ==
  /\ Event /\ p # git.active
  /\ LET g == [git EXCEPT !.active = p] IN
     git' = refresh(g) /\ answers' = answers \cup Requests(g)
  /\ UNCHANGED <<shells, repos, settle, unseen>>

\* toggleOpen refreshes, and so does the effect of App.  The closed panel forgets
\* what was expanded in it.
ToggleOpen ==
  /\ Event
  /\ LET g == [git EXCEPT !.open = ~@]
         once == refresh(g)
     IN IF git.open
        THEN /\ git' = [Collapse(g) EXCEPT !.diffSeq = 0, !.diffLoading = FALSE]
             /\ answers' = {a \in answers : a.kind # "diff"}
        ELSE git' = refresh(once) /\ answers' = answers \cup Requests(g) \cup Requests(once)
  /\ UNCHANGED <<shells, repos, settle, unseen>>

ToggleFile(f) ==
  /\ Event /\ git.open /\ f \in git.shown.files
  /\ IF git.openPath = f THEN git' = Collapse(git) /\ UNCHANGED answers
     ELSE /\ git' = [git EXCEPT !.openPath = f, !.diff = None, !.diffSeq = @ + 1,
                                !.diffLoading = TRUE]
          /\ answers' = answers \cup {Request("diff", git.diffSeq + 1, git.shown.place, f)}
  /\ UNCHANGED <<shells, repos, settle, unseen>>

\* A command changed the directory of the shell or what is in it; the prompt that
\* follows arms the timer (scheduleCommandSettled).
Command(p) ==
  /\ Event
  /\ \/ shells' \in {[shells EXCEPT ![p] = path] : path \in Path \ {shells[p]}}
        /\ UNCHANGED repos
     \/ /\ \E files \in {Files, {"f"}} :
             repos' = [repos EXCEPT ![[host |-> HostOf[p], path |-> shells[p]]] =
                         [version |-> @.version + 1, files |-> files]]
        /\ UNCHANGED shells
  /\ settle' = TRUE
  /\ UNCHANGED <<git, answers, unseen>>

Settled ==
  /\ settle /\ settle' = FALSE
  /\ git' = refresh(git) /\ answers' = answers \cup Requests(git)
  /\ UNCHANGED <<shells, repos, unseen, events>>

\* Another program changes the directory that is shown; then the window is given
\* the focus again.
Elsewhere(d) ==
  /\ Event /\ d = git.shown.place
  /\ repos' = [repos EXCEPT ![d].version = @ + 1]
  /\ unseen' = TRUE
  /\ UNCHANGED <<shells, git, answers, settle>>

Focus ==
  /\ unseen /\ unseen' = FALSE
  /\ git' = refresh(git) /\ answers' = answers \cup Requests(git)
  /\ UNCHANGED <<shells, repos, settle, events>>

----------------------------------------------------------------------------

Init ==
  /\ LET path == CHOOSE x \in Path : TRUE IN shells = [p \in Pane |-> path]
  /\ repos = [d \in Place |-> [version |-> 0, files |-> Files]]
  /\ \E open \in BOOLEAN, p \in Pane :
       LET g == [active |-> p, open |-> open, seq |-> 0, loading |-> FALSE, shown |-> Empty,
                 openPath |-> None, diff |-> None, diffSeq |-> 0, diffLoading |-> FALSE]
       IN git = refresh(g) /\ answers = Requests(g)
  /\ settle = FALSE /\ unseen = FALSE /\ events = 0

Next ==
  \/ \E a \in answers : CwdAnswer(a) \/ StatusAnswer(a) \/ DiffAnswer(a)
  \/ \E p \in Pane : SwitchTo(p) \/ Command(p)
  \/ SwitchTo(None) \/ ToggleOpen \/ Settled \/ Focus
  \/ \E f \in Files : ToggleFile(f)
  \/ \E d \in Place : Elsewhere(d)

Spec == Init /\ [][Next]_gitVars

----------------------------------------------------------------------------
(* parseDiff and the gutter of DiffView: a diff is a sequence of lines, and a     *)
(* line is its class.  A deleted line that begins with "-- " reads "--- ", and an *)
(* added one that begins with "++ " reads "+++ ".                                 *)

Lines == {"header", "hunk", "context", "added", "deleted", "added++", "deleted--"}

isHeaderLine(line) == line \in {"header", "added++", "deleted--"}

\* The numbers that a hunk marker gives, and that of the other side.
HunkStart == 1

Row(kind, number) == [kind |-> kind, number |-> number]

NextRow(d, line) ==
  CASE line = "hunk" -> [rows |-> Append(d.rows, Row("hunk", 0)), old |-> HunkStart, new |-> HunkStart]
    [] isHeaderLine(line) -> d
    [] line = "added" -> [d EXCEPT !.rows = Append(@, Row("added", d.new)), !.new = @ + 1]
    [] line = "deleted" -> [d EXCEPT !.rows = Append(@, Row("deleted", d.old)), !.old = @ + 1]
    [] OTHER -> [d EXCEPT !.rows = Append(@, Row("context", d.new)),
                          !.old = @ + 1, !.new = @ + 1]

parseDiff(lines) == FoldLeft(NextRow, [rows |-> <<>>, old |-> 0, new |-> 0], lines).rows

----------------------------------------------------------------------------
(* Properties.                                                             *)

\* However refreshes overlap with the user switching panes and with the shells,
\* once nothing is under way the open panel shows the directory that the pane in
\* front is in, on its host, as it is now, unless that could not be read (refreshSeq).
PanelSettles ==
  LET quiet == answers = {} /\ ~settle /\ ~unseen IN
  /\ git.loading <=> \E a \in answers : a.kind \in {"cwd", "status"} /\ a.seq = git.seq
  /\ git.open /\ quiet /\ git.active # None =>
       LET place == [host |-> HostOf[git.active], path |-> shells[git.active]] IN
       git.shown \in {Status(place), Failure(place)}

\* The diff under a file is the diff of that file, whatever was clicked while it
\* was loading (diffSeq).
DiffOfFile ==
  git.openPath # None /\ git.diff # None /\ ~git.diffLoading => git.diff.file = git.openPath

\* The comment on the effect in GitSidebar: a diff does not stay when the panel
\* shows another set of changes.
DiffOfPlace ==
  git.openPath # None /\ git.diff # None => git.diff.of = git.shown.place

\* The rows of the body of a diff, numbered as the file before and after it is.
GutterOf(body) ==
  [i \in DOMAIN body |->
     LET side == IF body[i] \in {"deleted", "deleted--"} THEN {"deleted", "deleted--", "context"}
                 ELSE {"added", "added++", "context"}
     IN HunkStart + Cardinality({j \in 1 .. i - 1 : body[j] \in side})]

\* The comment on parseDiff: the file header is dropped, and the rest is numbered
\* from the hunk marker on.
GutterCounts ==
  git.openPath # None => \A body \in BoundedSeq(Lines \ {"header", "hunk"}, MaxLines) :
    LET rows == parseDiff(<<"header", "header", "hunk">> \o body) IN
    [i \in 1 .. Len(rows) - 1 |-> rows[i + 1].number] = GutterOf(body)
=============================================================================

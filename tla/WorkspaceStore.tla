--------------------------- MODULE WorkspaceStore ---------------------------
(***************************************************************************)
(* One workspace, as one GUI shows and edits it (workspace-store.ts,       *)
(* pane-tree.ts) and as the agent keeps it (WorkspaceDocument::apply).     *)
(*                                                                         *)
(* An edit changes what is shown at once and sends a typed operation,      *)
(* which the agent applies to its document in its own code.  When the      *)
(* queue drains, or somebody else changed the document, the document is    *)
(* projected: it replaces what is shown, except for what only this window  *)
(* knows.  WorkspaceSync is the protocol by which the two meet; here it is *)
(* one step per operation.                                                 *)
(*                                                                         *)
(* A tab's name and a leaf's title are "shell", a title or the user's own; *)
(* icons are like names and left out.                                      *)
(***************************************************************************)
EXTENDS PaneTrees, FiniteSets

CONSTANTS
  File,        \* paths a file tab can show
  MaxEdits,    \* bound: edits of anybody
  MaxOthers,   \* bound: those of other clients and of the agent itself
  MaxPins      \* bound: how often a tab is pinned or unpinned

VARIABLES
  tabs,        \* the tabs shown, in order
  activeTab,   \* activeTabId
  document,    \* the agent's tabs
  queue,       \* operations on their way, in order
  news,        \* the document has a change that was not projected
  asking,      \* addTabInheritingCwd: the tab and pane whose directory it awaits
  minted,      \* uid: how many ids have been given out
  refused,     \* history: the agent refused an operation
  edits, others, pins

vars == <<tabs, activeTab, document, queue, news, asking, minted, refused,
          edits, others, pins>>

----------------------------------------------------------------------------
(* Tabs.                                                                   *)

makeTab(id, name, cwd, file) ==
  [id |-> id, name |-> name, custom |-> FALSE, cwd |-> cwd, file |-> file,
   root |-> makeLeaf(id + 1, cwd), active |-> id + 1, pinned |-> FALSE]

\* What is sent, and what the agent keeps: not the focus, not the pin, no secrets.
toSharedTab(tab) ==
  [tab EXCEPT !.active = 0, !.pinned = FALSE, !.root = stripAgentSecrets(@)]

Index(list, id) == SelectInSeq(list, LAMBDA t : t.id = id)

TabIds(list) == {list[i].id : i \in DOMAIN list}

mapTab(list, id, fields) ==
  [i \in DOMAIN list |-> IF list[i].id = id THEN fields @@ list[i] ELSE list[i]]

Without(list, ids) == SelectSeq(list, LAMBDA t : t.id \notin ids)

\* insertAtAnchor.
insertAtAnchor(list, from, anchor, side) ==
  LET i == Index(list, from)
      j == Index(list, anchor)
      gap == IF i < j THEN j - 1 ELSE j
  IN IF i = j \/ i = 0 \/ j = 0 THEN list
     ELSE InsertAt(RemoveAt(list, i), IF side = "before" THEN gap ELSE gap + 1, list[i])

\* togglePinAndReorder: to the border between pinned and unpinned.
togglePin(list, id) ==
  LET i == Index(list, id)
      rest == RemoveAt(list, i)
      first == SelectInSeq(rest, LAMBDA t : ~t.pinned)
  IN InsertAt(rest, IF first = 0 THEN Len(rest) + 1 ELSE first,
              [list[i] EXCEPT !.pinned = ~@])

----------------------------------------------------------------------------
(* What the agent makes of an operation: the tabs, or None if it refuses.  *)

Valid(list) ==
  LET ids == FlattenSeq([i \in DOMAIN list |-> <<list[i].id>> \o nodeIds(list[i].root)]) IN
  /\ Cardinality(ToSet(ids)) = Len(ids)
  /\ \A i \in DOMAIN list : validate_tree(list[i].root)

OnTab(list, id, fields) == IF Index(list, id) = 0 THEN None ELSE mapTab(list, id, fields)

WithRoot(list, id, root) == IF root = None THEN None ELSE mapTab(list, id, [root |-> root])

\* The first tab that has the pane.
TabOfPane(list, pane) == SelectInSeq(list, LAMBDA t : pane \in LeafIds(t.root))

Effect(list, op) ==
  LET at == IF "tab" \in DOMAIN op THEN Index(list, op.tab) ELSE 0 IN
  CASE op.op = "add_tab" ->
         IF op.new.id \in TabIds(list) THEN None ELSE Append(list, op.new)
    [] op.op = "set_pane_agent" ->
         LET i == TabOfPane(list, op.pane) IN
         IF i = 0 THEN None
         ELSE [list EXCEPT ![i].root = setLeaf(@, op.pane, [agent |-> op.agent])]
    [] op.op = "set_pane_runtime_title" ->
         LET i == TabOfPane(list, op.pane) IN
         IF i = 0 THEN None
         ELSE [list EXCEPT ![i].root = setLeaf(@, op.pane, [title |-> "title"])]
    [] "tab" \in DOMAIN op /\ at = 0 -> None
    [] op.op = "remove_tab" -> RemoveAt(list, at)
    [] op.op = "reorder_tab" ->
         InsertAt(RemoveAt(list, at), IF op.index > Len(list) THEN Len(list) ELSE op.index,
                  list[at])
    [] op.op = "rename_tab" -> mapTab(list, op.tab, [name |-> op.name, custom |-> TRUE])
    [] op.op = "clear_tab_custom_name" -> mapTab(list, op.tab, [custom |-> FALSE])
    [] op.op = "set_tab_auto_name" ->
         IF list[at].custom THEN list ELSE mapTab(list, op.tab, [name |-> op.name])
    [] op.op = "split_pane" ->
         WithRoot(list, op.tab, split_tree(list[at].root, op.pane, op.direction, op.split,
                                           makeLeaf(op.leaf, op.cwd)))
    [] op.op = "close_pane" ->
         LET root == remove_pane(list[at].root, op.pane) IN
         IF root = None THEN RemoveAt(list, at) ELSE mapTab(list, op.tab, [root |-> root])
    [] op.op = "update_pane_cwd" ->
         IF op.pane \notin LeafIds(list[at].root) THEN None
         ELSE [list EXCEPT ![at].root = setLeaf(@, op.pane, [cwd |-> op.cwd])]

\* WorkspaceDocument::apply, with its last check.
Apply(list, op) ==
  LET after == Effect(list, op) IN
  IF after = None THEN None ELSE IF Valid(after) THEN after ELSE None

----------------------------------------------------------------------------
(* The projection of the document (mergeAgentWorkspace).                   *)

\* Faulty: the focus goes to the first pane.
mergeTabUnfocused(shared) ==
  [shared EXCEPT !.root = mergeAgentPaneTree(None, @), !.active = collectLeafIds(shared.root)[1]]

mergeTab(shared) ==
  LET known == Index(tabs, shared.id)
      previous == tabs[known]
      leaves == collectLeafIds(shared.root)
      active == IF known # 0 /\ previous.active \in LeafIds(shared.root)
                THEN previous.active ELSE leaves[1]
      root == mergeAgentPaneTree(IF known = 0 THEN None ELSE previous.root, shared.root)
      title == findLeaf(root, active).title
  IN [shared EXCEPT
        !.root = root, !.active = active,
        !.name = IF ~shared.custom /\ title # None THEN title ELSE @,
        !.pinned = IF known = 0 THEN FALSE ELSE previous.pinned]

Projection(list) == [i \in DOMAIN list |-> mergeTab(list[i])]

Project(list) ==
  /\ tabs' = Projection(list)
  /\ activeTab' = IF activeTab \in TabIds(list) THEN activeTab
                  ELSE IF list = <<>> THEN None ELSE list[1].id
  /\ news' = FALSE

----------------------------------------------------------------------------
(* The store's actions: what is shown, and what is sent.                   *)

Edit(list, active, ops) ==
  /\ edits + others < MaxEdits
  /\ edits' = edits + 1
  /\ tabs' = list /\ activeTab' = active
  /\ queue' = queue \o ops
  /\ UNCHANGED <<document, news, refused, others>>

Same == UNCHANGED <<asking, minted, pins>>

\* The focus when the tabs in ids are closed with removeTab or their last pane.
FocusWithout(ids) ==
  LET rest == Without(tabs, ids) IN
  IF activeTab \notin ids THEN activeTab ELSE IF rest = <<>> THEN None ELSE Last(rest).id

Shell(t) == t \in TabIds(tabs) /\ tabs[Index(tabs, t)].file = None

Root(t) == tabs[Index(tabs, t)].root

Active(t) == tabs[Index(tabs, t)].active

addTab ==
  LET tab == makeTab(minted + 1, "shell", "~", None) IN
  /\ Edit(Append(tabs, tab), tab.id, <<[op |-> "add_tab", new |-> toSharedTab(tab)]>>)
  /\ minted' = minted + 2
  /\ UNCHANGED <<asking, pins>>

\* addTabInheritingCwd, up to its await.
AskCwd ==
  /\ asking = None
  /\ activeTab # None /\ Shell(activeTab)
  /\ asking' = [tab |-> activeTab, pane |-> Active(activeTab)]
  /\ UNCHANGED <<tabs, activeTab, document, queue, news, minted, refused, edits, others, pins>>

\* ... and after it: the pane asked for may be gone by now.
AddTabInheritingCwd ==
  /\ asking # None
  /\ LET tab == makeTab(minted + 1, "shell", "work", None)
         here == asking.tab \in TabIds(tabs)
         list == IF ~here THEN tabs
                 ELSE mapTab(tabs, asking.tab,
                        [root |-> setLeaf(Root(asking.tab), asking.pane, [cwd |-> "work"]),
                         cwd |-> IF asking.pane = Active(asking.tab) THEN "work"
                                 ELSE tabs[Index(tabs, asking.tab)].cwd])
     IN Edit(Append(list, tab), tab.id,
             <<[op |-> "update_pane_cwd", tab |-> asking.tab, pane |-> asking.pane,
                cwd |-> "work"],
               [op |-> "add_tab", new |-> toSharedTab(tab)]>>)
  /\ asking' = None /\ minted' = minted + 2
  /\ UNCHANGED pins

openFileTab(file) ==
  LET at == SelectInSeq(tabs, LAMBDA t : t.file = file)
      tab == makeTab(minted + 1, "file", "~", file)
  IN /\ IF at # 0
        THEN Edit(tabs, tabs[at].id, <<>>) /\ UNCHANGED minted
        ELSE /\ Edit(Append(tabs, tab), tab.id, <<[op |-> "add_tab", new |-> toSharedTab(tab)]>>)
             /\ minted' = minted + 2
     /\ UNCHANGED <<asking, pins>>

removeTab(t) ==
  Edit(Without(tabs, {t}), FocusWithout({t}), <<[op |-> "remove_tab", tab |-> t]>>) /\ Same

renameTab(t) ==
  /\ Edit(mapTab(tabs, t, [name |-> "own", custom |-> TRUE]), activeTab,
          <<[op |-> "rename_tab", tab |-> t, name |-> "own"]>>)
  /\ Same

clearTabCustomName(t) ==
  /\ tabs[Index(tabs, t)].custom
  /\ Edit(mapTab(tabs, t, [custom |-> FALSE]), activeTab,
          <<[op |-> "clear_tab_custom_name", tab |-> t]>>)
  /\ Same

setTabAutoName(t) ==
  /\ Shell(t)
  /\ ~tabs[Index(tabs, t)].custom /\ tabs[Index(tabs, t)].name # "title"
  /\ Edit(mapTab(tabs, t, [name |-> "title"]), activeTab,
          <<[op |-> "set_tab_auto_name", tab |-> t, name |-> "title"]>>)
  /\ Same

setActiveTab(t) == activeTab # t /\ Edit(tabs, t, <<>>) /\ Same

\* Faulty: the agent is sent to the place of the anchor.
reorderTabAnchored(from, anchor, side) ==
  LET list == insertAtAnchor(tabs, from, anchor, side) IN
  /\ Edit(list, activeTab, <<[op |-> "reorder_tab", tab |-> from, index |-> Index(tabs, anchor)]>>)
  /\ Same

\* A drop across the border of the pinned tabs moves nothing, and is sent.
reorderTab(from, anchor, side) ==
  LET guarded == tabs[Index(tabs, from)].pinned # tabs[Index(tabs, anchor)].pinned
      list == IF guarded THEN tabs ELSE insertAtAnchor(tabs, from, anchor, side)
  IN /\ Edit(list, activeTab, <<[op |-> "reorder_tab", tab |-> from, index |-> Index(list, from)]>>)
     /\ Same

toggleTabPin(t) ==
  /\ pins < MaxPins /\ pins' = pins + 1
  /\ Edit(togglePin(tabs, t), activeTab, <<>>)
  /\ UNCHANGED <<asking, minted>>

\* closeOtherTabs, closeTabsBefore and closeTabsAfter: the pinned ones survive.
CloseTabs(keep, span) ==
  LET ids == {tabs[i].id : i \in {j \in span : ~tabs[j].pinned}} IN
  /\ ids # {}
  /\ Edit(Without(tabs, ids), IF activeTab \in ids THEN keep ELSE activeTab,
          [i \in 1 .. Cardinality(ids) |->
             [op |-> "remove_tab", tab |-> SelectSeq(tabs, LAMBDA t : t.id \in ids)[i].id]])
  /\ Same

closeOtherTabs(t) == CloseTabs(t, DOMAIN tabs \ {Index(tabs, t)})
closeTabsBefore(t) == CloseTabs(t, 1 .. Index(tabs, t) - 1)
closeTabsAfter(t) == CloseTabs(t, Index(tabs, t) + 1 .. Len(tabs))

splitActivePane(t, direction) ==
  LET target == Active(t)
      cwd == findLeaf(Root(t), target).cwd
      leaf == makeLeaf(minted + 1, cwd)
      root == splitPane(Root(t), target, direction, minted + 2, leaf)
  IN /\ t = activeTab /\ Shell(t)
     /\ Edit(mapTab(tabs, t, [root |-> root, active |-> leaf.id]), activeTab,
             <<[op |-> "split_pane", tab |-> t, pane |-> target, direction |-> direction,
                split |-> minted + 2, leaf |-> leaf.id, cwd |-> cwd]>>)
     /\ minted' = minted + 2
     /\ UNCHANGED <<asking, pins>>

\* Faulty: the focus stays on the pane that was closed.
closePaneFocused(t, pane) ==
  LET root == removePane(Root(t), pane)
      gone == IF root = None THEN {t} ELSE {}
  IN /\ Shell(t)
     /\ Edit(IF root = None THEN Without(tabs, {t}) ELSE mapTab(tabs, t, [root |-> root]),
             FocusWithout(gone), <<[op |-> "close_pane", tab |-> t, pane |-> pane]>>)
     /\ Same

\* The user closes a pane, or its shell exited.
closePane(t, pane) ==
  LET root == removePane(Root(t), pane)
      gone == IF root = None THEN {t} ELSE {}
  IN /\ Shell(t)
     /\ Edit(IF root = None THEN Without(tabs, {t})
             ELSE mapTab(tabs, t, [root |-> root, active |-> nextActive(Root(t), pane)]),
             FocusWithout(gone), <<[op |-> "close_pane", tab |-> t, pane |-> pane]>>)
     /\ Same

setActivePane(t, pane) ==
  /\ pane # Active(t)
  /\ Edit(mapTab(tabs, t, [active |-> pane]), activeTab, <<>>) /\ Same

\* Proportions stay in this window.
resizeSplit(t, split) ==
  /\ Edit(mapTab(tabs, t, [root |-> setSizesAt(Root(t), split.id,
                                      [i \in DOMAIN split.children |-> 1])]), activeTab, <<>>)
  /\ Same

\* Also drops what the new agent's environment is not yet known to be.
setPaneAgent(t, pane) ==
  LET on == findLeaf(Root(t), pane).agent = None
      agent == IF on THEN "claude" ELSE None
  IN /\ Shell(t)
     /\ Edit(mapTab(tabs, t, [root |-> setLeaf(Root(t), pane, [agent |-> agent, env |-> on])]),
             activeTab, <<[op |-> "set_pane_agent", pane |-> pane, agent |-> agent]>>)
     /\ Same

----------------------------------------------------------------------------
(* The agent, and what comes back from it.                                 *)

\* The first operation is judged.  A refusal rolls back to the document even
\* while more is queued; otherwise the queue is projected when it is empty.
Serve ==
  /\ queue # <<>>
  /\ LET after == Apply(document, Head(queue)) IN
     /\ document' = IF after = None THEN document ELSE after
     /\ refused' = (refused \/ after = None)
     /\ IF after = None \/ Len(queue) = 1 THEN Project(document')
        ELSE UNCHANGED <<tabs, activeTab, news>>
  /\ queue' = Tail(queue)
  /\ UNCHANGED <<asking, minted, edits, others, pins>>

\* What others may do to a tab of the document.
OtherOps(tab) ==
  {[op |-> "remove_tab", tab |-> tab.id],
   [op |-> "reorder_tab", tab |-> tab.id, index |-> 1],
   [op |-> "rename_tab", tab |-> tab.id, name |-> "theirs"]}
  \cup UNION {{[op |-> "split_pane", tab |-> tab.id, pane |-> p, direction |-> "row",
                split |-> minted + 2, leaf |-> minted + 1, cwd |-> "~"],
               [op |-> "close_pane", tab |-> tab.id, pane |-> p],
               [op |-> "set_pane_runtime_title", pane |-> p]} : p \in LeafIds(tab.root)}

Other ==
  /\ edits + others < MaxEdits /\ others < MaxOthers
  /\ others' = others + 1
  /\ \E i \in DOMAIN document : \E op \in OtherOps(document[i]) :
       /\ Apply(document, op) # None
       /\ document' = Apply(document, op)
  /\ minted' = minted + 2
  /\ news' = TRUE
  /\ UNCHANGED <<tabs, activeTab, queue, asking, refused, edits, pins>>

\* workspace_changed reaches the GUI.
Deliver ==
  /\ news /\ queue = <<>>
  /\ Project(document)
  /\ UNCHANGED <<document, queue, asking, minted, refused, edits, others, pins>>

----------------------------------------------------------------------------

Init ==
  /\ LET root == makeSplit(3, "row", <<makeLeaf(2, "~"),
                   makeSplit(5, "column", <<makeLeaf(4, "~"), makeLeaf(6, "~")>>)>>)
     IN tabs = <<[makeTab(1, "shell", "~", None) EXCEPT !.root = root],
                 makeTab(7, "shell", "~", None)>>
  /\ activeTab = 1
  /\ document = [i \in DOMAIN tabs |-> toSharedTab(tabs[i])]
  /\ queue = <<>> /\ news = FALSE /\ asking = None
  /\ minted = 8
  /\ refused = FALSE
  /\ edits = 0 /\ others = 0 /\ pins = 0

OneTab(t) ==
  \/ removeTab(t) \/ renameTab(t) \/ clearTabCustomName(t) \/ setTabAutoName(t)
  \/ setActiveTab(t) \/ toggleTabPin(t)
  \/ closeOtherTabs(t) \/ closeTabsBefore(t) \/ closeTabsAfter(t)
  \/ \E d \in {"row", "column"} : splitActivePane(t, d)
  \/ \E u \in TabIds(tabs) \ {t}, side \in {"before", "after"} : reorderTab(t, u, side)
  \/ \E p \in LeafIds(Root(t)) : closePane(t, p) \/ setActivePane(t, p) \/ setPaneAgent(t, p)
  \/ \E s \in splitNodes(Root(t)) : resizeSplit(t, s)

Next ==
  \/ \E t \in TabIds(tabs) : OneTab(t)
  \/ addTab
  \/ \E f \in File : openFileTab(f)
  \/ AskCwd \/ AddTabInheritingCwd
  \/ Serve \/ Other \/ Deliver

Spec == Init /\ [][Next]_vars

----------------------------------------------------------------------------
(* Properties.                                                             *)

Tabs(list) == \A i \in DOMAIN list :
  /\ list[i].id \in 1 .. minted /\ list[i].custom \in BOOLEAN
  /\ list[i].name \in {"shell", "title", "own", "theirs", "file"}
  /\ list[i].file \in File \cup {None}

\* The state has the shape the code relies on, and both sides pass the check
\* that the agent makes before it stores a document (validate): no id twice, two
\* children or more in a split, a size for each.  An invalid document in the
\* GUI's cache would make every later start fail at its import.
TypeOK ==
  /\ Tabs(tabs) /\ Valid(tabs) /\ Tabs(document) /\ Valid(document)
  /\ news \in BOOLEAN /\ refused \in BOOLEAN

\* The focus is on something that exists: the active tab is one of the tabs, and
\* the active pane of each tab is a leaf of its tree, whoever closed what
\* (removePane, removeTab, the bulk closings, mergeAgentWorkspace).
FocusExists ==
  /\ IF tabs = <<>> THEN activeTab = None ELSE activeTab \in TabIds(tabs)
  /\ \A i \in DOMAIN tabs : tabs[i].active \in LeafIds(tabs[i].root)

RECURSIVE Plain(_)
Plain(node) ==
  IF node.type = "leaf" THEN [node EXCEPT !.env = FALSE]
  ELSE [node EXCEPT !.sizes = <<>>, !.children = [i \in DOMAIN @ |-> Plain(@[i])]]

\* What both sides know of a tab.
Common(tab) == [id |-> tab.id, custom |-> tab.custom, file |-> tab.file,
                name |-> tab.name, root |-> Plain(tab.root)]

\* The two implementations agree: unless somebody else edited or an operation was
\* refused, the document that is projected when the queue drains is what the GUI
\* shows already, so nothing moves under the user's hands (pane-tree.ts against
\* split_tree, remove_pane and WorkspaceDocument::apply).  Pins are local and
\* change the order.
SidesAgree ==
  [][edits' = edits /\ others' = 0 /\ ~refused' =>
       LET before == [i \in DOMAIN tabs |-> Common(tabs[i])]
           after == [i \in DOMAIN tabs' |-> Common(tabs'[i])]
       IN ToSet(before) = ToSet(after) /\ (pins = 0 => before = after)]_vars

\* A document that arrives, whoever changed it, leaves the focus, the pins and
\* the proportions of unchanged splits to this window (mergeAgentWorkspace).
LocalViewKept ==
  [][edits' = edits =>
       /\ activeTab \in TabIds(tabs') => activeTab' = activeTab
       /\ \A i \in DOMAIN tabs, j \in DOMAIN tabs' : tabs[i].id = tabs'[j].id =>
            /\ tabs'[j].pinned = tabs[i].pinned
            /\ tabs[i].active \in LeafIds(tabs'[j].root) => tabs'[j].active = tabs[i].active
            /\ Plain(tabs[i].root) = Plain(tabs'[j].root) => tabs'[j].root = tabs[i].root]_vars

\* The comments on Tab.pinned in types.ts and on togglePinAndReorder: pinned tabs
\* are rendered before unpinned ones.
PinnedFirst ==
  \A i, j \in DOMAIN tabs : tabs[j].pinned /\ i < j => tabs[i].pinned
=============================================================================
